------------------------------- MODULE Unwind -------------------------------
(***************************************************************************)
(* Exceptions of one thread (exn.c, sml_save_exn / sml_unsave_exn of       *)
(* control.c, and the landing pads the compiler generates for them).       *)
(*                                                                         *)
(* The stack is a sequence of frames, the last one running.  ML code       *)
(* ("ml"), the toplevel code of a callback ("top"), C or C++ functions     *)
(* ("c") and C++ destructors run while an exception passes ("dtor") call   *)
(* each other; the pad of a frame is the landing pad of the call it is     *)
(* in.  An exception is raised in two phases by the unwinder of the        *)
(* platform: SEARCH asks the personality of every frame for a handler, and *)
(* the second phase visits the same frames again, lands on cleanup pads    *)
(* and last on the handler.  Several exceptions are in flight when a       *)
(* destructor calls ML code that raises again.                             *)
(***************************************************************************)
EXTENDS Naturals, Sequences, FiniteSets, SequencesExt

CONSTANTS MaxDepth,  \* bound on the number of frames
          MaxRaise   \* bound on the number of exceptions raised

VARIABLES stack,       \* frames [kind, pad], the running one last
          flights,     \* exceptions in flight, the current one last
          exn_object,  \* user->exn_object, 0 for NULL
          inML,        \* whether the thread is in its ML context
          mode,        \* "run", "search", "unwind" or "dead"
          raised       \* number of exceptions raised so far

vars == <<stack, flights, exn_object, inML, mode, raised>>

Kind == {"ml", "top", "c", "dtor"}
MLKind == {"ml", "top"}
Pad == SUBSET {"CATCH", "CLEANUP"}

Frame(kind) == [kind |-> kind, pad |-> {}]

Now == Last(stack)
Current == Last(flights)

(* The program starts in its toplevel code, called by main.                *)
Init == /\ stack = <<Frame("c"), Frame("top")>>
        /\ flights = <<>>
        /\ exn_object = 0
        /\ inML = TRUE
        /\ mode = "run"
        /\ raised = 0

(***************************************************************************)
(* The landing pads of the compiled code: a call inside `handle' catches   *)
(* everything, the toplevel code of a callback has a cleanup pad around    *)
(* all its calls, and so has every call of a C function that may call      *)
(* back.  The exception table of a function lists the ranges of its calls  *)
(* in the order of their addresses: here the plain call, the call inside   *)
(* `handle' and the same two calls of a C function, adjoining each other.  *)
(***************************************************************************)
HandlerKind(kind, handled, foreign) ==
  (IF handled THEN {"CATCH"} ELSE {})
    \cup (IF foreign \/ kind = "top" THEN {"CLEANUP"} ELSE {})

Site(handled, foreign) == (IF handled THEN 2 ELSE 1) + (IF foreign THEN 2 ELSE 0)

CallSites(kind) ==
  [n \in 1 .. 4 |->
     LET pad == HandlerKind(kind, n \in {2, 4}, n > 2) IN
     [cs_start |-> 2 * n, cs_len |-> 2,
      cs_lpad |-> IF pad = {} THEN 0 ELSE n,
      \* no action: cleanup; one action: catch; two: both
      action |-> IF "CATCH" \in pad THEN Cardinality(pad) ELSE 0]]

(* The pad of the call that returns to ip.  An address outside of every    *)
(* range is a handler at NULL, which terminates the program.               *)
search_lpad(table, ip) ==
  LET call == ip - 1
      hit == {i \in DOMAIN table :
                call \in table[i].cs_start .. table[i].cs_start + table[i].cs_len - 1}
      site == table[CHOOSE i \in hit : TRUE]
  IN  IF hit = {} THEN {"CATCH"}
      ELSE IF site.cs_lpad = 0 THEN {}
      ELSE CASE site.action = 0 -> {"CLEANUP"}
             [] site.action = 1 -> {"CATCH"}
             [] OTHER -> {"CATCH", "CLEANUP"}

LandingPad(kind, handled, foreign) ==
  search_lpad(CallSites(kind), 2 * Site(handled, foreign) + 2)

Calling(pad) == [stack EXCEPT ![Len(stack)].pad = pad]

call_ml == /\ mode = "run" /\ inML /\ Len(stack) < MaxDepth
           /\ \E handled \in BOOLEAN :
                stack' = Append(Calling(LandingPad(Now.kind, handled, FALSE)),
                                Frame("ml"))
           /\ UNCHANGED <<flights, exn_object, inML, mode, raised>>

(* ML code leaves its context for a C function (sml_leave or sml_save).    *)
call_c == /\ mode = "run" /\ inML /\ Len(stack) < MaxDepth
          /\ \E handled \in BOOLEAN :
               stack' = Append(Calling(LandingPad(Now.kind, handled, TRUE)),
                               Frame("c"))
          /\ inML' = FALSE
          /\ UNCHANGED <<flights, exn_object, mode, raised>>

(* C code calls an exported ML function, whose toplevel code calls         *)
(* sml_start.  A C++ caller may have a local to destroy or a catch clause; *)
(* nothing may leave a destructor.                                         *)
call_back ==
  /\ mode = "run" /\ ~inML /\ Len(stack) < MaxDepth
  /\ \E pad \in IF Now.kind = "dtor" THEN {{"CATCH"}}
                ELSE {{}, {"CATCH"}, {"CLEANUP"}} :
       stack' = Append(Calling(pad), Frame("top"))
  /\ inML' = TRUE
  /\ UNCHANGED <<flights, exn_object, mode, raised>>

(* The running function returns: toplevel code calls sml_end, a C function *)
(* returns to an sml_enter, and a destructor to _Unwind_Resume.            *)
return ==
  /\ mode = "run" /\ Len(stack) > 2
  /\ stack' = Front(stack)
  /\ inML' = (stack[Len(stack) - 1].kind \in MLKind)
  /\ mode' = IF Now.kind = "dtor" THEN "unwind" ELSE "run"
  /\ UNCHANGED <<flights, exn_object, raised>>

(***************************************************************************)
(* struct exception: the handler found in SEARCH and the number of cleanup *)
(* pads on the way to it.  at is the frame the unwinder visits next.       *)
(***************************************************************************)
Exception(class) == [id |-> raised + 1, class |-> class, handler_addr |-> 0,
                     num_cleanup |-> 0, at |-> Len(stack)]

Raise(class, pad) ==
  /\ raised < MaxRaise
  /\ raised' = raised + 1
  /\ stack' = Calling(pad)
  /\ flights' = Append(flights, Exception(class))
  /\ mode' = "search"
  /\ UNCHANGED <<exn_object, inML>>

sml_raise == /\ mode = "run" /\ inML
             /\ \E handled \in BOOLEAN :
                  Raise("ML", LandingPad(Now.kind, handled, FALSE))

cxx_throw == /\ mode = "run" /\ ~inML /\ Now.kind = "c"
             /\ Raise("CXX", {})

Update(e) == flights' = [flights EXCEPT ![Len(flights)] = e]

CountAll(lpad, e) == IF "CLEANUP" \in lpad THEN e.num_cleanup + 1
                     ELSE e.num_cleanup

CountNone(lpad, e) == e.num_cleanup

(* SEARCH counts the pads that only clean up: a frame that catches ends    *)
(* the phase, whatever else its pad does.                                  *)
CleanupCount(lpad, e) ==
  IF "CATCH" \notin lpad /\ "CLEANUP" \in lpad THEN e.num_cleanup + 1
  ELSE e.num_cleanup

(* The unwinder asks a frame for a handler: sml_personality for ML code,   *)
(* the personality of C++ otherwise.  At the end of the stack the raise    *)
(* fails and the program ends (uncaught_exception).                        *)
search ==
  /\ mode = "search"
  /\ LET e == Current
         lpad == stack[e.at].pad
         ours == stack[e.at].kind \in MLKind /\ e.class = "ML"
         num == IF ours THEN CleanupCount(lpad, e) ELSE e.num_cleanup
     IN  IF "CATCH" \in lpad
         THEN /\ mode' = "unwind"
              /\ Update([e EXCEPT !.handler_addr = e.at, !.at = Len(stack),
                                  !.num_cleanup = num])
         ELSE /\ mode' = IF e.at = 1 THEN "dead" ELSE "search"
              /\ Update([e EXCEPT !.at = IF e.at = 1 THEN 1 ELSE e.at - 1,
                                  !.num_cleanup = num])
  /\ UNCHANGED <<stack, exn_object, inML, raised>>

(***************************************************************************)
(* The second phase.                                                       *)
(***************************************************************************)
(* Whether frame i is in a call of a C function, whose pad calls sml_enter *)
(* and sml_unsave_exn first.                                               *)
Foreign(i) == i < Len(stack) /\ stack[i + 1].kind = "c"

sml_unsave_exn(foreign, e) ==
  IF foreign /\ e.class = "ML" THEN 0 ELSE exn_object

(* sml_save_exn of toplevel code ends the program when it finds another    *)
(* exception saved.                                                        *)
MaySave(saved) == saved = 0

SavedNot(e, saved) == saved

sml_save_exn(e, saved) == IF e.class = "ML" THEN e.id ELSE 0

Land(i) == stack' = SubSeq(stack, 1, i)

Skip(e) == /\ Update([e EXCEPT !.at = @ - 1])
           /\ UNCHANGED <<stack, exn_object, inML, mode, raised>>

(* A handler of ML code.  A foreign exception has been deleted and the     *)
(* handler is entered with NULL for the exception, which it reads.         *)
land_handler ==
  /\ mode = "unwind"
  /\ LET e == Current IN
     /\ e.at = e.handler_addr
     /\ stack[e.at].kind \in MLKind
     /\ Land(e.at)
     /\ exn_object' = sml_unsave_exn(Foreign(e.at), e)
     /\ inML' = (inML \/ Foreign(e.at))
     /\ mode' = IF e.class = "ML" THEN "run" ELSE "dead"
  /\ flights' = Front(flights)
  /\ UNCHANGED raised

(* A cleanup pad of ML code, unless SEARCH has counted none that is left.  *)
(* Toplevel code saves the exception and calls sml_end, and every cleanup  *)
(* resumes the unwinding.                                                  *)
Skipped(e) == "CLEANUP" \notin stack[e.at].pad
              \/ (e.class = "ML" /\ e.num_cleanup = 0)

land_cleanup ==
  /\ mode = "unwind"
  /\ LET e == Current
         saved == sml_unsave_exn(Foreign(e.at), e)
         top == stack[e.at].kind = "top"
     IN
     /\ e.at # e.handler_addr
     /\ stack[e.at].kind \in MLKind
     /\ \/ Skipped(e) /\ Skip(e)
        \/ /\ ~Skipped(e)
           /\ Land(e.at)
           /\ Update([e EXCEPT !.num_cleanup =
                                 IF e.class = "ML" THEN @ - 1 ELSE @,
                               !.at = @ - 1])
           /\ exn_object' = IF top THEN sml_save_exn(e, saved) ELSE saved
           /\ mode' = IF top /\ ~MaySave(saved) THEN "dead" ELSE "unwind"
           /\ inML' = ((inML \/ Foreign(e.at)) /\ ~top)
           /\ UNCHANGED raised

(* A frame of C or C++: a catch clause ends the exception (and frees it,   *)
(* cleanup() of exn.c), a destructor runs with the exception in flight,    *)
(* and an exception leaving a destructor terminates the program.           *)
land_cxx ==
  /\ mode = "unwind"
  /\ LET e == Current IN
     /\ stack[e.at].kind \notin MLKind
     /\ \/ /\ e.at = e.handler_addr
           /\ Land(e.at)
           /\ flights' = Front(flights)
           /\ mode' = IF stack[e.at].kind = "dtor" THEN "dead" ELSE "run"
           /\ UNCHANGED <<exn_object, inML, raised>>
        \/ /\ e.at # e.handler_addr
           /\ "CLEANUP" \in stack[e.at].pad
           /\ stack' = Append(SubSeq(stack, 1, e.at), Frame("dtor"))
           /\ Update([e EXCEPT !.at = @ - 1])
           /\ mode' = "run"
           /\ UNCHANGED <<exn_object, inML, raised>>
        \/ /\ e.at # e.handler_addr
           /\ "CLEANUP" \notin stack[e.at].pad
           /\ Skip(e)

ended == mode = "dead" /\ UNCHANGED vars

Next == \/ call_ml \/ call_c \/ call_back \/ return
        \/ sml_raise \/ cxx_throw
        \/ search \/ land_handler \/ land_cleanup \/ land_cxx
        \/ ended

Spec == Init /\ [][Next]_vars

-----------------------------------------------------------------------------
(* The shortcut of the second phase (no pad is looked up once num_cleanup  *)
(* is 0) never passes a cleanup pad of ML code: num_cleanup always is the  *)
(* number of such pads left before the handler, also when destructors have *)
(* run other exceptions in between.                                        *)
PadsLeft == \A k \in DOMAIN flights :
  LET e == flights[k]
      left == {i \in e.handler_addr + 1 .. e.at :
                 stack[i].kind \in MLKind /\ "CLEANUP" \in stack[i].pad}
  IN  (e.class = "ML" /\ e.handler_addr # 0 /\ mode # "dead")
        => e.num_cleanup = Cardinality(left)

(* Every function runs in its own context, however the functions above it  *)
(* ended: ML code and its handlers in the ML context, C code, catch        *)
(* clauses and destructors outside of it.                                  *)
ContextMatches == mode = "run" => (inML <=> Now.kind \in MLKind)

(* While an ML exception passes frames of C, and while a destructor it has *)
(* started runs ML code again, its object is in exn_object, where the      *)
(* collector finds it; and what the ML handler beyond those frames takes   *)
(* out of exn_object is that object.                                       *)
ExnHeld == \A k \in DOMAIN flights :
  LET e == flights[k]
  IN  e.class = "ML" /\ mode # "dead"
        => \/ exn_object = e.id
           \/ k = Len(flights) /\ mode # "run" /\ inML

(* exn_object is empty when no ML exception is being handled, so that only *)
(* an exception raised during the handling of another one is fatal, as the *)
(* comment in sml_save_exn says.                                           *)
ExnReleased == (flights = <<>> /\ mode = "run") => exn_object = 0
=============================================================================
