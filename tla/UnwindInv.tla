------------------------------ MODULE UnwindInv ------------------------------
(***************************************************************************)
(* The inductive invariant of module Unwind, from which PadsLeft,          *)
(* ContextMatches and ExnHeld follow: how the frames of a stack call each  *)
(* other, where the exceptions that wait for a destructor are, and what    *)
(* the unwinder has done with the current one.  Nothing is said of a       *)
(* program that has ended.                                                 *)
(***************************************************************************)
EXTENDS Unwind

FrameType == [kind : Kind, pad : Pad]
ExceptionType == [id : Nat \ {0}, class : {"ML", "CXX"}, handler_addr : Nat,
                  num_cleanup : Nat, at : Nat \ {0}]

(* Types.  main stays below everything, and has no landing pad.            *)
TypeOK == /\ stack \in Seq(FrameType) /\ Len(stack) >= 2 /\ stack[1] = Frame("c")
          /\ flights \in Seq(ExceptionType)
          /\ exn_object \in Nat /\ inML \in BOOLEAN /\ raised \in Nat
          /\ mode \in {"run", "search", "unwind"}

(* Exceptions are numbered as they are raised.                             *)
Numbers == \A k \in DOMAIN flights :
             /\ flights[k].id <= raised
             /\ \A j \in DOMAIN flights : flights[j].id = flights[k].id => j = k

(* Who calls whom, and with which landing pad.                             *)
CallOK(low, high) ==
  /\ low.kind \in MLKind => high.kind \in {"ml", "c"}
  /\ low.kind = "c" => high.kind \in {"top", "dtor"}
  /\ low.kind = "dtor" => high.kind = "top" /\ "CATCH" \in low.pad
  /\ low.kind = "top" \/ (low.kind = "ml" /\ high.kind = "c") => "CLEANUP" \in low.pad

Calls == /\ \A i \in 1 .. Len(stack) - 1 : CallOK(stack[i], stack[i + 1])
         /\ mode # "run" => /\ Now.kind # "dtor"
                            /\ Now.kind = "top" => "CLEANUP" \in Now.pad

(* Exception k waits for a destructor that it has started.                 *)
Waits(k) == k \in DOMAIN flights /\ (k < Len(flights) \/ mode = "run")

(* Each of those is at the caller of the function whose destructor runs,   *)
(* and no other destructor runs.                                           *)
Destructors ==
  /\ \A k \in DOMAIN flights : Waits(k) =>
       /\ flights[k].handler_addr \in 2 .. flights[k].at
       /\ flights[k].at + 2 <= Len(stack)
       /\ stack[flights[k].at + 2].kind = "dtor"
  /\ \A i \in DOMAIN stack : stack[i].kind = "dtor" =>
       \E k \in DOMAIN flights : Waits(k) /\ i = flights[k].at + 2

(* An exception raised under a destructor stays above it.                  *)
Nested == \A j, k \in DOMAIN flights : j < k =>
            /\ flights[j].at + 2 <= flights[k].at
            /\ flights[k].handler_addr = 0
                 \/ flights[j].at + 2 <= flights[k].handler_addr

(* The cleanup pads of ML code in the frames i to j.                       *)
Cleanups(i, j) == {n \in i .. j : stack[n].kind \in MLKind /\ "CLEANUP" \in stack[n].pad}

(* The first phase: the pads seen so far have been counted.                *)
Searching == mode = "search" =>
  /\ flights # <<>>
  /\ Current.handler_addr = 0 /\ Current.at <= Len(stack)
  /\ Current.class = "ML" =>
       Current.num_cleanup = Cardinality(Cleanups(Current.at + 1, Len(stack)))

(* The second phase is between the top of the stack and the handler.       *)
Unwinding == mode = "unwind" =>
  /\ flights # <<>>
  /\ Current.handler_addr \in 2 .. Current.at /\ Current.at <= Len(stack)

(* The pads that are left have been counted, for every exception that has  *)
(* a handler.                                                              *)
Counted == \A k \in DOMAIN flights :
  flights[k].class = "ML" /\ flights[k].handler_addr # 0 =>
    flights[k].num_cleanup =
      Cardinality(Cleanups(flights[k].handler_addr + 1, flights[k].at))

(* The context is that of the running frame; in the second phase that of   *)
(* the frame unwound last, which toplevel code has left by sml_end.        *)
Context ==
  /\ mode \in {"run", "search"} => inML = (Now.kind \in MLKind)
  /\ mode = "unwind" =>
       inML = IF Current.at = Len(stack) THEN Now.kind \in MLKind
              ELSE stack[Current.at + 1].kind = "ml"

(* The object of an ML exception is in exn_object, except for the current  *)
(* one while it passes ML code.                                            *)
Held == \A k \in DOMAIN flights : flights[k].class = "ML" =>
          exn_object = flights[k].id \/ (k = Len(flights) /\ mode # "run" /\ inML)

Good == /\ TypeOK /\ Numbers /\ Calls /\ Destructors /\ Nested
        /\ Searching /\ Unwinding /\ Counted /\ Context /\ Held

(* The inductive invariant.                                                *)
IInv == mode = "dead" \/ Good
=============================================================================
