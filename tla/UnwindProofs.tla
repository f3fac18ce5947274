----------------------------- MODULE UnwindProofs -----------------------------
(***************************************************************************)
(* The invariant of UnwindInv is kept by every step of module Unwind, and  *)
(* what follows from it: the number of cleanup pads that sml_personality   *)
(* goes by is right, every function runs in its own context, and the       *)
(* object of an ML exception is never lost, for stacks of any depth and    *)
(* any number of exceptions in flight.                                     *)
(***************************************************************************)
EXTENDS UnwindInv, SequenceTheorems, FiniteSetTheorems, TLAPS

\* search_lpad finds in the table of a function what the compiler has put
\* there for the call.
LEMMA PadFound ==
    ASSUME NEW kind \in Kind, NEW handled \in BOOLEAN, NEW foreign \in BOOLEAN
    PROVE  LandingPad(kind, handled, foreign) = HandlerKind(kind, handled, foreign)
<1> DEFINE n == Site(handled, foreign)
           table == CallSites(kind)
           pad == HandlerKind(kind, n \in {2, 4}, n > 2)
           hit == {i \in DOMAIN table :
                     (2 * n + 2) - 1 \in table[i].cs_start ..
                                         table[i].cs_start + table[i].cs_len - 1}
<1>1. n \in 1 .. 4 /\ (n \in {2, 4} <=> handled) /\ (n > 2 <=> foreign)
  BY DEF Site
<1>2. pad = HandlerKind(kind, handled, foreign)
  BY <1>1 DEF HandlerKind
<1>3. table[n] = [cs_start |-> 2 * n, cs_len |-> 2, cs_lpad |-> IF pad = {} THEN 0 ELSE n,
                  action |-> IF "CATCH" \in pad THEN Cardinality(pad) ELSE 0]
  BY <1>1 DEF CallSites
<1>4. hit = {n}
  <2>1. DOMAIN table = 1 .. 4 /\ \A i \in 1 .. 4 : table[i].cs_start = 2 * i /\ table[i].cs_len = 2
    BY DEF CallSites
  <2> HIDE DEF table, n
  <2> QED BY <1>1, <2>1
<1>5. (CHOOSE i \in hit : TRUE) = n
  BY <1>4
<1>6. LandingPad(kind, handled, foreign) =
        IF table[n].cs_lpad = 0 THEN {}
        ELSE CASE table[n].action = 0 -> {"CLEANUP"}
               [] table[n].action = 1 -> {"CATCH"}
               [] OTHER -> {"CATCH", "CLEANUP"}
  <2> HIDE DEF table, n
  <2>1. LandingPad(kind, handled, foreign) = search_lpad(table, 2 * n + 2)
    BY DEF LandingPad, table, n
  <2> QED BY <2>1, <1>4, <1>5 DEF search_lpad
<1>7. /\ Cardinality({"CATCH"}) = 1
      /\ Cardinality({"CATCH", "CLEANUP"}) = 2
  <2>1. Cardinality({"CATCH"}) = 1 /\ IsFiniteSet({"CATCH"})
    BY FS_Singleton
  <2>2. {"CATCH", "CLEANUP"} = {"CATCH"} \cup {"CLEANUP"}
    OBVIOUS
  <2>3. Cardinality({"CATCH"} \cup {"CLEANUP"}) = 2
    BY <2>1, FS_AddElement, "CLEANUP" \notin {"CATCH"}
  <2> QED BY <2>1, <2>2, <2>3
<1>8. /\ pad \in {{}, {"CATCH"}, {"CLEANUP"}, {"CATCH", "CLEANUP"}}
  BY DEF HandlerKind
<1> HIDE DEF n, table, pad, hit
<1>9. CASE pad = {}
  BY <1>9, <1>2, <1>3, <1>6
<1>10. CASE pad = {"CATCH"}
  BY <1>10, <1>1, <1>2, <1>3, <1>6, <1>7
<1>11. CASE pad = {"CLEANUP"}
  BY <1>11, <1>1, <1>2, <1>3, <1>6
<1>12. CASE pad = {"CATCH", "CLEANUP"}
  BY <1>12, <1>1, <1>2, <1>3, <1>6, <1>7
<1> QED BY <1>8, <1>9, <1>10, <1>11, <1>12

\* The pad of a call: one that cleans up if the callee may call back, or the
\* caller is toplevel code.
LEMMA PadOfCall ==
    ASSUME NEW kind \in Kind, NEW handled \in BOOLEAN, NEW foreign \in BOOLEAN
    PROVE  /\ LandingPad(kind, handled, foreign) \in Pad
           /\ "CLEANUP" \in LandingPad(kind, handled, foreign) <=> foreign \/ kind = "top"
  BY PadFound DEF HandlerKind, Pad

\* What the types say of the two sequences.
LEMMA Basics ==
    ASSUME Good
    PROVE  /\ Len(stack) \in Nat /\ Len(stack) >= 2 /\ DOMAIN stack = 1 .. Len(stack)
           /\ \A i \in 1 .. Len(stack) : stack[i] \in FrameType
           /\ Len(flights) \in Nat /\ DOMAIN flights = 1 .. Len(flights)
           /\ \A k \in 1 .. Len(flights) : flights[k] \in ExceptionType
           /\ flights # <<>> => Len(flights) >= 1
           /\ Now = stack[Len(stack)] /\ Current = flights[Len(flights)]
<1>1. stack \in Seq(FrameType) /\ flights \in Seq(ExceptionType) /\ Len(stack) >= 2
  BY DEF Good, TypeOK
<1>2. \A k \in 1 .. Len(flights) : flights[k] \in ExceptionType
  BY <1>1, ElementOfSeq
<1>3. \A i \in 1 .. Len(stack) : stack[i] \in FrameType
  BY <1>1, ElementOfSeq
<1>4. /\ Len(stack) \in Nat /\ DOMAIN stack = 1 .. Len(stack)
      /\ Len(flights) \in Nat /\ DOMAIN flights = 1 .. Len(flights)
  BY <1>1, LenProperties
<1>5. flights # <<>> => Len(flights) >= 1
  BY <1>1, EmptySeq
<1> QED BY <1>1, <1>2, <1>3, <1>4, <1>5 DEF Now, Current, Last

\* The pad of the running frame is set.
LEMMA CallingFrames ==
    ASSUME Good, NEW pad \in Pad
    PROVE  /\ Calling(pad) \in Seq(FrameType) /\ Len(Calling(pad)) = Len(stack)
           /\ \A i \in 1 .. Len(stack) - 1 : Calling(pad)[i] = stack[i]
           /\ Calling(pad)[Len(stack)] = [kind |-> Now.kind, pad |-> pad]
<1> DEFINE f == [kind |-> Now.kind, pad |-> pad]
<1>1. f \in FrameType /\ Len(stack) \in 1 .. Len(stack) /\ Now \in FrameType
  BY Basics DEF FrameType
<1>2. [stack[Len(stack)] EXCEPT !.pad = pad] = f
  BY <1>1, Basics DEF FrameType
<1>3. Calling(pad) = [stack EXCEPT ![Len(stack)] = f]
  BY <1>2 DEF Calling
<1>4. stack \in Seq(FrameType)
  BY DEF Good, TypeOK
<1> HIDE DEF f
<1>5. /\ Calling(pad) \in Seq(FrameType) /\ Len(Calling(pad)) = Len(stack)
      /\ \A j \in 1 .. Len(stack) : Calling(pad)[j] = IF j = Len(stack) THEN f ELSE stack[j]
  BY <1>1, <1>3, <1>4, ExceptSeq
<1> QED BY <1>5, <1>1, Basics DEF f

\* A frame is called.
LEMMA PushedFrames ==
    ASSUME Good, NEW pad \in Pad, NEW kind \in Kind,
           stack' = Append(Calling(pad), Frame(kind))
    PROVE  /\ stack' \in Seq(FrameType) /\ Len(stack') = Len(stack) + 1
           /\ \A i \in 1 .. Len(stack) - 1 : stack'[i] = stack[i]
           /\ stack'[Len(stack)] = [kind |-> Now.kind, pad |-> pad]
           /\ stack'[Len(stack) + 1] = Frame(kind)
<1>1. Frame(kind) \in FrameType
  BY DEF Frame, FrameType, Pad
<1>2. Calling(pad) \in Seq(FrameType) /\ Len(Calling(pad)) = Len(stack)
  BY CallingFrames
<1>3. /\ Append(Calling(pad), Frame(kind)) \in Seq(FrameType)
      /\ Len(Append(Calling(pad), Frame(kind))) = Len(Calling(pad)) + 1
      /\ \A i \in 1 .. Len(Calling(pad)) :
           Append(Calling(pad), Frame(kind))[i] = Calling(pad)[i]
      /\ Append(Calling(pad), Frame(kind))[Len(Calling(pad)) + 1] = Frame(kind)
  BY <1>1, <1>2, AppendProperties
<1> QED BY <1>2, <1>3, CallingFrames, Basics

\* The frames above frame n are gone.
LEMMA LandedFrames ==
    ASSUME Good, NEW n \in 1 .. Len(stack)
    PROVE  /\ SubSeq(stack, 1, n) \in Seq(FrameType) /\ Len(SubSeq(stack, 1, n)) = n
           /\ \A i \in 1 .. n : SubSeq(stack, 1, n)[i] = stack[i]
<1>1. \A i \in 1 .. n : stack[i] \in FrameType
  BY Basics
<1>2. n \in Int /\ 1 <= n
  BY Basics
<1>3. /\ SubSeq(stack, 1, n) \in Seq(FrameType)
      /\ Len(SubSeq(stack, 1, n)) = IF 1 <= n THEN n - 1 + 1 ELSE 0
      /\ \A i \in 1 .. n - 1 + 1 : SubSeq(stack, 1, n)[i] = stack[1 + i - 1]
  BY <1>1, <1>2, SubSeqProperties
<1> QED BY <1>2, <1>3

\* The current exception is changed.
LEMMA UpdatedFlights ==
    ASSUME Good, flights # <<>>, NEW e \in ExceptionType, Update(e)
    PROVE  /\ flights' \in Seq(ExceptionType) /\ Len(flights') = Len(flights)
           /\ \A k \in 1 .. Len(flights) - 1 : flights'[k] = flights[k]
           /\ flights'[Len(flights)] = e
<1>1. flights \in Seq(ExceptionType) /\ Len(flights) \in 1 .. Len(flights)
  BY Basics DEF Good, TypeOK
<1> DEFINE g == [flights EXCEPT ![Len(flights)] = e]
<1>2. flights' = g
  BY DEF Update
<1>3. /\ g \in Seq(ExceptionType) /\ Len(g) = Len(flights)
      /\ \A j \in 1 .. Len(flights) : g[j] = IF j = Len(flights) THEN e ELSE flights[j]
  BY <1>1, ExceptSeq
<1> HIDE DEF g
<1> QED BY <1>1, <1>2, <1>3, Basics

\* The current exception has been caught.
LEMMA CaughtFlights ==
    ASSUME Good, flights # <<>>, flights' = Front(flights)
    PROVE  /\ flights' \in Seq(ExceptionType) /\ Len(flights') = Len(flights) - 1
           /\ \A k \in 1 .. Len(flights) - 1 : flights'[k] = flights[k]
<1>1. Len(flights) \in Nat /\ Len(flights) - 1 \in Int /\ Len(flights) >= 1
  BY Basics
<1>2. \A i \in 1 .. Len(flights) - 1 : flights[i] \in ExceptionType
  BY Basics
<1>3. flights' = SubSeq(flights, 1, Len(flights) - 1)
  BY DEF Front
<1> HIDE DEF Front
<1>4. /\ SubSeq(flights, 1, Len(flights) - 1) \in Seq(ExceptionType)
      /\ Len(SubSeq(flights, 1, Len(flights) - 1)) =
           IF 1 <= Len(flights) - 1 THEN Len(flights) - 1 - 1 + 1 ELSE 0
      /\ \A i \in 1 .. Len(flights) - 1 - 1 + 1 :
           SubSeq(flights, 1, Len(flights) - 1)[i] = flights[1 + i - 1]
  BY <1>1, <1>2, SubSeqProperties
<1> QED BY <1>1, <1>3, <1>4, Basics

\* Frames that are the same have the same cleanup pads.
LEMMA SameCleanups ==
    ASSUME NEW i \in Nat, NEW j \in Nat, \A n \in i .. j : stack'[n] = stack[n]
    PROVE  Cleanups(i, j)' = Cleanups(i, j)
  BY DEF Cleanups

\* Sets of pads are finite.
LEMMA FiniteCleanups ==
    ASSUME NEW i \in Nat, NEW j \in Nat
    PROVE  IsFiniteSet(Cleanups(i, j)) /\ Cardinality(Cleanups(i, j)) \in Nat
<1>1. IsFiniteSet(i .. j)
  BY FS_Interval
<1>2. Cleanups(i, j) \in SUBSET (i .. j)
  BY DEF Cleanups
<1> QED BY <1>1, <1>2, FS_Subset, FS_CardinalityType
\* Where an exception that waits is.
LEMMA Waiting ==
    ASSUME Good, NEW k \in DOMAIN flights, Waits(k)
    PROVE  /\ flights[k].at \in Nat \ {0} /\ flights[k].handler_addr \in Nat
           /\ flights[k].handler_addr \in 2 .. flights[k].at
           /\ flights[k].at + 2 <= Len(stack)
           /\ stack[flights[k].at + 2].kind = "dtor"
<1>1. flights[k] \in ExceptionType
  BY Basics
<1> QED BY <1>1 DEF Good, Destructors, ExceptionType

-----------------------------------------------------------------------------
(***************************************************************************)
(* Calls, returns and raises                                               *)
(***************************************************************************)

\* The program starts with nothing in flight.
LEMMA InitGood == Init => IInv
<1> SUFFICES ASSUME Init PROVE Good
  BY DEF IInv
<1> USE DEF Init
<1>1. Frame("c") \in FrameType /\ Frame("top") \in FrameType
  BY DEF Frame, FrameType, Pad, Kind
<1>2. /\ stack \in Seq(FrameType) /\ Len(stack) = 2
      /\ stack[1] = Frame("c") /\ stack[2] = Frame("top")
  BY <1>1
<1>3. flights \in Seq(ExceptionType) /\ DOMAIN flights = {} /\ Len(flights) = 0
  BY EmptySeq
<1>4. DOMAIN stack = {1, 2}
  BY <1>2
<1>5. TypeOK
  BY <1>2, <1>3 DEF TypeOK
<1>6. Calls
  BY <1>2 DEF Calls, CallOK, Frame, MLKind
<1>7. Destructors
  BY <1>2, <1>3, <1>4 DEF Destructors, Frame
<1>8. Context
  BY <1>2 DEF Context, Now, Last, Frame, MLKind
<1> QED BY <1>3, <1>5, <1>6, <1>7, <1>8 DEF Good, Numbers, Nested, Searching, Unwinding,
           Counted, Held

\* A running function calls another one.
LEMMA PushKeeps ==
    ASSUME Good, mode = "run", NEW pad \in Pad, NEW kind \in Kind, kind # "dtor",
           CallOK([kind |-> Now.kind, pad |-> pad], Frame(kind)),
           stack' = Append(Calling(pad), Frame(kind)),
           inML' = (kind \in MLKind),
           UNCHANGED <<flights, exn_object, mode, raised>>
    PROVE  Good'
<1> DEFINE top == Len(stack)
<1>0. /\ top \in Nat /\ top >= 2 /\ DOMAIN stack = 1 .. top
      /\ DOMAIN flights = 1 .. Len(flights)
      /\ \A k \in DOMAIN flights : flights[k] \in ExceptionType
      /\ Now = stack[top]
  BY Basics
<1>1. /\ stack' \in Seq(FrameType) /\ Len(stack') = top + 1
      /\ \A i \in 1 .. top - 1 : stack'[i] = stack[i]
      /\ stack'[top] = [kind |-> Now.kind, pad |-> pad]
      /\ stack'[top + 1] = Frame(kind)
  BY PushedFrames
<1> HIDE DEF top
<1>2. Now' = Frame(kind)
  BY <1>1 DEF Now, Last
<1>3. DOMAIN stack' = 1 .. top + 1 /\ \A i \in 1 .. top : stack'[i].kind = stack[i].kind
  <2>1. DOMAIN stack' = 1 .. Len(stack')
    BY <1>1, LenProperties
  <2> QED BY <1>1, <2>1, <1>0
<1>4. TypeOK'
  BY <1>2, <1>1, <1>0 DEF Good, TypeOK
<1>5. Numbers'
  BY DEF Good, Numbers
<1>6. Calls'
  <2>1. ASSUME NEW i \in 1 .. Len(stack') - 1 PROVE CallOK(stack'[i], stack'[i + 1])
    <3>1. CASE i = top
      BY <1>1, <3>1
    <3>2. CASE i = top - 1
      <4>1. CallOK(stack[i], stack[i + 1])
        BY <3>2, <1>0 DEF Good, Calls
      <4>2. stack'[i] = stack[i] /\ stack'[i + 1].kind = stack[i + 1].kind
        BY <3>2, <1>1, <1>3, <1>0
      <4> QED BY <4>1, <4>2 DEF CallOK
    <3>3. CASE i < top - 1
      BY <3>3, <1>1, <1>0 DEF Good, Calls
    <3> QED BY <3>1, <3>2, <3>3, <1>1, <1>0
  <2> QED BY <2>1 DEF Calls
<1>7. Destructors'
  <2>1. \A k \in DOMAIN flights : Waits(k)' <=> Waits(k)
    BY DEF Waits
  <2>2. ASSUME NEW k \in DOMAIN flights, Waits(k)
        PROVE  /\ flights[k].handler_addr \in 2 .. flights[k].at
               /\ flights[k].at + 2 <= top + 1
               /\ stack'[flights[k].at + 2].kind = "dtor"
    BY <2>2, Waiting, <1>0, <1>3 DEF top
  <2>3. ASSUME NEW i \in 1 .. top + 1, stack'[i].kind = "dtor"
        PROVE  \E k \in DOMAIN flights : Waits(k) /\ i = flights[k].at + 2
    <3>1. i # top + 1
      BY <1>1, <2>3 DEF Frame
    <3>2. i \in DOMAIN stack /\ stack[i].kind = "dtor"
      BY <3>1, <2>3, <1>0, <1>3
    <3> QED BY <3>2 DEF Good, Destructors
  <2> QED BY <2>1, <2>2, <2>3, <1>1, <1>3 DEF Destructors
<1>8. Nested'
  BY DEF Good, Nested
<1>9. Counted'
  <2>1. ASSUME NEW k \in DOMAIN flights
        PROVE  Cleanups(flights[k].handler_addr + 1, flights[k].at)' =
               Cleanups(flights[k].handler_addr + 1, flights[k].at)
    <3>1. /\ flights[k].at + 2 <= top /\ flights[k].at \in Nat
          /\ flights[k].handler_addr \in Nat
      BY <1>0 DEF Good, Destructors, Waits, ExceptionType, top
    <3>2. \A n \in flights[k].handler_addr + 1 .. flights[k].at : n \in 1 .. top - 1
      BY <3>1, <1>0
    <3>3. \A n \in flights[k].handler_addr + 1 .. flights[k].at : stack'[n] = stack[n]
      BY <3>2, <1>1
    <3> QED BY <3>3 DEF Cleanups
  <2> QED BY <2>1 DEF Good, Counted
<1>10. Context'
  BY <1>2 DEF Context, Frame
<1>11. Held'
  BY DEF Good, Held
<1> QED BY <1>4, <1>5, <1>6, <1>7, <1>8, <1>9, <1>10, <1>11 DEF Good, Searching, Unwinding

LEMMA CallMLKeeps == ASSUME Good, call_ml PROVE Good'
<1>1. PICK handled \in BOOLEAN :
        stack' = Append(Calling(LandingPad(Now.kind, handled, FALSE)), Frame("ml"))
  BY DEF call_ml
<1> DEFINE pad == LandingPad(Now.kind, handled, FALSE)
<1>2. mode = "run" /\ inML /\ Now.kind \in MLKind /\ Now.kind \in Kind
  <2>1. Now \in FrameType
    BY Basics
  <2> QED BY <2>1 DEF call_ml, Good, Context, FrameType
<1>3. pad \in Pad /\ (Now.kind = "top" => "CLEANUP" \in pad)
  BY <1>2, PadOfCall
<1> HIDE DEF pad
<1>4. CallOK([kind |-> Now.kind, pad |-> pad], Frame("ml"))
  BY <1>2, <1>3 DEF CallOK, Frame, MLKind
<1>5. inML' = ("ml" \in MLKind) /\ "ml" \in Kind
  BY <1>2 DEF call_ml, MLKind, Kind
<1> QED BY <1>1, <1>2, <1>3, <1>4, <1>5, PushKeeps DEF call_ml, pad

LEMMA CallCKeeps == ASSUME Good, call_c PROVE Good'
<1>1. PICK handled \in BOOLEAN :
        stack' = Append(Calling(LandingPad(Now.kind, handled, TRUE)), Frame("c"))
  BY DEF call_c
<1> DEFINE pad == LandingPad(Now.kind, handled, TRUE)
<1>2. mode = "run" /\ inML /\ Now.kind \in MLKind /\ Now.kind \in Kind
  <2>1. Now \in FrameType
    BY Basics
  <2> QED BY <2>1 DEF call_c, Good, Context, FrameType
<1>3. pad \in Pad /\ "CLEANUP" \in pad
  BY <1>2, PadOfCall
<1> HIDE DEF pad
<1>4. CallOK([kind |-> Now.kind, pad |-> pad], Frame("c"))
  BY <1>2, <1>3 DEF CallOK, Frame, MLKind
<1>5. inML' = ("c" \in MLKind) /\ "c" \in Kind
  <2>1. ("c" \in MLKind) = FALSE /\ "c" \in Kind
    BY DEF MLKind, Kind
  <2> QED BY <2>1 DEF call_c
<1> QED BY <1>1, <1>2, <1>3, <1>4, <1>5, PushKeeps DEF call_c, pad

LEMMA CallBackKeeps == ASSUME Good, call_back PROVE Good'
<1>1. PICK pad \in (IF Now.kind = "dtor" THEN {{"CATCH"}} ELSE {{}, {"CATCH"}, {"CLEANUP"}}) :
        stack' = Append(Calling(pad), Frame("top"))
  BY DEF call_back
<1>2. mode = "run" /\ Now.kind \notin MLKind /\ Now.kind \in Kind
  <2>1. Now \in FrameType
    BY Basics
  <2> QED BY <2>1 DEF call_back, Good, Context, FrameType
<1>3. pad \in Pad /\ (Now.kind = "dtor" => "CATCH" \in pad)
  BY <1>1 DEF Pad
<1>4. CallOK([kind |-> Now.kind, pad |-> pad], Frame("top"))
  BY <1>2, <1>3 DEF CallOK, Frame, MLKind, Kind
<1>5. inML' = ("top" \in MLKind) /\ "top" \in Kind
  BY DEF call_back, MLKind, Kind
<1> QED BY <1>1, <1>2, <1>3, <1>4, <1>5, PushKeeps DEF call_back

\* The destructor that ends is the one the current exception waits for.
LEMMA ReturnKeeps == ASSUME Good, return PROVE Good'
<1> DEFINE top == Len(stack)
<1>0. /\ top \in Nat /\ top >= 2 /\ DOMAIN stack = 1 .. top
      /\ DOMAIN flights = 1 .. Len(flights) /\ Len(flights) \in Nat
      /\ \A k \in DOMAIN flights : flights[k] \in ExceptionType
      /\ \A i \in 1 .. top : stack[i] \in FrameType
      /\ Now = stack[top] /\ Current = flights[Len(flights)]
  BY Basics
<1>1. mode = "run" /\ top > 2 /\ top - 1 \in 1 .. top
  BY <1>0 DEF return
<1>2. /\ stack' \in Seq(FrameType) /\ Len(stack') = top - 1
      /\ \A i \in 1 .. top - 1 : stack'[i] = stack[i]
  BY <1>1, LandedFrames DEF return, Front
<1> HIDE DEF top
<1>3. DOMAIN stack' = 1 .. top - 1
  BY <1>2, LenProperties
<1>4. Now' = stack[top - 1] /\ inML' = (stack[top - 1].kind \in MLKind)
  BY <1>0, <1>1, <1>2 DEF Now, Last, return, top
<1>5. UNCHANGED <<flights, exn_object, raised>>
  BY DEF return
<1>6. Now = stack[top] /\ top \in DOMAIN stack
  BY <1>0
<1>7. CASE Now.kind = "dtor"
  <2>1. mode' = "unwind"
    BY <1>7 DEF return
  <2>2. PICK k \in DOMAIN flights : top = flights[k].at + 2
    BY <1>6, <1>7 DEF Good, Destructors
  <2>3. k = Len(flights) /\ flights # <<>> /\ Current = flights[k]
    <3>1. \A j \in DOMAIN flights : flights[j].at + 2 <= top /\ flights[j].at \in Nat
      BY <1>1, <1>0 DEF Good, Destructors, Waits, ExceptionType
    <3>2. \A j \in DOMAIN flights : ~(k < j)
      BY <2>2, <3>1 DEF Good, Nested
    <3> QED BY <3>2, <1>0
  <2>4. flights[k].handler_addr \in 2 .. flights[k].at /\ flights[k].at = top - 2
    BY <1>1, <2>2, <1>0 DEF Good, Destructors, Waits, ExceptionType
  <2>5. CallOK(stack[top - 1], stack[top])
    <3>1. top - 1 \in 1 .. top - 1 /\ (top - 1) + 1 = top
      BY <1>1, <1>0
    <3> QED BY <3>1 DEF Good, Calls, top
  <2>6. stack[top - 1].kind = "c"
    BY <2>5, <1>6, <1>7, <1>1, <1>0 DEF CallOK, FrameType, Kind, MLKind
  <2>7. TypeOK'
    BY <1>1, <1>2, <1>4, <1>5, <2>1, <1>0 DEF Good, TypeOK
  <2>8. Numbers' /\ Nested'
    BY <1>5 DEF Good, Numbers, Nested
  <2>9. Calls'
    BY <1>1, <1>2, <1>4, <2>6, <1>0 DEF Good, Calls
  <2>10. Destructors'
    <3>1. \A j \in DOMAIN flights : Waits(j)' <=> Waits(j) /\ j # k
      BY <2>1, <2>3, <1>1, <1>5, <1>0 DEF Waits
    <3>2. \A j \in DOMAIN flights : j # k => flights[j].at + 2 <= flights[k].at
      BY <2>3, <1>0 DEF Good, Nested
    <3>3. \A j \in DOMAIN flights : flights[j].at \in Nat
      BY <1>0 DEF ExceptionType
    <3>4. ASSUME NEW j \in DOMAIN flights, Waits(j)'
          PROVE  /\ flights[j].handler_addr \in 2 .. flights[j].at
                 /\ flights[j].at + 2 <= top - 1
                 /\ stack'[flights[j].at + 2].kind = "dtor"
      <4>1. Waits(j) /\ flights[j].at + 2 <= flights[k].at
        BY <3>1, <3>2, <3>4
      <4>2. /\ flights[j].handler_addr \in 2 .. flights[j].at
            /\ stack[flights[j].at + 2].kind = "dtor"
        BY <4>1, Waiting
      <4>3. flights[j].at + 2 \in 1 .. top - 1
        BY <4>1, <3>3, <1>0, <1>1, <2>4
      <4> QED BY <4>2, <4>3, <1>2, <1>0
    <3>5. ASSUME NEW i \in 1 .. top - 1, stack'[i].kind = "dtor"
          PROVE  \E j \in DOMAIN flights : Waits(j)' /\ i = flights[j].at + 2
      <4>1. i \in DOMAIN stack /\ stack[i].kind = "dtor"
        BY <3>5, <1>2, <1>0
      <4>2. PICK j \in DOMAIN flights : Waits(j) /\ i = flights[j].at + 2
        BY <4>1 DEF Good, Destructors
      <4>3. j # k
        BY <4>2, <2>2, <1>1, <1>0
      <4> QED BY <4>2, <4>3, <3>1
    <3> QED BY <3>4, <3>5, <1>2, <1>3, <1>5 DEF Destructors
  <2>11. Unwinding'
    BY <1>2, <1>5, <2>3, <2>4, <1>0 DEF Unwinding, Current, Last
  <2>12. Counted'
    <3>1. ASSUME NEW j \in DOMAIN flights
          PROVE  Cleanups(flights[j].handler_addr + 1, flights[j].at)' =
                 Cleanups(flights[j].handler_addr + 1, flights[j].at)
      <4>1. flights[j].at + 2 <= top /\ flights[j].handler_addr \in Nat /\ flights[j].at \in Nat
        BY <1>1, <1>0 DEF Good, Destructors, Waits, ExceptionType
      <4>2. \A n \in flights[j].handler_addr + 1 .. flights[j].at : stack'[n] = stack[n]
        BY <4>1, <1>2, <1>0
      <4> QED BY <1>5, <4>2 DEF Cleanups
    <3> QED BY <3>1, <1>5 DEF Good, Counted
  <2>13. Context'
    <3>1. Current' = flights[k] /\ Current'.at = top - 2
      BY <1>5, <2>3, <2>4 DEF Current, Last
    <3>2. stack'[Current'.at + 1] = stack[top - 1]
      BY <3>1, <1>1, <1>2, <1>0
    <3> QED BY <3>1, <3>2, <2>1, <2>6, <1>2, <1>4, <1>0 DEF Context, MLKind
  <2>14. Held'
    BY <1>1, <1>5, <2>1 DEF Good, Held
  <2> QED BY <2>1, <2>7, <2>8, <2>9, <2>10, <2>11, <2>12, <2>13, <2>14 DEF Good, Searching
<1>8. CASE Now.kind # "dtor"
  <2>1. mode' = "run"
    BY <1>8 DEF return
  <2>2. \A k \in DOMAIN flights : /\ flights[k].at \in Nat /\ flights[k].at + 2 <= top - 1
                                  /\ flights[k].handler_addr \in Nat
    BY <1>1, <1>6, <1>8, <1>0 DEF Good, Destructors, Waits, ExceptionType
  <2>3. TypeOK'
    BY <1>1, <1>2, <1>4, <1>5, <2>1, <1>0 DEF Good, TypeOK
  <2>4. Numbers' /\ Nested' /\ Held'
    BY <1>1, <1>5, <2>1 DEF Good, Numbers, Nested, Held
  <2>5. Calls'
    BY <1>1, <1>2, <2>1, <1>0 DEF Good, Calls
  <2>6. Destructors'
    <3>1. \A k \in DOMAIN flights : Waits(k)' /\ Waits(k)
      BY <1>1, <1>5, <2>1 DEF Waits
    <3>2. ASSUME NEW k \in DOMAIN flights
          PROVE  /\ flights[k].handler_addr \in 2 .. flights[k].at
                 /\ flights[k].at + 2 <= top - 1
                 /\ stack'[flights[k].at + 2].kind = "dtor"
      <4>1. /\ flights[k].handler_addr \in 2 .. flights[k].at
            /\ stack[flights[k].at + 2].kind = "dtor"
        BY <3>1, Waiting
      <4>2. flights[k].at + 2 \in 1 .. top - 1
        BY <2>2, <1>0
      <4> QED BY <4>1, <4>2, <2>2, <1>2
    <3>3. ASSUME NEW i \in 1 .. top - 1, stack'[i].kind = "dtor"
          PROVE  \E k \in DOMAIN flights : i = flights[k].at + 2
      <4>1. i \in DOMAIN stack /\ stack[i].kind = "dtor"
        BY <3>3, <1>0, <1>2
      <4> QED BY <4>1 DEF Good, Destructors
    <3> QED BY <3>1, <3>2, <3>3, <1>2, <1>3, <1>5 DEF Destructors
  <2>7. Counted'
    <3>1. ASSUME NEW j \in DOMAIN flights
          PROVE  Cleanups(flights[j].handler_addr + 1, flights[j].at)' =
                 Cleanups(flights[j].handler_addr + 1, flights[j].at)
      <4>1. \A n \in flights[j].handler_addr + 1 .. flights[j].at : stack'[n] = stack[n]
        BY <2>2, <1>2, <1>0
      <4> QED BY <1>5, <4>1 DEF Cleanups
    <3> QED BY <3>1, <1>5 DEF Good, Counted
  <2>8. Context'
    BY <1>4, <2>1 DEF Context
  <2> QED BY <2>1, <2>3, <2>4, <2>5, <2>6, <2>7, <2>8 DEF Good, Searching, Unwinding
<1> QED BY <1>7, <1>8
\* An exception is raised.
LEMMA RaiseKeeps ==
    ASSUME Good, mode = "run", NEW class \in {"ML", "CXX"}, NEW pad \in Pad,
           Raise(class, pad), Now.kind # "dtor",
           Now.kind = "top" => "CLEANUP" \in pad,
           class = "ML" => inML
    PROVE  Good'
<1> DEFINE top == Len(stack)
           new == Len(flights) + 1
           e == Exception(class)
<1>0. /\ top \in Nat /\ top >= 2 /\ DOMAIN stack = 1 .. top
      /\ DOMAIN flights = 1 .. Len(flights) /\ Len(flights) \in Nat
      /\ \A k \in DOMAIN flights : flights[k] \in ExceptionType
      /\ Now = stack[top]
  BY Basics
<1>1. /\ stack' \in Seq(FrameType) /\ Len(stack') = top
      /\ \A i \in 1 .. top - 1 : stack'[i] = stack[i]
      /\ stack'[top] = [kind |-> Now.kind, pad |-> pad]
  BY CallingFrames DEF Raise
<1>2. /\ e \in ExceptionType /\ e.id = raised + 1 /\ e.class = class
      /\ e.handler_addr = 0 /\ e.num_cleanup = 0 /\ e.at = top
  BY <1>0 DEF Exception, ExceptionType, Good, TypeOK
<1>3. /\ flights' \in Seq(ExceptionType) /\ Len(flights') = new /\ flights' # <<>>
      /\ \A k \in 1 .. Len(flights) : flights'[k] = flights[k]
      /\ flights'[new] = e
  <2>1. flights' = Append(flights, e) /\ flights \in Seq(ExceptionType)
    BY DEF Raise, Good, TypeOK
  <2> HIDE DEF e
  <2> QED BY <2>1, <1>2, AppendProperties
<1>4. /\ mode' = "search" /\ raised' = raised + 1
      /\ UNCHANGED <<exn_object, inML>>
  BY DEF Raise
<1> HIDE DEF top, new, e
<1>5. /\ DOMAIN stack' = 1 .. top
      /\ \A i \in 1 .. top : stack'[i].kind = stack[i].kind
      /\ Now' = stack'[top]
  <2>1. DOMAIN stack' = 1 .. Len(stack')
    BY <1>1, LenProperties
  <2> QED BY <1>0, <1>1, <2>1 DEF Now, Last
<1>6. DOMAIN flights' = 1 .. new /\ new \in Nat /\ Current' = e
  <2>1. DOMAIN flights' = 1 .. Len(flights')
    BY <1>3, LenProperties
  <2> QED BY <1>0, <1>3, <2>1 DEF Current, Last, new
<1>7. \A k \in 1 .. new : k # new => k \in DOMAIN flights /\ flights'[k] = flights[k]
  BY <1>0, <1>3 DEF new
<1>8. \A k \in DOMAIN flights : /\ Waits(k) /\ Waits(k)' /\ k # new /\ k \in 1 .. new
                                /\ flights'[k] = flights[k]
  BY <1>0, <1>3, <1>4, <1>6 DEF Waits, new
<1>9. \A k \in 1 .. new : k = new => ~Waits(k)'
  BY <1>3, <1>4, <1>6 DEF Waits
<1>10. TypeOK'
  BY <1>0, <1>1, <1>3, <1>4 DEF Good, TypeOK
<1>11. Numbers'
  <2>1. \A k \in DOMAIN flights : flights[k].id <= raised /\ flights[k].id \in Nat /\ raised \in Nat
    BY <1>0 DEF Good, Numbers, TypeOK, ExceptionType
  <2> QED BY <2>1, <1>2, <1>3, <1>4, <1>6, <1>7 DEF Good, Numbers
<1>12. Calls'
  <2>1. ASSUME NEW i \in 1 .. top - 1 PROVE CallOK(stack'[i], stack'[i + 1])
    <3>1. CallOK(stack[i], stack[i + 1])
      BY DEF Good, Calls, top
    <3>2. stack'[i] = stack[i] /\ stack'[i + 1].kind = stack[i + 1].kind
      BY <1>0, <1>1, <1>5
    <3> QED BY <3>1, <3>2 DEF CallOK
  <2> QED BY <2>1, <1>1, <1>5 DEF Calls
<1>13. Destructors'
  <2>1. ASSUME NEW k \in 1 .. new, Waits(k)'
        PROVE  /\ flights'[k].handler_addr \in 2 .. flights'[k].at
               /\ flights'[k].at + 2 <= top
               /\ stack'[flights'[k].at + 2].kind = "dtor"
    <3>1. k \in DOMAIN flights /\ Waits(k) /\ flights'[k] = flights[k]
      BY <2>1, <1>7, <1>8, <1>9
    <3>2. /\ flights[k].at \in Nat /\ flights[k].handler_addr \in 2 .. flights[k].at
          /\ flights[k].at + 2 <= top
          /\ stack[flights[k].at + 2].kind = "dtor"
      BY <3>1, Waiting DEF top
    <3>3. flights[k].at + 2 \in 1 .. top
      BY <3>2, <1>0
    <3> QED BY <3>1, <3>2, <3>3, <1>5
  <2>2. ASSUME NEW i \in 1 .. top, stack'[i].kind = "dtor"
        PROVE  \E k \in 1 .. new : Waits(k)' /\ i = flights'[k].at + 2
    <3>1. PICK k \in DOMAIN flights : i = flights[k].at + 2
      BY <2>2, <1>0, <1>5 DEF Good, Destructors
    <3> QED BY <3>1, <1>8
  <2> QED BY <2>1, <2>2, <1>1, <1>5, <1>6 DEF Destructors
<1>14. Nested'
  <2>1. \A k \in DOMAIN flights : flights[k].at + 2 <= top
    BY <1>8, Waiting DEF top
  <2>2. ASSUME NEW j \in 1 .. new, NEW k \in 1 .. new, j < k
        PROVE  /\ flights'[j].at + 2 <= flights'[k].at
               /\ flights'[k].handler_addr = 0
                    \/ flights'[j].at + 2 <= flights'[k].handler_addr
    <3>1. j # new
      BY <2>2, <1>6
    <3>2. CASE k = new
      BY <3>1, <3>2, <2>1, <1>2, <1>3, <1>7
    <3>3. CASE k # new
      BY <3>1, <3>3, <2>2, <1>7 DEF Good, Nested
    <3> QED BY <3>2, <3>3
  <2> QED BY <2>2, <1>6 DEF Nested
<1>15. Searching'
  <2>1. Current'.at = top /\ Len(stack') = top
    BY <1>1, <1>2, <1>6
  <2>2. Current'.at + 1 .. Len(stack') = {}
    BY <2>1, <1>0
  <2>3. Cardinality({}) = 0
    BY FS_EmptySet
  <2>4. Cleanups(Current.at + 1, Len(stack))' = {}
    BY <2>2 DEF Cleanups
  <2>5. Current'.num_cleanup = Cardinality(Cleanups(Current.at + 1, Len(stack))')
    BY <2>3, <2>4, <1>2, <1>6
  <2>6. Current'.handler_addr = 0 /\ Current'.at <= Len(stack')
    BY <2>1, <1>0, <1>2, <1>6
  <2> QED BY <2>5, <2>6, <1>3 DEF Searching
<1>16. Counted'
  <2>1. ASSUME NEW k \in 1 .. new, flights'[k].class = "ML", flights'[k].handler_addr # 0
        PROVE  flights'[k].num_cleanup =
                 Cardinality(Cleanups(flights[k].handler_addr + 1, flights[k].at)')
    <3>1. k \in DOMAIN flights /\ flights'[k] = flights[k] /\ Waits(k)
      BY <2>1, <1>2, <1>3, <1>7, <1>8
    <3>2. flights[k].at + 2 <= top /\ flights[k].handler_addr \in Nat /\ flights[k].at \in Nat
      BY <3>1, Waiting DEF top
    <3>3. \A n \in flights[k].handler_addr + 1 .. flights[k].at : stack'[n] = stack[n]
      BY <3>2, <1>0, <1>1
    <3>4. Cleanups(flights[k].handler_addr + 1, flights[k].at)' =
          Cleanups(flights[k].handler_addr + 1, flights[k].at)
      BY <3>1, <3>3 DEF Cleanups
    <3> QED BY <2>1, <3>1, <3>4 DEF Good, Counted
  <2>2. ASSUME NEW k \in 1 .. new, flights'[k].handler_addr # 0
        PROVE  flights'[k] = flights[k]
    BY <2>2, <1>2, <1>3, <1>7
  <2> QED BY <2>1, <2>2, <1>6 DEF Counted, Cleanups
<1>17. Context'
  BY <1>0, <1>4, <1>5 DEF Good, Context
<1>18. Held'
  <2>1. \A k \in DOMAIN flights : flights[k].class = "ML" => exn_object = flights[k].id
    BY DEF Good, Held
  <2> QED BY <2>1, <1>2, <1>3, <1>4, <1>6, <1>7 DEF Held
<1>19. Unwinding'
  BY <1>4 DEF Unwinding
<1> QED BY <1>10, <1>11, <1>12, <1>13, <1>14, <1>15, <1>16, <1>17, <1>18, <1>19 DEF Good

LEMMA SmlRaiseKeeps == ASSUME Good, sml_raise PROVE Good'
<1>1. PICK handled \in BOOLEAN : Raise("ML", LandingPad(Now.kind, handled, FALSE))
  BY DEF sml_raise
<1> DEFINE pad == LandingPad(Now.kind, handled, FALSE)
<1>2. mode = "run" /\ inML /\ Now.kind \in MLKind /\ Now.kind \in Kind
  <2>1. Now \in FrameType
    BY Basics
  <2> QED BY <2>1 DEF sml_raise, Good, Context, FrameType
<1>3. pad \in Pad /\ (Now.kind = "top" => "CLEANUP" \in pad) /\ Now.kind # "dtor"
  BY <1>2, PadOfCall DEF MLKind
<1> HIDE DEF pad
<1> QED BY <1>1, <1>2, <1>3, RaiseKeeps DEF pad

LEMMA CxxThrowKeeps == ASSUME Good, cxx_throw PROVE Good'
<1>1. mode = "run" /\ Now.kind = "c" /\ Raise("CXX", {}) /\ {} \in Pad
  BY DEF cxx_throw, Pad
<1> QED BY <1>1, RaiseKeeps
-----------------------------------------------------------------------------
(***************************************************************************)
(* The two phases of the unwinder                                          *)
(***************************************************************************)

\* The current exception while the unwinder works on it: the others wait below.
LEMMA InFlight ==
    ASSUME Good, mode # "run"
    PROVE  /\ flights # <<>> /\ Len(flights) \in Nat /\ Len(flights) >= 1
           /\ DOMAIN flights = 1 .. Len(flights)
           /\ Current = flights[Len(flights)] /\ Current \in ExceptionType
           /\ Current.at \in 1 .. Len(stack)
           /\ \A k \in DOMAIN flights : flights[k] \in ExceptionType
           /\ \A k \in DOMAIN flights : Waits(k) <=> k < Len(flights)
           /\ \A k \in DOMAIN flights : k < Len(flights) => flights[k].at + 2 <= Current.at
<1>1. mode \in {"search", "unwind"}
  BY DEF Good, TypeOK
<1>2. flights # <<>> /\ Current.at <= Len(stack)
  BY <1>1 DEF Good, Searching, Unwinding
<1>3. /\ Len(flights) \in Nat /\ Len(flights) >= 1 /\ Len(stack) \in Nat
      /\ DOMAIN flights = 1 .. Len(flights) /\ Current = flights[Len(flights)]
      /\ \A k \in DOMAIN flights : flights[k] \in ExceptionType
  BY <1>2, Basics
<1>4. Current \in ExceptionType
  BY <1>3
<1>5. Current.at \in 1 .. Len(stack)
  BY <1>2, <1>3, <1>4 DEF ExceptionType
<1>6. \A k \in DOMAIN flights : Waits(k) <=> k < Len(flights)
  BY DEF Waits
<1>7. \A k \in DOMAIN flights : k < Len(flights) => flights[k].at + 2 <= Current.at
  BY <1>3 DEF Good, Nested
<1> QED BY <1>2, <1>3, <1>4, <1>5, <1>6, <1>7

\* A destructor that the unwinder comes to has been called with a pad that
\* catches everything.
LEMMA DtorCatches ==
    ASSUME Good, mode # "run", NEW i \in 1 .. Len(stack), stack[i].kind = "dtor"
    PROVE  "CATCH" \in stack[i].pad
<1>1. i # Len(stack) /\ Len(stack) \in Nat
  BY Basics DEF Good, Calls
<1>2. i \in 1 .. Len(stack) - 1
  BY <1>1
<1> QED BY <1>2 DEF Good, Calls, CallOK

\* The current exception is changed, but not its number, and the stack stays.
LEMMA UpdateKeeps ==
    ASSUME Good, mode # "run", mode' # "run", NEW e \in ExceptionType, Update(e),
           e.id = Current.id, e.class = Current.class,
           mode' \in {"search", "unwind"},
           \A k \in DOMAIN flights : k < Len(flights) =>
               /\ flights[k].at + 2 <= e.at
               /\ e.handler_addr = 0 \/ flights[k].at + 2 <= e.handler_addr,
           UNCHANGED <<stack, exn_object, inML, raised>>
    PROVE  TypeOK' /\ Numbers' /\ Calls' /\ Destructors' /\ Nested' /\ Held'
<1> DEFINE last == Len(flights)
<1>0. /\ last \in Nat /\ last >= 1 /\ DOMAIN flights = 1 .. last /\ flights # <<>>
      /\ Current = flights[last] /\ Current.id \in Nat
      /\ \A k \in DOMAIN flights : Waits(k) <=> k < last
  BY InFlight DEF ExceptionType
<1>1. /\ flights' \in Seq(ExceptionType) /\ Len(flights') = last
      /\ \A k \in 1 .. last - 1 : flights'[k] = flights[k]
      /\ flights'[last] = e
  BY <1>0, UpdatedFlights
<1> HIDE DEF last
<1>2. DOMAIN flights' = 1 .. last
  BY <1>1, LenProperties
<1>3. \A k \in 1 .. last : /\ flights'[k].id = flights[k].id
                           /\ flights'[k].class = flights[k].class
                           /\ k < last => flights'[k] = flights[k]
  BY <1>0, <1>1
<1>4. TypeOK'
  BY <1>1 DEF Good, TypeOK
<1>5. Numbers'
  BY <1>0, <1>2, <1>3 DEF Good, Numbers
<1>6. Calls'
  BY DEF Good, Calls, Now
<1>7. Nested'
  <2>1. ASSUME NEW j \in 1 .. last, NEW k \in 1 .. last, j < k
        PROVE  /\ flights'[j].at + 2 <= flights'[k].at
               /\ flights'[k].handler_addr = 0
                    \/ flights'[j].at + 2 <= flights'[k].handler_addr
    <3>1. j < last /\ flights'[j] = flights[j]
      BY <2>1, <1>0, <1>3
    <3>2. CASE k = last
      BY <3>1, <3>2, <1>0, <1>1 DEF last
    <3>3. CASE k < last
      BY <3>1, <3>3, <2>1, <1>0, <1>3 DEF Good, Nested
    <3> QED BY <3>2, <3>3, <1>0
  <2> QED BY <2>1, <1>2 DEF Nested
<1>8. Destructors'
  <2>1. \A k \in 1 .. last : Waits(k)' <=> k < last
    BY <1>1, <1>2 DEF Waits
  <2>2. ASSUME NEW k \in 1 .. last, k < last
        PROVE  /\ flights'[k].handler_addr \in 2 .. flights'[k].at
               /\ flights'[k].at + 2 <= Len(stack)
               /\ stack[flights'[k].at + 2].kind = "dtor"
    BY <2>2, <1>0, <1>3, Waiting
  <2>3. ASSUME NEW i \in DOMAIN stack, stack[i].kind = "dtor"
        PROVE  \E k \in 1 .. last : k < last /\ i = flights'[k].at + 2
    BY <2>3, <1>0, <1>3 DEF Good, Destructors
  <2> QED BY <2>1, <2>2, <2>3, <1>2 DEF Destructors
<1>9. Held'
  BY <1>0, <1>1, <1>2, <1>3 DEF Good, Held, last
<1> QED BY <1>4, <1>5, <1>6, <1>7, <1>8, <1>9

\* The pads that are left of an exception that waits do not change.
LEMMA CountedBelow ==
    ASSUME Good, NEW k \in DOMAIN flights, flights[k].class = "ML",
           flights[k].handler_addr # 0,
           \A n \in 1 .. flights[k].at : stack'[n] = stack[n],
           flights'[k] = flights[k]
    PROVE  flights'[k].num_cleanup =
             Cardinality(Cleanups(flights[k].handler_addr + 1, flights[k].at)')
<1>1. flights[k].handler_addr \in Nat /\ flights[k].at \in Nat
  BY Basics DEF ExceptionType
<1>2. \A n \in flights[k].handler_addr + 1 .. flights[k].at : stack'[n] = stack[n]
  BY <1>1
<1>3. Cleanups(flights[k].handler_addr + 1, flights[k].at)' =
      Cleanups(flights[k].handler_addr + 1, flights[k].at)
  BY <1>2 DEF Cleanups
<1> QED BY <1>3 DEF Good, Counted

\* One frame more.
LEMMA OneMore ==
    ASSUME NEW i \in Nat, NEW j \in Nat, i <= j
    PROVE  /\ Cardinality(Cleanups(i, j)) =
                IF stack[i].kind \in MLKind /\ "CLEANUP" \in stack[i].pad
                THEN Cardinality(Cleanups(i + 1, j)) + 1
                ELSE Cardinality(Cleanups(i + 1, j))
           /\ Cardinality(Cleanups(i, j)) =
                IF stack[j].kind \in MLKind /\ "CLEANUP" \in stack[j].pad
                THEN Cardinality({n \in Cleanups(i, j) : n # j}) + 1
                ELSE Cardinality({n \in Cleanups(i, j) : n # j})
<1> DEFINE low == Cleanups(i + 1, j)
           high == {n \in Cleanups(i, j) : n # j}
<1>1. IsFiniteSet(low) /\ IsFiniteSet(high)
  <2>1. IsFiniteSet(Cleanups(i, j)) /\ IsFiniteSet(low)
    BY FiniteCleanups
  <2> QED BY <2>1, FS_Subset, high \in SUBSET Cleanups(i, j)
<1>2. i \notin low /\ j \notin high
  BY DEF Cleanups
<1>3. Cleanups(i, j) = IF stack[i].kind \in MLKind /\ "CLEANUP" \in stack[i].pad
                       THEN low \cup {i} ELSE low
  BY DEF Cleanups
<1>4. Cleanups(i, j) = IF stack[j].kind \in MLKind /\ "CLEANUP" \in stack[j].pad
                       THEN high \cup {j} ELSE high
  BY DEF Cleanups
<1> HIDE DEF low, high
<1>5. Cardinality(low \cup {i}) = Cardinality(low) + 1
  BY <1>1, <1>2, FS_AddElement
<1>6. Cardinality(high \cup {j}) = Cardinality(high) + 1
  BY <1>1, <1>2, FS_AddElement
<1> QED BY <1>3, <1>4, <1>5, <1>6 DEF low, high
\* The personality of a frame is asked for a handler.
LEMMA SearchKeeps == ASSUME Good, search PROVE IInv'
<1> DEFINE e == Current
           f == stack[e.at]
           ours == f.kind \in MLKind /\ e.class = "ML"
           num == IF ours THEN CleanupCount(f.pad, e) ELSE e.num_cleanup
           top == Len(stack)
<1>0. /\ mode = "search" /\ top \in Nat /\ e \in ExceptionType /\ e.at \in 1 .. top
      /\ e.num_cleanup \in Nat /\ e.handler_addr = 0 /\ f \in FrameType
      /\ \A k \in DOMAIN flights : k < Len(flights) => flights[k].at + 2 <= e.at
  BY InFlight, Basics DEF search, Good, Searching, ExceptionType
<1>1. num \in Nat
  BY <1>0 DEF CleanupCount
<1> HIDE DEF num
<1>2. UNCHANGED <<stack, exn_object, inML, raised>>
  BY DEF search
<1>3. /\ Len(flights) \in Nat /\ Len(flights) >= 1 /\ DOMAIN flights = 1 .. Len(flights)
      /\ flights # <<>> /\ \A k \in DOMAIN flights : flights[k] \in ExceptionType
  BY <1>0, InFlight
<1>4. e.class = "ML" => e.num_cleanup = Cardinality(Cleanups(e.at + 1, top))
  BY <1>0 DEF Good, Searching
<1>5. CASE "CATCH" \in f.pad
  <2> DEFINE n == [e EXCEPT !.handler_addr = e.at, !.at = top, !.num_cleanup = num]
  <2>1. mode' = "unwind" /\ Update(n)
    BY <1>5 DEF search, num
  <2>2. /\ n \in ExceptionType /\ n.id = e.id /\ n.class = e.class
        /\ n.handler_addr = e.at /\ n.at = top /\ n.num_cleanup = num
    <3>1. e.at \in Nat /\ top \in Nat \ {0}
      BY <1>0
    <3>2. n = [e EXCEPT !.handler_addr = e.at, !.at = top, !.num_cleanup = num]
      OBVIOUS
    <3>3. e \in ExceptionType
      BY <1>0
    <3> HIDE DEF n, e, top
    <3> QED BY <3>1, <3>2, <3>3, <1>1 DEF ExceptionType
  <2> HIDE DEF n
  <2>3. /\ Len(flights') = Len(flights)
        /\ \A k \in 1 .. Len(flights) - 1 : flights'[k] = flights[k]
        /\ flights'[Len(flights)] = n
        /\ DOMAIN flights' = 1 .. Len(flights)
        /\ flights' # <<>>
    <3>1. /\ flights' \in Seq(ExceptionType) /\ Len(flights') = Len(flights)
          /\ \A k \in 1 .. Len(flights) - 1 : flights'[k] = flights[k]
          /\ flights'[Len(flights)] = n
      BY <2>1, <2>2, <1>3, UpdatedFlights
    <3>2. DOMAIN flights' = 1 .. Len(flights)
      BY <3>1, LenProperties
    <3>3. flights' # <<>>
      BY <3>1, <1>3
    <3> QED BY <3>1, <3>2, <3>3
  <2>4. Current' = n
    BY <2>3 DEF Current, Last
  <2>5. e.at # 1
    <3>1. stack[1].pad = {}
      BY DEF Good, TypeOK, Frame
    <3> QED BY <3>1, <1>5
  <2>6. TypeOK' /\ Numbers' /\ Calls' /\ Destructors' /\ Nested' /\ Held'
    <3>1. \A k \in DOMAIN flights : k < Len(flights) =>
             flights[k].at + 2 <= n.at /\ flights[k].at + 2 <= n.handler_addr
      BY <1>0, <1>3, <2>2 DEF ExceptionType
    <3> QED BY <3>1, <1>0, <1>2, <2>1, <2>2, UpdateKeeps
  <2>7. Unwinding'
    BY <2>2, <2>3, <2>4, <2>5, <1>0, <1>2 DEF Unwinding
  <2>8. num = e.num_cleanup
    BY <1>5 DEF CleanupCount, num
  <2>9. Counted'
    <3>1. ASSUME NEW k \in 1 .. Len(flights), k < Len(flights),
                 flights'[k].class = "ML", flights'[k].handler_addr # 0
          PROVE  flights'[k].num_cleanup =
                   Cardinality(Cleanups(flights[k].handler_addr + 1, flights[k].at)')
      BY <3>1, <2>3, <1>2, <1>3, CountedBelow
    <3>2. n.class = "ML" => n.num_cleanup = Cardinality(Cleanups(n.handler_addr + 1, n.at))
      BY <1>4, <2>2, <2>8
    <3>3. n.class = "ML" => flights'[Len(flights)].num_cleanup =
            Cardinality({i \in n.handler_addr + 1 .. n.at :
                           stack'[i].kind \in MLKind /\ "CLEANUP" \in stack'[i].pad})
      BY <3>2, <2>3, <1>2 DEF Cleanups
    <3>4. \A k \in DOMAIN flights' :
            k = Len(flights) \/ (k < Len(flights) /\ flights'[k] = flights[k])
      BY <2>3, <1>3
    <3>5. ASSUME NEW k \in DOMAIN flights', flights'[k].class = "ML", flights'[k].handler_addr # 0
          PROVE  flights'[k].num_cleanup =
                   Cardinality({i \in flights'[k].handler_addr + 1 .. flights'[k].at :
                           stack'[i].kind \in MLKind /\ "CLEANUP" \in stack'[i].pad})
      <4>1. CASE k = Len(flights)
        BY <4>1, <3>3, <3>5, <2>3
      <4>2. CASE k < Len(flights)
        BY <4>2, <3>1, <3>4, <3>5, <2>3, <1>3 DEF Cleanups
      <4> QED BY <4>1, <4>2, <3>4
    <3> QED BY <3>5 DEF Counted, Cleanups
  <2>10. Context'
    BY <1>0, <1>2, <2>1, <2>2, <2>4 DEF Good, Context, Now
  <2> QED BY <2>1, <2>6, <2>7, <2>9, <2>10 DEF IInv, Good, Searching
<1>6. CASE "CATCH" \notin f.pad /\ e.at = 1
  BY <1>6 DEF search, IInv
<1>7. CASE "CATCH" \notin f.pad /\ e.at # 1
  <2> DEFINE n == [e EXCEPT !.at = e.at - 1, !.num_cleanup = num]
  <2>1. mode' = "search" /\ Update(n)
    BY <1>7 DEF search, num
  <2>2. /\ n \in ExceptionType /\ n.id = e.id /\ n.class = e.class
        /\ n.handler_addr = 0 /\ n.at = e.at - 1 /\ n.num_cleanup = num
    <3>1. e.at - 1 \in Nat \ {0} /\ e.handler_addr \in Nat
      BY <1>0, <1>7
    <3>2. n = [e EXCEPT !.at = e.at - 1, !.num_cleanup = num] /\ e.handler_addr = 0
      BY <1>0
    <3>3. e \in ExceptionType
      BY <1>0
    <3> HIDE DEF n, e
    <3> QED BY <3>1, <3>2, <3>3, <1>1 DEF ExceptionType
  <2> HIDE DEF n
  <2>3. /\ Len(flights') = Len(flights)
        /\ \A k \in 1 .. Len(flights) - 1 : flights'[k] = flights[k]
        /\ flights'[Len(flights)] = n
        /\ DOMAIN flights' = 1 .. Len(flights)
        /\ flights' # <<>>
    <3>1. /\ flights' \in Seq(ExceptionType) /\ Len(flights') = Len(flights)
          /\ \A k \in 1 .. Len(flights) - 1 : flights'[k] = flights[k]
          /\ flights'[Len(flights)] = n
      BY <2>1, <2>2, <1>3, UpdatedFlights
    <3>2. DOMAIN flights' = 1 .. Len(flights)
      BY <3>1, LenProperties
    <3>3. flights' # <<>>
      BY <3>1, <1>3
    <3> QED BY <3>1, <3>2, <3>3
  <2>4. Current' = n
    BY <2>3 DEF Current, Last
  <2>5. TypeOK' /\ Numbers' /\ Calls' /\ Destructors' /\ Nested' /\ Held'
    <3>1. ASSUME NEW k \in DOMAIN flights, k < Len(flights)
          PROVE  flights[k].at + 2 <= n.at
      <4>1. flights[k].at \in Nat /\ stack[flights[k].at + 2].kind = "dtor"
        BY <3>1, <1>0, InFlight, Waiting
      <4>2. f.kind # "dtor"
        BY <1>0, <1>7, DtorCatches
      <4>3. flights[k].at + 2 # e.at
        BY <4>1, <4>2
      <4> QED BY <4>1, <4>3, <3>1, <1>0, <2>2
    <3> QED BY <3>1, <1>0, <1>2, <2>1, <2>2, UpdateKeeps
  <2>6. Counted'
    <3>1. ASSUME NEW k \in 1 .. Len(flights), k < Len(flights),
                 flights'[k].class = "ML", flights'[k].handler_addr # 0
          PROVE  flights'[k].num_cleanup =
                   Cardinality(Cleanups(flights[k].handler_addr + 1, flights[k].at)')
      BY <3>1, <2>3, <1>2, <1>3, CountedBelow
    <3> QED BY <3>1, <2>2, <2>3, <1>3 DEF Counted, Cleanups
  <2>7. Searching'
    <3>1. e.class = "ML" => num = Cardinality(Cleanups(e.at, top))
      <4>1. e.class = "ML" => num = IF f.kind \in MLKind /\ "CLEANUP" \in f.pad
                                    THEN e.num_cleanup + 1 ELSE e.num_cleanup
        BY <1>7 DEF CleanupCount, num
      <4>2. e.at \in Nat /\ top \in Nat /\ e.at <= top
        BY <1>0
      <4>3. Cardinality(Cleanups(e.at, top)) =
              IF f.kind \in MLKind /\ "CLEANUP" \in f.pad
              THEN Cardinality(Cleanups(e.at + 1, top)) + 1
              ELSE Cardinality(Cleanups(e.at + 1, top))
        BY <4>2, OneMore
      <4> QED BY <4>1, <4>3, <1>4
    <3>2. n.class = "ML" => n.num_cleanup = Cardinality(Cleanups(n.at + 1, top))
      <4>1. n.at + 1 = e.at
        BY <2>2, <1>0
      <4> QED BY <3>1, <4>1, <2>2
    <3>3. Cleanups(Current.at + 1, Len(stack))' = Cleanups(n.at + 1, top)
      BY <2>4, <1>2 DEF Cleanups
    <3> QED BY <3>2, <3>3, <2>2, <2>3, <2>4, <1>0, <1>2 DEF Searching
  <2>8. Context'
    BY <1>0, <1>2, <2>1 DEF Good, Context, Now
  <2> QED BY <2>1, <2>5, <2>6, <2>7, <2>8 DEF IInv, Good, Unwinding
<1> QED BY <1>5, <1>6, <1>7
\* The second phase: where the current exception is, and which context it
\* has left.
LEMMA InPhaseTwo ==
    ASSUME Good, mode = "unwind"
    PROVE  /\ Current.handler_addr \in 2 .. Current.at /\ Current.at \in 2 .. Len(stack)
           /\ stack[Current.at] \in FrameType
           /\ \A k \in DOMAIN flights : k < Len(flights) =>
                 flights[k].at + 2 <= Current.handler_addr
           /\ stack[Current.at].kind = "dtor" => Current.at = Current.handler_addr
           /\ stack[Current.at].kind \notin MLKind => ~inML
           /\ Foreign(Current.at) => ~inML
           /\ stack[Current.at].kind \in MLKind => inML \/ Foreign(Current.at)
           /\ stack[Current.at].kind = "top" => "CLEANUP" \in stack[Current.at].pad
           /\ "CLEANUP" \notin stack[Current.at].pad => ~Foreign(Current.at)
                                                        \/ stack[Current.at].kind \notin MLKind
<1> DEFINE e == Current
           top == Len(stack)
<1>1. /\ e.handler_addr \in 2 .. e.at /\ e.at \in 2 .. top
      /\ stack[e.at] \in FrameType /\ top \in Nat /\ Now = stack[top]
      /\ \A i \in 1 .. top : stack[i] \in FrameType
  <2>1. e.at \in 1 .. top /\ top \in Nat /\ Now = stack[top]
        /\ \A i \in 1 .. top : stack[i] \in FrameType
    BY InFlight, Basics
  <2>2. e.handler_addr \in 2 .. e.at
    BY DEF Good, Unwinding
  <2> QED BY <2>1, <2>2
<1>2. \A k \in DOMAIN flights : k < Len(flights) => flights[k].at + 2 <= e.handler_addr
  BY <1>1, InFlight DEF Good, Nested
<1>3. stack[e.at].kind = "dtor" => e.at = e.handler_addr
  <2> SUFFICES ASSUME stack[e.at].kind = "dtor" PROVE e.at = e.handler_addr
    OBVIOUS
  <2>1. PICK k \in DOMAIN flights : Waits(k) /\ e.at = flights[k].at + 2
    BY <1>1, Basics DEF Good, Destructors
  <2>2. e.at <= e.handler_addr
    BY <1>2, <2>1, InFlight
  <2> QED BY <1>1, <2>2
<1>4. CASE e.at = top
  <2>1. ~Foreign(e.at)
    BY <1>4, <1>1 DEF Foreign
  <2>2. inML <=> stack[e.at].kind \in MLKind
    BY <1>1, <1>4 DEF Good, Context
  <2>3. stack[e.at].kind = "top" => "CLEANUP" \in stack[e.at].pad
    BY <1>1, <1>4 DEF Good, Calls
  <2> QED BY <1>1, <1>2, <1>3, <2>1, <2>2, <2>3
<1>5. CASE e.at # top
  <2>1. e.at < top /\ e.at \in 1 .. top - 1
    BY <1>1, <1>5
  <2>2. CallOK(stack[e.at], stack[e.at + 1])
    BY <2>1 DEF Good, Calls
  <2>3. inML <=> stack[e.at + 1].kind = "ml"
    BY <1>5 DEF Good, Context
  <2>4. Foreign(e.at) <=> stack[e.at + 1].kind = "c"
    BY <2>1 DEF Foreign
  <2>5. stack[e.at].kind \in Kind
    BY <1>1 DEF FrameType
  <2> QED BY <1>1, <1>2, <1>3, <2>2, <2>3, <2>4, <2>5 DEF CallOK, MLKind, Kind
<1> QED BY <1>4, <1>5

\* An ML exception that is back in a frame of C is the only one whose object
\* is held.
LEMMA ForeignHolds ==
    ASSUME Good, mode = "unwind", Current.class = "ML", ~inML
    PROVE  /\ exn_object = Current.id
           /\ \A k \in DOMAIN flights : k < Len(flights) => flights[k].class # "ML"
<1>1. exn_object = Current.id
  BY InFlight DEF Good, Held
<1>2. \A k \in DOMAIN flights : k < Len(flights) /\ flights[k].class = "ML" =>
        exn_object = flights[k].id
  BY DEF Good, Held
<1> QED BY <1>1, <1>2, InFlight DEF Good, Numbers

\* Whatever sml_unsave_exn does, it forgets no exception that waits.
LEMMA UnsaveKeeps ==
    ASSUME Good, mode = "unwind"
    PROVE  /\ sml_unsave_exn(Foreign(Current.at), Current) \in Nat
           /\ \A k \in DOMAIN flights : k < Len(flights) /\ flights[k].class = "ML" =>
                 sml_unsave_exn(Foreign(Current.at), Current) = flights[k].id
<1>1. exn_object \in Nat
  BY DEF Good, TypeOK
<1>2. \A k \in DOMAIN flights : k < Len(flights) /\ flights[k].class = "ML" =>
        exn_object = flights[k].id
  BY DEF Good, Held
<1>3. CASE Foreign(Current.at) /\ Current.class = "ML"
  BY <1>3, InPhaseTwo, ForeignHolds DEF sml_unsave_exn
<1>4. CASE ~(Foreign(Current.at) /\ Current.class = "ML")
  BY <1>4, <1>1, <1>2 DEF sml_unsave_exn
<1> QED BY <1>3, <1>4

\* The frames that are left when the unwinder has landed in the frame that it
\* is at.
LEMMA Landing ==
    ASSUME Good, mode = "unwind", NEW n, n = Current.at, NEW k \in DOMAIN flights, k < Len(flights)
    PROVE  /\ flights[k].at \in Nat /\ flights[k].at + 2 <= n
           /\ flights[k].handler_addr \in 2 .. flights[k].at
           /\ stack[flights[k].at + 2].kind = "dtor"
  BY InFlight, Waiting

\* The current exception has been caught in a frame that goes on running.
LEMMA CatchKeeps ==
    ASSUME Good, mode = "unwind", Current.at = Current.handler_addr,
           Land(Current.at), flights' = Front(flights), mode' = "run",
           inML' = (stack[Current.at].kind \in MLKind),
           stack[Current.at].kind # "dtor", raised' = raised,
           exn_object' \in Nat,
           \A k \in DOMAIN flights : k < Len(flights) /\ flights[k].class = "ML" =>
               exn_object' = flights[k].id
    PROVE  Good'
<1> DEFINE n == Current.at
           last == Len(flights)
<1>0. /\ n \in 2 .. Len(stack) /\ n \in Nat /\ last \in Nat /\ last >= 1 /\ flights # <<>>
      /\ DOMAIN flights = 1 .. last /\ DOMAIN stack = 1 .. Len(stack) /\ Len(stack) \in Nat
      /\ n \in 1 .. Len(stack)
      /\ \A k \in DOMAIN flights : Waits(k) <=> k < last
  <2>1. n \in 2 .. Len(stack)
    BY InPhaseTwo
  <2>2. /\ last \in Nat /\ last >= 1 /\ flights # <<>> /\ DOMAIN flights = 1 .. last
        /\ \A k \in DOMAIN flights : Waits(k) <=> k < last
    BY InFlight
  <2> QED BY <2>1, <2>2, Basics
<1>1. /\ stack' \in Seq(FrameType) /\ Len(stack') = n
      /\ \A i \in 1 .. n : stack'[i] = stack[i]
  BY <1>0, LandedFrames DEF Land
<1>2. /\ flights' \in Seq(ExceptionType) /\ Len(flights') = last - 1
      /\ \A k \in 1 .. last - 1 : flights'[k] = flights[k]
  BY <1>0, CaughtFlights
<1>3. \A k \in 1 .. last - 1 :
        /\ k \in DOMAIN flights /\ k < last /\ flights'[k] = flights[k]
        /\ flights[k].at \in Nat /\ flights[k].at + 2 <= n
        /\ flights[k].handler_addr \in 2 .. flights[k].at
        /\ stack[flights[k].at + 2].kind = "dtor"
  <2>1. ASSUME NEW k \in 1 .. last - 1
        PROVE  k \in DOMAIN flights /\ k < last /\ flights'[k] = flights[k]
    BY <1>0, <1>2
  <2> QED BY <2>1, Landing
<1>4. inML' = (stack[n].kind \in MLKind)
  OBVIOUS
<1>5. stack[n].kind # "dtor"
  OBVIOUS
<1>6. \A i \in DOMAIN stack : stack[i].kind = "dtor" =>
        \E k \in DOMAIN flights : k < last /\ i = flights[k].at + 2
  BY <1>0 DEF Good, Destructors
<1>7. \A k \in DOMAIN flights : k < last /\ flights[k].class = "ML" =>
        exn_object' = flights[k].id
  OBVIOUS
<1> HIDE DEF n, last
<1>8. /\ DOMAIN flights' = 1 .. last - 1 /\ DOMAIN stack' = 1 .. n
      /\ Now' = stack[n]
  <2>1. DOMAIN flights' = 1 .. Len(flights') /\ DOMAIN stack' = 1 .. Len(stack')
    BY <1>1, <1>2, LenProperties
  <2> QED BY <2>1, <1>0, <1>1, <1>2 DEF Now, Last
<1>9. TypeOK'
  BY <1>0, <1>1, <1>2, <1>4 DEF Good, TypeOK
<1>10. Numbers'
  BY <1>3, <1>8 DEF Good, Numbers
<1>11. Calls'
  BY <1>0, <1>1 DEF Good, Calls
<1>12. Destructors'
  <2>1. \A k \in 1 .. last - 1 : Waits(k)'
    BY <1>8 DEF Waits
  <2>2. \A k \in 1 .. last - 1 : flights[k].at + 2 \in 1 .. n
    BY <1>0, <1>3
  <2>3. ASSUME NEW i \in 1 .. n, stack'[i].kind = "dtor"
        PROVE  \E k \in 1 .. last - 1 : i = flights'[k].at + 2
    <3>1. i \in DOMAIN stack /\ stack[i].kind = "dtor"
      BY <2>3, <1>0, <1>1
    <3>2. PICK k \in DOMAIN flights : k < last /\ i = flights[k].at + 2
      BY <3>1, <1>6
    <3>3. k \in 1 .. last - 1
      BY <3>2, <1>0
    <3> QED BY <3>2, <3>3, <1>3
  <2> QED BY <2>1, <2>2, <2>3, <1>1, <1>3, <1>8 DEF Destructors
<1>13. Nested'
  BY <1>3, <1>8 DEF Good, Nested
<1>14. Counted'
  <2>1. ASSUME NEW k \in 1 .. last - 1, flights'[k].class = "ML", flights'[k].handler_addr # 0
        PROVE  flights'[k].num_cleanup =
                 Cardinality(Cleanups(flights[k].handler_addr + 1, flights[k].at)')
    <3>1. \A i \in 1 .. flights[k].at : stack'[i] = stack[i]
      BY <1>0, <1>1, <1>3
    <3> QED BY <2>1, <3>1, <1>3, CountedBelow
  <2> QED BY <2>1, <1>3, <1>8 DEF Counted, Cleanups
<1>15. Context'
  BY <1>4, <1>8 DEF Context
<1>16. Held'
  BY <1>3, <1>7, <1>8 DEF Held
<1> QED BY <1>9, <1>10, <1>11, <1>12, <1>13, <1>14, <1>15, <1>16
        DEF Good, Searching, Unwinding

\* A handler of ML code gets the exception.
LEMMA HandlerKeeps == ASSUME Good, land_handler PROVE IInv'
<1>1. CASE Current.class = "ML"
  <2>1. /\ mode = "unwind" /\ Current.at = Current.handler_addr
        /\ stack[Current.at].kind \in MLKind /\ Land(Current.at)
        /\ exn_object' = sml_unsave_exn(Foreign(Current.at), Current)
        /\ inML' = (inML \/ Foreign(Current.at)) /\ mode' = "run"
        /\ flights' = Front(flights) /\ raised' = raised
    BY <1>1 DEF land_handler
  <2>2. inML' = (stack[Current.at].kind \in MLKind)
    BY <2>1, InPhaseTwo
  <2>3. stack[Current.at].kind # "dtor"
    BY <2>1 DEF MLKind
  <2> QED BY <2>1, <2>2, <2>3, UnsaveKeeps, CatchKeeps DEF IInv
<1>2. CASE Current.class # "ML"
  BY <1>2 DEF land_handler, IInv
<1> QED BY <1>1, <1>2
\* The number that decides whether a cleanup pad is looked up is right.
LEMMA PadsAhead ==
    ASSUME Good, mode = "unwind", Current.class = "ML", Current.at # Current.handler_addr
    PROVE  LET e == Current
               left == Cardinality(Cleanups(e.handler_addr + 1, e.at - 1))
           IN  /\ left \in Nat
               /\ e.num_cleanup =
                    IF stack[e.at].kind \in MLKind /\ "CLEANUP" \in stack[e.at].pad
                    THEN left + 1 ELSE left
<1> DEFINE e == Current
           h == e.handler_addr + 1
<1>1. h \in Nat /\ e.at \in Nat /\ h <= e.at /\ e.handler_addr # 0 /\ e.at - 1 \in Nat
  BY InPhaseTwo, Basics
<1>2. e.num_cleanup = Cardinality(Cleanups(h, e.at))
  BY <1>1, InFlight DEF Good, Counted
<1>3. {n \in Cleanups(h, e.at) : n # e.at} = Cleanups(h, e.at - 1)
  BY <1>1 DEF Cleanups
<1>4. Cardinality(Cleanups(h, e.at - 1)) \in Nat
  BY <1>1, FiniteCleanups
<1> HIDE DEF h, e
<1>5. Cardinality(Cleanups(h, e.at)) =
        IF stack[e.at].kind \in MLKind /\ "CLEANUP" \in stack[e.at].pad
        THEN Cardinality({n \in Cleanups(h, e.at) : n # e.at}) + 1
        ELSE Cardinality({n \in Cleanups(h, e.at) : n # e.at})
  BY <1>1, OneMore
<1> QED BY <1>2, <1>3, <1>4, <1>5 DEF h, e

\* The unwinder leaves a frame that does not catch the current exception, for
\* the frame below or for a destructor.
LEMMA AdvanceKeeps ==
    ASSUME Good, mode = "unwind", Current.at # Current.handler_addr,
           NEW e \in ExceptionType, Update(e), e.id = Current.id, e.class = Current.class,
           e.handler_addr = Current.handler_addr, e.at = Current.at - 1,
           e.class = "ML" => e.num_cleanup =
               Cardinality(Cleanups(Current.handler_addr + 1, Current.at - 1)),
           stack' \in Seq(FrameType), Len(stack') >= Current.at,
           \A i \in 1 .. Current.at : stack'[i] = stack[i],
           exn_object' \in Nat, inML' \in BOOLEAN, raised' = raised,
           mode' \in {"run", "unwind"}
    PROVE  /\ TypeOK' /\ Numbers' /\ Nested' /\ Counted'
           /\ mode' = "unwind" => Unwinding'
           /\ Current' = e /\ DOMAIN flights' = DOMAIN flights /\ Len(flights') = Len(flights)
           /\ flights'[Len(flights)] = e
           /\ \A k \in DOMAIN flights : k < Len(flights) => flights'[k] = flights[k]
<1> DEFINE n == Current.at
           h == Current.handler_addr
           last == Len(flights)
<1>0. /\ h \in 2 .. n /\ n \in 2 .. Len(stack) /\ h # n /\ Len(stack) \in Nat
      /\ last \in Nat /\ last >= 1 /\ flights # <<>> /\ DOMAIN flights = 1 .. last
      /\ Current = flights[last]
      /\ \A k \in DOMAIN flights : k < last => flights[k].at + 2 <= h
      /\ \A k \in DOMAIN flights : k < last => flights[k].at \in Nat
      /\ stack[1] = Frame("c")
  <2>1. Len(stack) \in Nat /\ stack[1] = Frame("c")
    BY Basics DEF Good, TypeOK
  <2>2. \A k \in DOMAIN flights : flights[k].at \in Nat
    BY InFlight DEF ExceptionType
  <2> QED BY <2>1, <2>2, InFlight, InPhaseTwo
<1>1. /\ flights' \in Seq(ExceptionType) /\ Len(flights') = last
      /\ \A k \in 1 .. last - 1 : flights'[k] = flights[k]
      /\ flights'[last] = e
  BY <1>0, UpdatedFlights
<1>2. /\ e.id = flights[last].id /\ e.class = flights[last].class
      /\ e.handler_addr = h /\ e.at = n - 1
      /\ e.class = "ML" => e.num_cleanup = Cardinality(Cleanups(h + 1, n - 1))
      /\ Len(stack') >= n /\ \A i \in 1 .. n : stack'[i] = stack[i]
  BY <1>0
<1> HIDE DEF n, h, last
<1>3. DOMAIN flights' = 1 .. last /\ Current' = e /\ flights' # <<>>
  <2>1. DOMAIN flights' = 1 .. Len(flights')
    BY <1>1, LenProperties
  <2> QED BY <2>1, <1>0, <1>1 DEF Current, Last
<1>4. \A k \in 1 .. last : k < last => k \in DOMAIN flights /\ flights'[k] = flights[k]
  BY <1>0, <1>1
<1>5. TypeOK'
  <2>1. Len(stack') \in Nat
    BY LenProperties
  <2>2. Len(stack') >= 2 /\ stack'[1] = Frame("c")
    BY <2>1, <1>0, <1>2
  <2> QED BY <2>2, <1>1 DEF Good, TypeOK
<1>6. Numbers'
  <2>1. \A k \in 1 .. last : flights'[k].id = flights[k].id
    BY <1>0, <1>1, <1>2, <1>4
  <2> QED BY <2>1, <1>0, <1>3 DEF Good, Numbers
<1>7. Nested'
  <2>1. ASSUME NEW j \in 1 .. last, NEW k \in 1 .. last, j < k
        PROVE  /\ flights'[j].at + 2 <= flights'[k].at
               /\ flights'[k].handler_addr = 0
                    \/ flights'[j].at + 2 <= flights'[k].handler_addr
    <3>1. j < last /\ flights'[j] = flights[j] /\ j \in DOMAIN flights
      BY <2>1, <1>0, <1>4
    <3>2. CASE k = last
      <4>1. flights[j].at + 2 <= h /\ flights[j].at \in Nat
        BY <3>1, <1>0
      <4> QED BY <3>1, <3>2, <4>1, <1>0, <1>1, <1>2
    <3>3. CASE k < last
      BY <3>1, <3>3, <2>1, <1>0, <1>4 DEF Good, Nested
    <3> QED BY <3>2, <3>3, <1>0
  <2> QED BY <2>1, <1>3 DEF Nested
<1>8. Counted'
  <2>1. ASSUME NEW k \in 1 .. last, k < last,
               flights'[k].class = "ML", flights'[k].handler_addr # 0
        PROVE  flights'[k].num_cleanup =
                 Cardinality(Cleanups(flights[k].handler_addr + 1, flights[k].at)')
    <3>1. \A i \in 1 .. flights[k].at : stack'[i] = stack[i]
      <4>1. flights[k].at + 2 <= h /\ flights[k].at \in Nat
        BY <2>1, <1>0
      <4> QED BY <4>1, <1>0, <1>2, SMTT(20)
    <3> QED BY <2>1, <3>1, <1>4, CountedBelow
  <2>2. e.class = "ML" => e.num_cleanup =
          Cardinality({i \in h + 1 .. n - 1 :
                         stack'[i].kind \in MLKind /\ "CLEANUP" \in stack'[i].pad})
    <3>1. \A i \in h + 1 .. n - 1 : stack'[i] = stack[i]
      BY <1>0, <1>2
    <3>2. Cleanups(h + 1, n - 1) =
            {i \in h + 1 .. n - 1 : stack'[i].kind \in MLKind /\ "CLEANUP" \in stack'[i].pad}
      BY <3>1 DEF Cleanups
    <3> QED BY <3>2, <1>2
  <2>3. ASSUME NEW k \in 1 .. last, flights'[k].class = "ML", flights'[k].handler_addr # 0
        PROVE  flights'[k].num_cleanup =
                 Cardinality({i \in flights'[k].handler_addr + 1 .. flights'[k].at :
                                stack'[i].kind \in MLKind /\ "CLEANUP" \in stack'[i].pad})
    <3>1. CASE k = last
      BY <3>1, <2>2, <2>3, <1>1, <1>2
    <3>2. CASE k < last
      BY <3>2, <2>1, <2>3, <1>4 DEF Cleanups
    <3> QED BY <3>1, <3>2, <1>0
  <2> QED BY <2>3, <1>3 DEF Counted, Cleanups
<1>9. Unwinding'
  <2>1. Len(stack') \in Nat
    BY LenProperties
  <2>2. e.handler_addr \in 2 .. e.at /\ e.at <= Len(stack')
    BY <2>1, <1>0, <1>2
  <2> QED BY <2>2, <1>3 DEF Unwinding
<1> QED BY <1>0, <1>1, <1>3, <1>4, <1>5, <1>6, <1>7, <1>8, <1>9 DEF last
\* The frame has no cleanup pad.
LEMMA SkipKeeps ==
    ASSUME Good, mode = "unwind", Current.at # Current.handler_addr,
           "CLEANUP" \notin stack[Current.at].pad, Skip(Current)
    PROVE  Good'
<1> DEFINE n == Current.at
           e == [Current EXCEPT !.at = @ - 1]
           last == Len(flights)
<1>0. /\ Current \in ExceptionType /\ n \in 2 .. Len(stack) /\ n - 1 \in Nat \ {0}
      /\ Len(stack) \in Nat /\ DOMAIN flights = 1 .. last /\ last \in Nat /\ last >= 1
      /\ Current = flights[last] /\ stack \in Seq(FrameType)
      /\ exn_object \in Nat /\ inML \in BOOLEAN
      /\ \A k \in DOMAIN flights : Waits(k) <=> k < last
  <2>1. n \in 2 .. Len(stack) /\ Len(stack) \in Nat
    BY InPhaseTwo, Basics
  <2>2. /\ Current \in ExceptionType /\ DOMAIN flights = 1 .. last /\ last \in Nat
        /\ last >= 1 /\ Current = flights[last]
        /\ \A k \in DOMAIN flights : Waits(k) <=> k < last
    BY InFlight
  <2> QED BY <2>1, <2>2 DEF Good, TypeOK
<1>1. /\ e \in ExceptionType /\ e.id = Current.id /\ e.class = Current.class
      /\ e.handler_addr = Current.handler_addr /\ e.at = n - 1
      /\ e.num_cleanup = Current.num_cleanup
  BY <1>0 DEF ExceptionType
<1>2. Update(e) /\ UNCHANGED <<stack, exn_object, inML, mode, raised>>
  BY DEF Skip
<1>3. e.class = "ML" => e.num_cleanup =
        Cardinality(Cleanups(Current.handler_addr + 1, Current.at - 1))
  BY <1>1, PadsAhead
<1> HIDE DEF e
<1>4. /\ TypeOK' /\ Numbers' /\ Nested' /\ Counted' /\ Unwinding'
      /\ Current' = e /\ DOMAIN flights' = DOMAIN flights /\ Len(flights') = last
      /\ flights'[last] = e
      /\ \A k \in DOMAIN flights : k < last => flights'[k] = flights[k]
  <2>1. stack' \in Seq(FrameType) /\ Len(stack') >= Current.at
        /\ \A i \in 1 .. Current.at : stack'[i] = stack[i]
    BY <1>0, <1>2
  <2>2. exn_object' \in Nat /\ inML' \in BOOLEAN /\ raised' = raised /\ mode' \in {"run", "unwind"}
    BY <1>0, <1>2
  <2> QED BY <1>1, <1>2, <1>3, <2>1, <2>2, AdvanceKeeps
<1>5. Calls'
  BY <1>2 DEF Good, Calls, Now
<1>6. Destructors'
  <2>1. \A k \in DOMAIN flights : Waits(k)' <=> k < last
    BY <1>2, <1>4 DEF Waits
  <2> QED BY <2>1, <1>0, <1>2, <1>4 DEF Good, Destructors
<1>7. Context'
  <2>1. Current'.at # Len(stack') /\ Current'.at + 1 = n
    BY <1>0, <1>1, <1>2, <1>4
  <2>2. inML <=> stack[n].kind = "ml"
    <3>1. stack[n].kind # "top" \/ stack[n].kind \notin MLKind
      BY InPhaseTwo
    <3>2. inML <=> stack[n].kind \in MLKind
      BY InPhaseTwo
    <3> QED BY <3>1, <3>2 DEF MLKind
  <2> QED BY <2>1, <2>2, <1>0, <1>2 DEF Context
<1>8. Held'
  <2>1. \A k \in DOMAIN flights :
             flights'[k].id = flights[k].id /\ flights'[k].class = flights[k].class
    BY <1>0, <1>1, <1>4
  <2> QED BY <2>1, <1>2, <1>4 DEF Good, Held
<1> QED BY <1>2, <1>4, <1>5, <1>6, <1>7, <1>8 DEF Good, Searching

\* Cleanup pads of ML code.
LEMMA CleanupKeeps == ASSUME Good, land_cleanup PROVE IInv'
<1> DEFINE n == Current.at
           e == [Current EXCEPT !.num_cleanup = IF Current.class = "ML" THEN @ - 1 ELSE @,
                                !.at = @ - 1]
           saved == sml_unsave_exn(Foreign(n), Current)
           top == stack[n].kind = "top"
           last == Len(flights)
<1>0. /\ mode = "unwind" /\ n # Current.handler_addr /\ stack[n].kind \in MLKind
  BY DEF land_cleanup
<1>1. /\ Current \in ExceptionType /\ n \in 2 .. Len(stack) /\ n - 1 \in Nat \ {0}
      /\ n \in 1 .. Len(stack)
      /\ Len(stack) \in Nat /\ DOMAIN stack = 1 .. Len(stack)
      /\ DOMAIN flights = 1 .. last /\ last \in Nat /\ last >= 1
      /\ Current = flights[last]
      /\ \A k \in DOMAIN flights : Waits(k) <=> k < last
  <2>1. n \in 2 .. Len(stack) /\ Len(stack) \in Nat /\ DOMAIN stack = 1 .. Len(stack)
    BY <1>0, InPhaseTwo, Basics
  <2>2. /\ Current \in ExceptionType /\ DOMAIN flights = 1 .. last /\ last \in Nat
        /\ last >= 1 /\ Current = flights[last]
        /\ \A k \in DOMAIN flights : Waits(k) <=> k < last
    BY <1>0, InFlight
  <2> QED BY <2>1, <2>2
<1>2. CASE Skipped(Current) /\ Skip(Current)
  <2>1. "CLEANUP" \notin stack[n].pad
    <3>1. CASE Current.class = "ML" /\ Current.num_cleanup = 0
      BY <3>1, <1>0, PadsAhead
    <3> QED BY <3>1, <1>2 DEF Skipped
  <2> QED BY <2>1, <1>0, <1>2, SkipKeeps DEF IInv
<1>3. CASE /\ ~Skipped(Current) /\ ~(top /\ ~MaySave(saved)) /\ Land(n) /\ Update(e)
           /\ exn_object' = (IF top THEN sml_save_exn(Current, saved) ELSE saved)
           /\ mode' = "unwind" /\ inML' = ((inML \/ Foreign(n)) /\ ~top)
           /\ raised' = raised
  <2>1. "CLEANUP" \in stack[n].pad
    BY <1>3 DEF Skipped
  <2>2. Current.class = "ML" =>
          /\ Current.num_cleanup - 1 = Cardinality(Cleanups(Current.handler_addr + 1, n - 1))
          /\ Current.num_cleanup - 1 \in Nat
    BY <2>1, <1>0, PadsAhead
  <2>3. /\ e \in ExceptionType /\ e.id = Current.id /\ e.class = Current.class
        /\ e.handler_addr = Current.handler_addr /\ e.at = n - 1
        /\ e.class = "ML" => e.num_cleanup = Current.num_cleanup - 1
    BY <1>1, <2>2 DEF ExceptionType
  <2>4. /\ stack' \in Seq(FrameType) /\ Len(stack') = n
        /\ \A i \in 1 .. n : stack'[i] = stack[i]
    BY <1>1, <1>3, LandedFrames DEF Land
  <2>5. inML' <=> stack[n].kind = "ml"
    <3>1. inML \/ Foreign(n)
      BY <1>0, InPhaseTwo
    <3> QED BY <3>1, <1>0, <1>3 DEF MLKind
  <2>6. saved \in Nat /\ \A k \in DOMAIN flights :
          k < last /\ flights[k].class = "ML" => saved = flights[k].id
    BY <1>0, UnsaveKeeps
  <2>7. exn_object' \in Nat
    BY <1>1, <1>3, <2>6 DEF sml_save_exn, ExceptionType
  <2>8. \A k \in DOMAIN flights : k < last /\ flights[k].class = "ML" =>
          exn_object' = flights[k].id
    <3>1. \A k \in DOMAIN flights : flights[k].id # 0
      BY <1>0, InFlight DEF ExceptionType
    <3>2. top => saved = 0
      BY <1>3 DEF MaySave
    <3> QED BY <3>1, <3>2, <2>6, <1>3
  <2>9. Current.class = "ML" => exn_object' = Current.id \/ inML'
    <3>1. top \/ stack[n].kind = "ml"
      BY <1>0 DEF MLKind
    <3> QED BY <3>1, <2>5, <1>3 DEF sml_save_exn
  <2> HIDE DEF e, saved
  <2>10. /\ TypeOK' /\ Numbers' /\ Nested' /\ Counted' /\ Unwinding'
         /\ Current' = e /\ DOMAIN flights' = DOMAIN flights /\ Len(flights') = last
         /\ flights'[last] = e
         /\ \A k \in DOMAIN flights : k < last => flights'[k] = flights[k]
    <3>1. Len(stack') >= n
      BY <2>4, <1>1
    <3>2. e.class = "ML" => e.num_cleanup =
            Cardinality(Cleanups(Current.handler_addr + 1, Current.at - 1))
      BY <2>2, <2>3
    <3>3. inML' \in BOOLEAN /\ mode' \in {"run", "unwind"} /\ mode' = "unwind"
      BY <1>3
    <3>4. Update(e) /\ raised' = raised
      BY <1>3
    <3> QED BY <3>1, <3>2, <3>3, <3>4, <1>0, <2>3, <2>4, <2>7, AdvanceKeeps
  <2>11. DOMAIN stack' = 1 .. n /\ Now' = stack[n]
    <3>1. DOMAIN stack' = 1 .. Len(stack')
      BY <2>4, LenProperties
    <3> QED BY <3>1, <2>4, <1>1 DEF Now, Last
  <2>12. Calls'
    <3>1. stack[n].kind # "dtor"
      BY <1>0 DEF MLKind
    <3> QED BY <3>1, <2>1, <2>4, <2>11, <1>1 DEF Good, Calls
  <2>13. Destructors'
    <3>1. \A k \in DOMAIN flights : Waits(k)' <=> k < last
      BY <1>3, <2>10 DEF Waits
    <3>2. ASSUME NEW k \in DOMAIN flights, k < last
          PROVE  /\ flights[k].handler_addr \in 2 .. flights[k].at
                 /\ flights[k].at + 2 <= n
                 /\ stack'[flights[k].at + 2].kind = "dtor"
      <4>1. /\ flights[k].at \in Nat /\ flights[k].at + 2 <= n
            /\ flights[k].handler_addr \in 2 .. flights[k].at
            /\ stack[flights[k].at + 2].kind = "dtor"
        BY <3>2, <1>0, Landing
      <4>2. flights[k].at + 2 \in 1 .. n
        BY <4>1, <1>1
      <4> QED BY <4>1, <4>2, <2>4
    <3>3. ASSUME NEW i \in 1 .. n, stack'[i].kind = "dtor"
          PROVE  \E k \in DOMAIN flights : k < last /\ i = flights[k].at + 2
      <4>1. i \in DOMAIN stack /\ stack[i].kind = "dtor"
        BY <3>3, <1>1, <2>4
      <4> QED BY <4>1, <1>1 DEF Good, Destructors
    <3> QED BY <3>1, <3>2, <3>3, <2>4, <2>10, <2>11 DEF Destructors
  <2>14. Context'
    <3>1. Current'.at # Len(stack') /\ Current'.at + 1 = n /\ stack'[n] = stack[n]
      BY <1>1, <2>3, <2>4, <2>10
    <3>2. inML' \in BOOLEAN
      BY <1>3
    <3> QED BY <3>1, <3>2, <2>5, <1>3 DEF Context
  <2>15. Held'
    BY <2>3, <2>8, <2>9, <2>10, <1>1, <1>3 DEF Held
  <2> QED BY <1>3, <2>10, <2>12, <2>13, <2>14, <2>15 DEF IInv, Good, Searching
<1>4. CASE mode' = "dead"
  BY <1>4 DEF IInv
<1> HIDE DEF saved
<1>5. (Skipped(Current) /\ Skip(Current))
      \/ /\ ~Skipped(Current) /\ Land(n) /\ Update(e)
         /\ exn_object' = (IF top THEN sml_save_exn(Current, saved) ELSE saved)
         /\ mode' = (IF top /\ ~MaySave(saved) THEN "dead" ELSE "unwind")
         /\ inML' = ((inML \/ Foreign(n)) /\ ~top)
         /\ raised' = raised
  BY DEF land_cleanup, saved
<1> QED BY <1>2, <1>3, <1>4, <1>5

\* Catch clauses and destructors.
LEMMA CxxKeeps == ASSUME Good, land_cxx PROVE IInv'
<1> DEFINE n == Current.at
           e == [Current EXCEPT !.at = @ - 1]
           last == Len(flights)
<1>0. mode = "unwind" /\ stack[n].kind \notin MLKind
  BY DEF land_cxx
<1>1. /\ Current \in ExceptionType /\ n \in 2 .. Len(stack) /\ n - 1 \in Nat \ {0}
      /\ n \in 1 .. Len(stack) /\ stack[n] \in FrameType
      /\ Len(stack) \in Nat /\ DOMAIN stack = 1 .. Len(stack)
      /\ DOMAIN flights = 1 .. last /\ last \in Nat /\ last >= 1
      /\ Current = flights[last] /\ exn_object \in Nat /\ inML \in BOOLEAN
      /\ \A k \in DOMAIN flights : Waits(k) <=> k < last
  <2>1. /\ n \in 2 .. Len(stack) /\ Len(stack) \in Nat /\ DOMAIN stack = 1 .. Len(stack)
        /\ stack[n] \in FrameType
    BY <1>0, InPhaseTwo, Basics
  <2>2. /\ Current \in ExceptionType /\ DOMAIN flights = 1 .. last /\ last \in Nat
        /\ last >= 1 /\ Current = flights[last]
        /\ \A k \in DOMAIN flights : Waits(k) <=> k < last
    BY <1>0, InFlight
  <2> QED BY <2>1, <2>2 DEF Good, TypeOK
<1>2. ~inML
  BY <1>0, InPhaseTwo
<1>3. \A k \in DOMAIN flights : flights[k].class = "ML" => exn_object = flights[k].id
  BY <1>2 DEF Good, Held
<1>4. CASE /\ n = Current.handler_addr /\ Land(n) /\ flights' = Front(flights)
           /\ mode' = "run" /\ stack[n].kind # "dtor"
           /\ UNCHANGED <<exn_object, inML, raised>>
  <2>1. inML' = (stack[n].kind \in MLKind)
    BY <1>0, <1>1, <1>2, <1>4
  <2> QED BY <2>1, <1>0, <1>1, <1>3, <1>4, CatchKeeps DEF IInv
<1>5. CASE /\ n # Current.handler_addr
           /\ stack' = Append(SubSeq(stack, 1, n), Frame("dtor"))
           /\ Update(e) /\ mode' = "run" /\ UNCHANGED <<exn_object, inML, raised>>
  <2>1. /\ e \in ExceptionType /\ e.id = Current.id /\ e.class = Current.class
        /\ e.handler_addr = Current.handler_addr /\ e.at = n - 1
        /\ e.num_cleanup = Current.num_cleanup
    BY <1>1 DEF ExceptionType
  <2>2. /\ stack' \in Seq(FrameType) /\ Len(stack') = n + 1
        /\ \A i \in 1 .. n : stack'[i] = stack[i]
        /\ stack'[n + 1] = Frame("dtor")
    <3> DEFINE s == SubSeq(stack, 1, n)
    <3>1. s \in Seq(FrameType) /\ Len(s) = n /\ \A i \in 1 .. n : s[i] = stack[i]
      BY <1>1, LandedFrames
    <3>2. Frame("dtor") \in FrameType
      BY DEF Frame, FrameType, Kind, Pad
    <3>3. stack' = Append(s, Frame("dtor"))
      BY <1>5
    <3> HIDE DEF s
    <3>4. /\ Append(s, Frame("dtor")) \in Seq(FrameType)
          /\ Len(Append(s, Frame("dtor"))) = Len(s) + 1
          /\ \A i \in 1 .. Len(s) : Append(s, Frame("dtor"))[i] = s[i]
          /\ Append(s, Frame("dtor"))[Len(s) + 1] = Frame("dtor")
      BY <3>1, <3>2, AppendProperties
    <3> QED BY <3>1, <3>3, <3>4
  <2>3. e.class = "ML" => e.num_cleanup =
          Cardinality(Cleanups(Current.handler_addr + 1, Current.at - 1))
    BY <2>1, <1>0, <1>5, PadsAhead
  <2>4. stack[n].kind = "c"
    <3>1. stack[n].kind # "dtor"
      BY <1>0, <1>5, InPhaseTwo
    <3> QED BY <3>1, <1>0, <1>1 DEF FrameType, Kind, MLKind
  <2>5. Update(e) /\ mode' = "run" /\ UNCHANGED <<exn_object, inML, raised>>
    BY <1>5
  <2> HIDE DEF e
  <2>6. /\ TypeOK' /\ Numbers' /\ Nested' /\ Counted'
        /\ Current' = e /\ DOMAIN flights' = DOMAIN flights /\ Len(flights') = last
        /\ flights'[last] = e
        /\ \A k \in DOMAIN flights : k < last => flights'[k] = flights[k]
    <3>1. Len(stack') >= n
      BY <2>2, <1>1
    <3>2. exn_object' \in Nat /\ inML' \in BOOLEAN /\ mode' \in {"run", "unwind"}
      BY <1>1, <2>5
    <3> QED BY <3>1, <3>2, <1>0, <1>5, <2>1, <2>2, <2>3, <2>5, AdvanceKeeps
  <2>7. DOMAIN stack' = 1 .. n + 1 /\ Now' = Frame("dtor")
    <3>1. DOMAIN stack' = 1 .. Len(stack')
      BY <2>2, LenProperties
    <3> QED BY <3>1, <2>2 DEF Now, Last
  <2>8. Calls'
    <3>1. ASSUME NEW i \in 1 .. n PROVE CallOK(stack'[i], stack'[i + 1])
      <4>1. CASE i = n
        BY <4>1, <2>2, <2>4 DEF CallOK, Frame, MLKind
      <4>2. CASE i # n
        <5>1. i \in 1 .. Len(stack) - 1 /\ i + 1 \in 1 .. n
          BY <4>2, <1>1
        <5> QED BY <5>1, <2>2 DEF Good, Calls
      <4> QED BY <4>1, <4>2
    <3>2. Len(stack') - 1 = n
      BY <2>2, <1>1
    <3> QED BY <3>1, <3>2, <2>5 DEF Calls
  <2>9. Destructors'
    <3>1. \A k \in DOMAIN flights : Waits(k)'
      BY <2>5, <2>6 DEF Waits
    <3>2. e.handler_addr \in 2 .. e.at /\ e.at + 2 = n + 1
      BY <2>1, <1>0, <1>1, <1>5, InPhaseTwo
    <3>3. ASSUME NEW k \in DOMAIN flights, k < last
          PROVE  /\ flights[k].handler_addr \in 2 .. flights[k].at
                 /\ flights[k].at + 2 <= n + 1
                 /\ stack'[flights[k].at + 2].kind = "dtor"
      <4>1. /\ flights[k].at \in Nat /\ flights[k].at + 2 <= n
            /\ flights[k].handler_addr \in 2 .. flights[k].at
            /\ stack[flights[k].at + 2].kind = "dtor"
        BY <3>3, <1>0, Landing
      <4>2. flights[k].at + 2 \in 1 .. n
        BY <4>1, <1>1
      <4>3. stack'[flights[k].at + 2].kind = "dtor"
        BY <4>1, <4>2, <2>2
      <4>4. flights[k].at + 2 <= n + 1
        BY <4>1, <1>1
      <4> QED BY <4>1, <4>3, <4>4
    <3>4. ASSUME NEW k \in DOMAIN flights
          PROVE  /\ flights'[k].handler_addr \in 2 .. flights'[k].at
                 /\ flights'[k].at + 2 <= n + 1
                 /\ stack'[flights'[k].at + 2].kind = "dtor"
      <4>1. CASE k = last
        BY <4>1, <3>2, <2>2, <2>6, <1>1 DEF Frame
      <4>2. CASE k < last
        BY <4>2, <3>3, <2>6
      <4> QED BY <4>1, <4>2, <1>1
    <3>5. ASSUME NEW i \in 1 .. n + 1, stack'[i].kind = "dtor"
          PROVE  \E k \in DOMAIN flights : i = flights'[k].at + 2
      <4>1. CASE i = n + 1
        BY <4>1, <3>2, <2>6, <1>1
      <4>2. CASE i # n + 1
        <5>1. i \in DOMAIN stack /\ stack[i].kind = "dtor"
          <6>1. i \in 1 .. n /\ stack'[i] = stack[i]
            BY <4>2, <2>2, <1>1
          <6> QED BY <6>1, <3>5, <1>1
        <5>2. PICK k \in DOMAIN flights : k < last /\ i = flights[k].at + 2
          BY <5>1, <1>1 DEF Good, Destructors
        <5> QED BY <5>2, <2>6
      <4> QED BY <4>1, <4>2
    <3> QED BY <3>1, <3>4, <3>5, <2>2, <2>6, <2>7 DEF Destructors
  <2>10. Context'
    BY <2>5, <2>7, <1>1, <1>2 DEF Context, Frame, MLKind
  <2>11. Held'
    <3>1. \A k \in DOMAIN flights :
             flights'[k].id = flights[k].id /\ flights'[k].class = flights[k].class
      BY <1>1, <2>1, <2>6
    <3> QED BY <3>1, <1>3, <2>5, <2>6 DEF Held
  <2> QED BY <2>5, <2>6, <2>8, <2>9, <2>10, <2>11 DEF IInv, Good, Searching, Unwinding
<1>6. CASE n # Current.handler_addr /\ "CLEANUP" \notin stack[n].pad /\ Skip(Current)
  BY <1>0, <1>6, SkipKeeps DEF IInv
<1>7. CASE mode' = "dead"
  BY <1>7 DEF IInv
<1> QED BY <1>4, <1>5, <1>6, <1>7 DEF land_cxx
-----------------------------------------------------------------------------
(***************************************************************************)
(* The invariant and what follows from it                                  *)
(***************************************************************************)

\* Every step keeps the invariant; a program that has ended takes none.
LEMMA StepKeeps == ASSUME IInv, [Next]_vars PROVE IInv'
<1>1. CASE mode = "dead"
  BY <1>1 DEF Next, vars, IInv, call_ml, call_c, call_back, return, sml_raise, cxx_throw,
     search, land_handler, land_cleanup, land_cxx, ended
<1>2. CASE Good
  <2>1. CASE UNCHANGED vars
    <3> USE <1>2, <2>1 DEF vars
    <3>1. TypeOK' /\ Numbers' /\ Nested' /\ Held'
      BY DEF Good, TypeOK, Numbers, Nested, Held
    <3>2. Calls' /\ Context'
      BY DEF Good, Calls, Context, Now, Current
    <3>3. Destructors'
      BY DEF Good, Destructors, Waits
    <3>4. Searching' /\ Unwinding'
      BY DEF Good, Searching, Unwinding, Cleanups, Current
    <3>5. Counted'
      BY DEF Good, Counted, Cleanups
    <3> QED BY <3>1, <3>2, <3>3, <3>4, <3>5 DEF IInv, Good
  <2>2. CASE call_ml
    BY <1>2, <2>2, CallMLKeeps DEF IInv
  <2>3. CASE call_c
    BY <1>2, <2>3, CallCKeeps DEF IInv
  <2>4. CASE call_back
    BY <1>2, <2>4, CallBackKeeps DEF IInv
  <2>5. CASE return
    BY <1>2, <2>5, ReturnKeeps DEF IInv
  <2>6. CASE sml_raise
    BY <1>2, <2>6, SmlRaiseKeeps DEF IInv
  <2>7. CASE cxx_throw
    BY <1>2, <2>7, CxxThrowKeeps DEF IInv
  <2>8. CASE search
    BY <1>2, <2>8, SearchKeeps
  <2>9. CASE land_handler
    BY <1>2, <2>9, HandlerKeeps
  <2>10. CASE land_cleanup
    BY <1>2, <2>10, CleanupKeeps
  <2>11. CASE land_cxx
    BY <1>2, <2>11, CxxKeeps
  <2>12. CASE ended
    BY <1>2, <2>12 DEF ended, Good, TypeOK
  <2> QED BY <2>1, <2>2, <2>3, <2>4, <2>5, <2>6, <2>7, <2>8, <2>9, <2>10, <2>11, <2>12 DEF Next
<1> QED BY <1>1, <1>2 DEF IInv

\* The frames, the exceptions in flight and the context always fit together
\* (search, land_handler, land_cleanup and land_cxx, i.e. sml_personality and
\* the pads it chooses), on stacks of any depth.
THEOREM UnwindInvariant == Spec => []IInv
<1>1. Init => IInv
  BY InitGood
<1>2. IInv /\ [Next]_vars => IInv'
  BY StepKeeps
<1> QED BY <1>1, <1>2, PTL DEF Spec

\* num_cleanup of every exception in flight is the number of cleanup pads of ML
\* code left before its handler, so that the shortcut of sml_personality never
\* passes one, although destructors have run other exceptions in between.
THEOREM NoPadPassed == Spec => []PadsLeft
<1>1. IInv => PadsLeft
  <2>1. CASE mode = "dead"
    BY <2>1 DEF PadsLeft
  <2>2. CASE Good
    BY <2>2 DEF Good, Counted, Cleanups, PadsLeft
  <2> QED BY <2>1, <2>2 DEF IInv
<1> QED BY <1>1, UnwindInvariant, PTL

\* However the functions above it have ended (sml_end by a cleanup pad of
\* toplevel code, sml_enter by that of a call of a C function), ML code runs in
\* the ML context and C code outside of it.
THEOREM OwnContext == Spec => []ContextMatches
<1>1. IInv => ContextMatches
  <2>1. CASE mode = "dead"
    BY <2>1 DEF ContextMatches
  <2>2. CASE Good
    BY <2>2 DEF Good, Context, ContextMatches
  <2> QED BY <2>1, <2>2 DEF IInv
<1> QED BY <1>1, UnwindInvariant, PTL

\* sml_save_exn keeps the object of an ML exception that is in frames of C or
\* waits for a destructor, until the sml_unsave_exn that belongs to it.
THEOREM ExceptionHeld == Spec => []ExnHeld
<1>1. IInv => ExnHeld
  <2>1. CASE mode = "dead"
    BY <2>1 DEF ExnHeld
  <2>2. CASE Good
    BY <2>2 DEF Good, Held, ExnHeld
  <2> QED BY <2>1, <2>2 DEF IInv
<1> QED BY <1>1, UnwindInvariant, PTL
=============================================================================
