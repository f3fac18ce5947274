---------------------------- MODULE MCHandshake ----------------------------
(***************************************************************************)
(* The handshake for model checking.  A counterexample is easier to follow *)
(* when the program does only what makes its threads interact: they        *)
(* register, run ML code, leave it for good at any moment, and start a     *)
(* collection from ML code.                                                *)
(***************************************************************************)
EXTENDS HandshakeInv

\* No thread ends, no user ends, C code does not come back to ML code, no signal
\* handler starts a collection, ML code polls while the counter is not 0, and no
\* thread registers during the collection
Restricted ==
    \A t \in Worker :
        /\ pc'[t] # "exited"
        /\ users'[t] # "ended"
        /\ pc[t] = "c" => pc'[t] = "c"
        /\ pc[t] = "ml" /\ pc'[t] = "load" => flag # 0
        /\ n' # n => gc_count = 0

RestrictedSpec == Init /\ [][Next /\ Restricted]_vars

=============================================================================
