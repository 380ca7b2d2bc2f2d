---------------------------- MODULE ChatService ----------------------------
(***************************************************************************)
(* What a user of the chat may rely on, seen from the screens alone.       *)
(*                                                                         *)
(* The k-th line a node accepts is its message k.  A node works on one     *)
(* message at a time and ends each with one verdict, "sucessful" or an     *)
(* error.  A message is shown on the screen of the node it is addressed    *)
(* to, and nowhere else; between two restarts of that node each message is *)
(* shown at most once, in the order they were typed; and a sender is told  *)
(* "sucessful" only about a message that has been shown.  An error         *)
(* promises nothing: the message may have been shown, or may be later.     *)
(***************************************************************************)
EXTENDS Integers, Sequences

CONSTANT Node

VARIABLES
  said,      \* said[n]: the destination of each message n accepted, in order
  verdict,   \* verdict[n]: what n said became of each of them
  heard,     \* heard[m][n]: messages of n shown by m since m last restarted
  everHeard  \* everHeard[m]: <<n, k>> for each message m ever showed

serviceVars == <<said, verdict, heard, everHeard>>

ServiceInit ==
  /\ said = [n \in Node |-> <<>>]
  /\ verdict = [n \in Node |-> <<>>]
  /\ heard = [m \in Node |-> [n \in Node |-> <<>>]]
  /\ everHeard = [m \in Node |-> {}]

Open(n, k) == k \in DOMAIN verdict[n] /\ verdict[n][k] = "open"

Say(n, d) ==
  /\ \A k \in DOMAIN verdict[n] : ~ Open(n, k)
  /\ said' = [said EXCEPT ![n] = Append(@, d)]
  /\ verdict' = [verdict EXCEPT ![n] = Append(@, "open")]
  /\ UNCHANGED <<heard, everHeard>>

Show(m, n, k) ==
  /\ k \in DOMAIN said[n] /\ said[n][k] = m
  /\ \A i \in DOMAIN heard[m][n] : heard[m][n][i] < k
  /\ heard' = [heard EXCEPT ![m][n] = Append(@, k)]
  /\ everHeard' = [everHeard EXCEPT ![m] = @ \cup {<<n, k>>}]
  /\ UNCHANGED <<said, verdict>>

Succeed(n, k) ==
  /\ Open(n, k)
  /\ <<n, k>> \in everHeard[said[n][k]]
  /\ verdict' = [verdict EXCEPT ![n][k] = "sucessful"]
  /\ UNCHANGED <<said, heard, everHeard>>

Fail(n, k) ==
  /\ Open(n, k)
  /\ verdict' = [verdict EXCEPT ![n][k] = "error"]
  /\ UNCHANGED <<said, heard, everHeard>>

Restart(m) ==
  /\ heard' = [heard EXCEPT ![m] = [n \in Node |-> <<>>]]
  /\ UNCHANGED <<said, verdict, everHeard>>

ServiceNext ==
  \/ \E n \in Node : Restart(n) \/ \E d \in Node : Say(n, d)
  \/ \E n \in Node : \E k \in DOMAIN said[n] :
       Succeed(n, k) \/ Fail(n, k) \/ \E m \in Node : Show(m, n, k)

ServiceSpec == ServiceInit /\ [][ServiceNext]_serviceVars

=============================================================================
