-------------------------------- MODULE Retry --------------------------------
(***************************************************************************)
(* The clock of a chat message: when rbl_logic attempts to deliver it and  *)
(* when it gives up.  One node, since nodes meet in the confirmation only, *)
(* which comes at any time or never (Reliable says what is confirmed), and *)
(* the destination can be reached or not, as the routes of the moment have *)
(* it.  The main loop takes a turn at least every Poll.                    *)
(***************************************************************************)
EXTENDS Clock

CONSTANTS
  RTimeout, RAttempts,  \* options.rtimeout, options.rattempts
  Poll,                 \* how long a turn of the loop may take
  MaxTime               \* bound on the time

ASSUME RetryAssumption ==
  /\ RTimeout \in Nat /\ RAttempts \in Nat /\ Poll \in Nat /\ MaxTime \in Nat
  /\ Poll <= RTimeout   \* 20 ms against 1000

VARIABLES
  now,                  \* the true time
  sleeping,             \* options.sleeping
  pending, sendtime, attempts,  \* the static variables of reliable.c
  turned,               \* history: the last turn of the loop,
  said,                 \*   when the message was typed,
  woke,                 \*   when the node last woke up,
  tried,                \*   the last attempt for the message, or Never
  rested                \*   the node has slept on the message

message == <<pending, sendtime, attempts, said, tried, rested>>
vars == <<now, sleeping, turned, woke, message>>

Never == -1

(* sys_getMilli *)
Reading == Wrap(now)

Init ==
  /\ now = 0
  /\ sleeping = FALSE
  /\ pending = FALSE /\ sendtime = 0 /\ attempts = 0
  /\ turned = 0 /\ said = 0 /\ woke = 0 /\ tried = Never /\ rested = FALSE

-----------------------------------------------------------------------------
Tick ==
  /\ now < MaxTime /\ now < turned + Poll
  /\ now' = now + 1
  /\ UNCHANGED <<sleeping, turned, woke, message>>

(* rbl_sendmessage; a node that sleeps takes messages all the same.        *)
Say ==
  /\ ~ pending
  /\ pending' = TRUE /\ sendtime' = Reading /\ attempts' = RAttempts
  /\ said' = now /\ tried' = Never /\ rested' = sleeping
  /\ UNCHANGED <<now, sleeping, turned, woke>>

(* A confirmation of the message: rbl_readmessage.                         *)
Confirm ==
  /\ pending /\ ~ sleeping
  /\ pending' = FALSE
  /\ UNCHANGED <<now, sleeping, turned, woke, sendtime, attempts, said, tried, rested>>

-----------------------------------------------------------------------------
Due == ~ sleeping /\ pending /\ Reading >= sendtime

(* The message is given up: no attempt is left, or there is no route.      *)
GiveUp ==
  /\ Due
  /\ attempts' = attempts - 1 /\ pending' = FALSE
  /\ UNCHANGED <<sendtime, tried>>

\* Seeded fault: the next attempt is timed from this one.
NextTryFromNow == Sum(Reading, RTimeout)

\* Seeded fault: the next attempt is not timed at all.
NextTryAtOnce == sendtime

NextTry == Sum(sendtime, RTimeout)

Attempt ==
  /\ Due /\ attempts > 0
  /\ attempts' = attempts - 1 /\ sendtime' = NextTry /\ tried' = now
  /\ UNCHANGED pending

(* rbl_logic, in every turn of the main loop.                              *)
Turn ==
  /\ \/ GiveUp
     \/ Attempt
     \/ ~ Due /\ UNCHANGED <<pending, sendtime, attempts, tried>>
  /\ turned' = now
  /\ UNCHANGED <<now, sleeping, woke, said, rested>>

-----------------------------------------------------------------------------
(* /sleep and /wake leave the message alone, sendtime included.            *)
Sleep ==
  /\ sleeping' = TRUE /\ rested' = TRUE
  /\ UNCHANGED <<now, turned, woke, pending, sendtime, attempts, said, tried>>

Wake ==
  /\ sleeping' = FALSE /\ woke' = IF sleeping THEN now ELSE woke
  /\ UNCHANGED <<now, turned, message>>

Next == Tick \/ Say \/ Confirm \/ Turn \/ Sleep \/ Wake

Spec == Init /\ [][Next]_vars

-----------------------------------------------------------------------------
Later(s, t) == IF s > t THEN s ELSE t

(* Whoever typed a message, on a node that is awake, has an answer one     *)
(* rtimeout per attempt later, whatever sleep came between: the attempts   *)
(* that were slept through are made up for, not made later.                *)
AnswerInTime ==
  pending /\ ~ sleeping => now <= Later(said, woke) + RAttempts * RTimeout + Poll

(* Attempts are rtimeout apart, but for the turn of the loop that one may  *)
(* be late, unless the node has slept on the message: then those that are  *)
(* overdue follow each other in successive turns.                          *)
AttemptsSpaced ==
  [][ pending /\ pending' /\ attempts' < attempts /\ tried # Never /\ ~ rested
        => now >= tried + RTimeout - Poll ]_vars

-----------------------------------------------------------------------------
(* Why this holds, as long as no int overflows.                            *)
NoWrap == MaxTime + RTimeout <= IntMax

TypeOK ==
  /\ now \in 0 .. MaxTime /\ turned \in 0 .. now /\ now <= turned + Poll
  /\ sleeping \in BOOLEAN /\ pending \in BOOLEAN /\ rested \in BOOLEAN
  /\ said \in 0 .. now /\ woke \in 0 .. now /\ tried \in {Never} \cup 0 .. now
  /\ sendtime \in Nat /\ attempts \in Int

(* Time that is left: the attempts not yet made fit between the next one,  *)
(* or the last turn, and the answer.                                       *)
AttemptsInv ==
  pending =>
    /\ attempts \in 0 .. RAttempts
    /\ sendtime <= now + RTimeout
    /\ sendtime + attempts * RTimeout = said + RAttempts * RTimeout
    /\ ~ sleeping =>
         turned + attempts * RTimeout <= Later(said, woke) + RAttempts * RTimeout
    /\ ~ rested =>
         /\ ~ sleeping /\ turned <= sendtime
         /\ tried # Never => sendtime >= tried + RTimeout - Poll

RetryInv == TypeOK /\ AttemptsInv

=============================================================================
