----------------------------- MODULE DurableCalls -----------------------------
(***************************************************************************)
(* What the Asset Store promises its callers, without files, locks or      *)
(* managers: one durable value, changed only by whole requests applied to  *)
(* its current content, each at most once between its call and its answer, *)
(* and answers that tell the truth about it.                               *)
(***************************************************************************)
EXTENDS StoreData

CONSTANTS Tasks, NoRequest

VARIABLES
    value,     \* the durable Store payload
    status,    \* per task: idle, open (not applied), committed (applied)
    asked,     \* the request of a task's open or committed call
    answer     \* the answer given last

avars == <<value, status, asked, answer>>

AInit ==
    /\ value \in {Empty} \union {Allocate(Empty, u) : u \in Uuids}
    /\ status = [t \in Tasks |-> "idle"]
    /\ asked = [t \in Tasks |-> NoRequest]
    /\ answer = "none"

Open(t) ==
    /\ status[t] = "idle"
    /\ \E r \in Requests : asked' = [asked EXCEPT ![t] = r]
    /\ status' = [status EXCEPT ![t] = "open"]
    /\ answer' = "none"
    /\ UNCHANGED value

\* The single point where a call takes effect, on the value of that moment.
Commit(t) ==
    /\ status[t] = "open"
    /\ Verdict(value, asked[t]) = "changed"
    /\ value' = Apply(value, asked[t])
    /\ status' = [status EXCEPT ![t] = "committed"]
    /\ UNCHANGED <<asked, answer>>

\* What answer a permits to conclude.  "ambiguous" and "cancelled" promise
\* nothing; every other failure means that the request was not applied.
Truthful(t, a) ==
    CASE a = "ok"      -> status[t] = "committed" \/ Verdict(value, asked[t]) = "unchanged"
      [] a = "refused" -> status[t] = "open" /\ Verdict(value, asked[t]) = "refused"
      [] a \in {"not_loaded", "unrecovered", "not_persisted"} -> status[t] = "open"
      [] OTHER         -> a \in {"ambiguous", "cancelled"}

Answer(t, a) ==
    /\ status[t] # "idle" /\ Truthful(t, a)
    /\ status' = [status EXCEPT ![t] = "idle"]
    /\ asked' = [asked EXCEPT ![t] = NoRequest]
    /\ answer' = a
    /\ UNCHANGED value

\* The process ends: every call is forgotten, the value is not.
Forget ==
    /\ status' = [t \in Tasks |-> "idle"]
    /\ asked' = [t \in Tasks |-> NoRequest]
    /\ answer' = "none"
    /\ UNCHANGED value

Answers == {"ok", "refused", "not_loaded", "unrecovered", "not_persisted",
            "ambiguous", "cancelled"}

ANext ==
    \/ \E t \in Tasks : Open(t) \/ Commit(t) \/ \E a \in Answers : Answer(t, a)
    \/ Forget

ASpec == AInit /\ [][ANext]_avars

=============================================================================
