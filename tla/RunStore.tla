------------------------------- MODULE RunStore -------------------------------
(***************************************************************************)
(* What a storage backend promises about the runs it holds, whatever the   *)
(* order in which it touches files: the life of a run goes one way, a run  *)
(* that sync vouched for is whole, and only retention ends that.           *)
(* LocalStore and FtpStore implement it.                                   *)
(***************************************************************************)
EXTENDS RunDirectories

CONSTANT Atomic    \* TRUE iff a run becomes visible as a whole

VARIABLES
  now,        \* the day
  finished,   \* the day in the manifest of a run
  content,    \* what the backend holds of a run
  vouched     \* the runs for which sync returned success

vars == <<now, finished, content, vouched>>

\* Not there yet; being published; complete; what a removal left; removed.
Content == {"new", "part", "whole", "rest", "gone"}

TypeOK ==
  /\ now \in Day
  /\ finished \in [Run -> Day]
  /\ content \in [Run -> Content]
  /\ vouched \subseteq Run

Init ==
  /\ now = 0
  /\ finished = [r \in Run |-> 0]
  /\ content = [r \in Run |-> "new"]
  /\ vouched = {}

Expired(r) == BeforeCutoff(finished[r], now)

Becomes(r, c) == content' = [content EXCEPT ![r] = c]

\* The run is over, and its publication begins.
Stamp(r) ==
  /\ content[r] = "new"
  /\ finished' = [finished EXCEPT ![r] = now]
  /\ UNCHANGED <<now, content, vouched>>

\* A first piece of the run becomes visible.
Appear(r) ==
  /\ ~Atomic
  /\ content[r] = "new"
  /\ Becomes(r, "part")
  /\ UNCHANGED <<now, finished, vouched>>

\* The last piece of the run becomes visible.
Complete(r) ==
  /\ content[r] = IF Atomic THEN "new" ELSE "part"
  /\ Becomes(r, "whole")
  /\ UNCHANGED <<now, finished, vouched>>

\* sync returns success.
Vouch(r) ==
  /\ content[r] = "whole"
  /\ vouched' = vouched \cup {r}
  /\ UNCHANGED <<now, finished, content>>

\* Retention removes a run, or a part of it.
Retire(r) ==
  /\ content[r] \in {"part", "whole", "rest"}
  /\ Expired(r)
  /\ \E c \in {"rest", "gone"} : Becomes(r, c)
  /\ UNCHANGED <<now, finished, vouched>>

Tick ==
  /\ now < MaxDay
  /\ now' = now + 1
  /\ UNCHANGED <<finished, content, vouched>>

Next ==
  \/ Tick
  \/ \E r \in Run : Stamp(r) \/ Appear(r) \/ Complete(r) \/ Vouch(r) \/ Retire(r)

Spec == Init /\ [][Next]_vars

\* A run that sync vouched for is whole as long as it is within the window.
VouchedRunsAreWhole == \A r \in vouched : content[r] = "whole" \/ Expired(r)

\* Why: nothing but Retire takes a vouched run from being whole.
VouchedInv ==
  \A r \in vouched :
    /\ content[r] \in {"whole", "rest", "gone"}
    /\ content[r] = "whole" \/ Expired(r)
===============================================================================
