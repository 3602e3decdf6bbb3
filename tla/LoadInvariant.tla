--------------------------- MODULE LoadInvariant ----------------------------
(***************************************************************************)
(* The inductive invariant behind the safety of LoadGen.                   *)
(***************************************************************************)
EXTENDS LoadGen

\* A request that has not been dispatched has no thread, and an open loop has
\* no workers.
ThreadsInv ==
  /\ pc \in {"start", "clock"} => next = 1
  /\ pc \in {"start", "clock", "dispatch", "spawn"} =>
       \A r \in Requests : r >= next => thread[r] = "none"
  /\ pc = "spawn" => mode = "open" /\ next \in Requests
  /\ mode = "open" => \A r \in Requests : thread[r] \in {"none", "call", "over", "lost"}

\* An open loop has sent what it has dispatched.
OfferInv ==
  mode = "open" => /\ pc \in {"start", "clock", "dispatch", "spawn"} => sent = next - 1 + InHand
                   /\ pc \in {"join", "poller", "finalise", "done"} => sent = Scheduled

\* Joined without a timeout: over for good.
JoinInv ==
  /\ pc = "join" /\ ~timedOut => \A r \in Requests : r < next => Over(r)
  /\ pc \in {"poller", "finalise", "done"} /\ ~timedOut => \A r \in Requests : Over(r)
  /\ pc \in {"finalise", "done"} /\ ~timedOut => poller = "over"

\* Samples are taken in the order of their times.
ClockInv ==
  /\ began <= now /\ scraped <= now
  /\ \A i \in DOMAIN samples : samples[i].at <= scraped
  /\ \A i, j \in DOMAIN samples : i < j => samples[i].at <= samples[j].at

\* The report, beside the counts it was made from.
ReportInv ==
  pc = "done" =>
    /\ report.latencies = report.completed
    /\ report.completed + report.failed <= report.sent
    /\ ~timedOut /\ endpoint = "url" => report.completed + report.failed = report.sent
    /\ mode = "open" => report.sent = Scheduled
    /\ report.waited > 0 => /\ \E i \in 1..(Len(samples) - 1) : Queued(i)
                            /\ report.waited <= samples[Len(samples)].at - samples[1].at

LoadInv ==
  /\ Accounted
  /\ ThreadsInv /\ OfferInv /\ JoinInv /\ ClockInv /\ ReportInv
=============================================================================
