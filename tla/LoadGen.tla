------------------------------ MODULE LoadGen -------------------------------
(***************************************************************************)
(* LoadGenerator.run: the dispatcher on the calling thread, one thread for *)
(* every request of an open loop or for every worker of a closed one, and  *)
(* a thread that polls the server's queue.  The server may answer in any   *)
(* order, fail, or never answer; joins have a timeout.                     *)
(*                                                                         *)
(*   run:  start -> clock -> dispatch (<-> spawn) -> join -> poller ->     *)
(*         finalise -> done, or raised from anywhere                       *)
(***************************************************************************)
EXTENDS FiniteSets, FiniteSetsExt, Integers, Sequences

CONSTANTS Arrival,    \* when each request of the schedule is due
          Modes,      \* "open", "closed"
          Endpoints,  \* "url", or "bare" of a scheme
          Duration,   \* of a closed loop
          Tolerance,  \* lateness up to which the schedule was achieved
          MaxNow,     \* bound on time
          MaxSent     \* bound on the requests of a closed loop

Requests == DOMAIN Arrival
Scheduled == Len(Arrival)

ASSUME LoadAssumption ==
  /\ Arrival \in Seq(Nat)
  /\ Modes \subseteq {"open", "closed"} /\ Endpoints \subseteq {"url", "bare"}
  /\ {Duration, Tolerance, MaxNow, MaxSent} \subseteq Nat

VARIABLES mode,
          endpoint,   \* what was given for the server's
          now,        \* time.monotonic()
          pc,         \* of run()
          next,       \* the request dispatched, or joined, next
          began,      \* t_start
          thread,     \* where each request's thread is
          poller,     \* where the poller is
          scraped,    \* when it began its scrape
          stop,       \* the stop event
          sent, completed, failed,
          latencies,  \* how many were recorded
          late,       \* arrivals fired beyond the tolerance
          samples,    \* when, and was a request waiting
          timedOut,   \* a join gave up
          report

runVars == <<mode, endpoint, pc, next, began, late, stop, timedOut, report>>
countVars == <<sent, completed, failed, latencies>>
pollVars == <<poller, scraped, samples>>
vars == <<now, runVars, countVars, pollVars, thread>>

NoReport == [sent |-> 0, completed |-> 0, failed |-> 0, latencies |-> 0, achieved |-> FALSE,
             waited |-> 0, elapsed |-> 0, saturated |-> FALSE]

TypeOK ==
  /\ mode \in Modes /\ endpoint \in Endpoints
  /\ now \in 0..MaxNow
  /\ pc \in {"start", "clock", "dispatch", "spawn", "join", "poller", "finalise", "done", "raised"}
  /\ next \in 1..(Scheduled + 1)
  /\ {began, scraped} \subseteq 0..MaxNow
  /\ thread \in [Requests -> {"none", "test", "send", "call", "over", "lost"}]
  /\ poller \in {"none", "test", "scrape", "wait", "over"}
  /\ stop \in BOOLEAN /\ timedOut \in BOOLEAN
  /\ {sent, completed, failed, latencies, late} \subseteq Nat
  /\ samples \in Seq([at : 0..MaxNow, waiting : BOOLEAN])
  /\ report \in [sent : Nat, completed : Nat, failed : Nat, latencies : Nat, achieved : BOOLEAN,
                 waited : Nat, elapsed : Nat, saturated : BOOLEAN]

Init == /\ mode \in Modes /\ endpoint \in Endpoints
        /\ now = 0 /\ pc = "start" /\ next = 1 /\ began = 0
        /\ thread = [r \in Requests |-> "none"]
        /\ poller = "none" /\ scraped = 0 /\ stop = FALSE
        /\ sent = 0 /\ completed = 0 /\ failed = 0 /\ latencies = 0 /\ late = 0
        /\ samples = <<>> /\ timedOut = FALSE
        /\ report = NoReport

Goto(l) == pc' = l
Returned == pc \in {"done", "raised"}

-----------------------------------------------------------------------------
(* run() *)

StartPoller == /\ pc = "start" /\ Goto("clock")
               /\ poller' = "test"
               /\ UNCHANGED <<now, mode, endpoint, next, began, late, stop, timedOut, report,
                              countVars, scraped, samples, thread>>

StartClock == /\ pc = "clock" /\ Goto("dispatch")
              /\ began' = now
              /\ UNCHANGED <<now, mode, endpoint, next, late, stop, timedOut, report, countVars,
                             pollVars, thread>>

\* Mutant: a request is sent once the one before it was answered.
DueAfterAnswer(r) == now >= began + Arrival[r] /\ (r > 1 => thread[r - 1] \in {"over", "lost"})
Due(r) == now >= began + Arrival[r]

\* An arrival of an open loop fires, on time or late, whatever the server does.
Dispatch ==
  /\ pc = "dispatch" /\ mode = "open" /\ next \in Requests
  /\ Due(next)
  /\ sent' = sent + 1
  /\ late' = late + IF now > began + Arrival[next] + Tolerance THEN 1 ELSE 0
  /\ Goto("spawn")
  /\ UNCHANGED <<now, mode, endpoint, next, began, stop, timedOut, report, completed, failed,
                 latencies, pollVars, thread>>

Spawn ==
  /\ pc = "spawn" /\ Goto("dispatch")
  /\ thread' = [thread EXCEPT ![next] = "call"]
  /\ next' = next + 1
  /\ UNCHANGED <<now, mode, endpoint, began, late, stop, timedOut, report, countVars, pollVars>>

StartWorker ==
  /\ pc = "dispatch" /\ mode = "closed" /\ next \in Requests
  /\ thread' = [thread EXCEPT ![next] = "test"]
  /\ next' = next + 1
  /\ UNCHANGED <<now, mode, endpoint, pc, began, late, stop, timedOut, report, countVars, pollVars>>

Dispatched ==
  /\ pc = "dispatch" /\ next \notin Requests
  /\ next' = 1 /\ Goto("join")
  /\ UNCHANGED <<now, mode, endpoint, began, late, stop, timedOut, report, countVars, pollVars,
                 thread>>

\* Mutant: join() without a timeout.
GivesUpNever == FALSE
GivesUp == TRUE

\* Mutant: a thread that is still in its call counts as finished.
OverOrCalling(r) == thread[r] \in {"call", "over", "lost"}
Over(r) == thread[r] \in {"over", "lost"}

Join ==
  /\ pc = "join" /\ next \in Requests
  /\ \/ Over(next) /\ UNCHANGED timedOut
     \/ ~Over(next) /\ GivesUp /\ timedOut' = TRUE
  /\ next' = next + 1
  /\ UNCHANGED <<now, mode, endpoint, pc, began, late, stop, report, countVars, pollVars, thread>>

Joined ==
  /\ pc = "join" /\ next \notin Requests
  /\ stop' = TRUE /\ Goto("poller")
  /\ UNCHANGED <<now, mode, endpoint, next, began, late, timedOut, report, countVars, pollVars,
                 thread>>

JoinPoller ==
  /\ pc = "poller" /\ Goto("finalise")
  /\ \/ poller = "over" /\ UNCHANGED timedOut
     \/ poller # "over" /\ timedOut' = TRUE
  /\ UNCHANGED <<now, mode, endpoint, next, began, late, stop, report, countVars, pollVars, thread>>

Queued(i) == samples[i].waiting /\ samples[i + 1].waiting

Interval(i) == samples[i + 1].at - samples[i].at

\* The time between samples that both saw a request waiting.
Waited == MapThenSumSet(Interval, {i \in 1..(Len(samples) - 1) : Queued(i)})

\* _finalise, from one look at the counts and a copy of the latencies.
Finalise ==
  /\ pc = "finalise" /\ Goto("done")
  /\ report' = [sent |-> sent, completed |-> completed, failed |-> failed,
                latencies |-> latencies, achieved |-> late = 0, waited |-> Waited,
                elapsed |-> now - began,
                saturated |-> \E i \in DOMAIN samples : samples[i].waiting]
  /\ UNCHANGED <<now, mode, endpoint, next, began, late, stop, timedOut, countVars, pollVars,
                 thread>>

\* Ctrl-C, or a thread that cannot be started: nothing is stopped.
Raise == /\ ~Returned /\ Goto("raised")
         /\ UNCHANGED <<now, mode, endpoint, next, began, late, stop, timedOut, report, countVars,
                        pollVars, thread>>

-----------------------------------------------------------------------------
(* The threads *)

threadFixed == <<now, runVars, pollVars>>

\* A worker of a closed loop looks at the deadline and the stop event ...
Test(r) ==
  /\ thread[r] = "test"
  /\ thread' = [thread EXCEPT ![r] =
                  IF now < began + Duration /\ ~stop THEN "send" ELSE "over"]
  /\ UNCHANGED <<threadFixed, countVars>>

\* ... and then sends a request.
Send(r) ==
  /\ thread[r] = "send" /\ sent < MaxSent
  /\ sent' = sent + 1
  /\ thread' = [thread EXCEPT ![r] = "call"]
  /\ UNCHANGED <<threadFixed, completed, failed, latencies>>

AfterCall == IF mode = "closed" THEN "test" ELSE "over"

\* Mutant: a failed request is recorded with its latency.
FailureRecorded == failed' = failed + 1 /\ latencies' = latencies + 1
Failure == failed' = failed + 1 /\ UNCHANGED latencies

\* _fire, after the call: one update under the lock.  The request is put together
\* outside its try statement; without a scheme in the endpoint that raises, and
\* the thread ends with a request that was sent and is counted nowhere.
Fire(r) ==
  /\ thread[r] = "call"
  /\ \/ /\ endpoint = "url"
        /\ \/ completed' = completed + 1 /\ latencies' = latencies + 1 /\ UNCHANGED failed
           \/ Failure /\ UNCHANGED completed
        /\ thread' = [thread EXCEPT ![r] = AfterCall]
     \/ /\ endpoint = "bare"
        /\ thread' = [thread EXCEPT ![r] = "lost"]
        /\ UNCHANGED <<completed, failed, latencies>>
  /\ UNCHANGED <<threadFixed, sent>>

PollerTest ==
  /\ poller = "test"
  /\ poller' = IF stop THEN "over" ELSE "scrape"
  /\ scraped' = now
  /\ UNCHANGED <<now, runVars, countVars, samples, thread>>

\* The time of a sample is from before the scrape; a failed scrape leaves none.
Scrape ==
  /\ poller = "scrape"
  /\ poller' = "wait"
  /\ \/ /\ endpoint = "url"
        /\ \E w \in BOOLEAN : samples' = Append(samples, [at |-> scraped, waiting |-> w])
     \/ UNCHANGED samples
  /\ UNCHANGED <<now, runVars, countVars, scraped, thread>>

PollerWait ==
  /\ poller = "wait" /\ (stop \/ now > scraped)
  /\ poller' = "test"
  /\ UNCHANGED <<now, runVars, countVars, scraped, samples, thread>>

\* The bound leaves room for the schedule after the clock was started.
Tick == /\ now < IF pc \in {"start", "clock"} THEN MaxNow - Duration ELSE MaxNow
        /\ now' = now + 1
        /\ UNCHANGED <<runVars, countVars, pollVars, thread>>

-----------------------------------------------------------------------------
Run == StartPoller \/ StartClock \/ Dispatch \/ Spawn \/ StartWorker \/ Dispatched \/ Join
         \/ Joined \/ JoinPoller \/ Finalise

Poll == PollerTest \/ Scrape \/ PollerWait

Next == \/ Run \/ Raise \/ Poll \/ Tick
        \/ \E r \in Requests : Test(r) \/ Send(r) \/ Fire(r)

Spec == Init /\ [][Next]_vars

\* The caller runs and time passes.  Nothing is assumed of the server, and so
\* nothing of the threads that wait for it.
FairSpec == Spec /\ WF_vars(Run) /\ WF_vars(Tick)

-----------------------------------------------------------------------------
InFlight == {r \in Requests : thread[r] = "call"}

\* Whose thread has died with its request.
Lost == {r \in Requests : thread[r] = "lost"}

\* Counted as sent and not yet handed to a thread.
InHand == IF pc = "spawn" THEN 1 ELSE 0

\* Every request sent is completed, failed or on its way, exactly once, or was lost
\* with its thread, unless run() was left between counting one and starting it.
\* None is lost if the endpoint is a URL; otherwise none is ever counted as failed.
\* Only completed ones have a latency.
Accounted ==
  /\ TypeOK
  /\ pc # "raised" =>
       sent = completed + failed + Cardinality(InFlight) + Cardinality(Lost) + InHand
  /\ IF endpoint = "url" THEN Lost = {} ELSE completed + failed = 0
  /\ latencies = completed

\* What a report says was sent, completed and failed agree; unless a join gave
\* up, run()'s threads are over and, if the endpoint is a URL, nothing is missing;
\* an open loop sent its whole schedule; and the time counted as spent waiting is
\* no longer than from the first sample to the last, with no queue reported that
\* no two samples saw.
ReportAccounts ==
  pc = "done" =>
    /\ report.latencies = report.completed
    /\ report.completed + report.failed <= report.sent
    /\ ~timedOut => /\ endpoint = "url" => report.completed + report.failed = report.sent
                    /\ poller = "over" /\ \A r \in Requests : Over(r)
    /\ mode = "open" => report.sent = Scheduled
    /\ report.waited > 0 =>
         /\ Cardinality({i \in DOMAIN samples : samples[i].waiting}) > 1
         /\ report.waited <= samples[Len(samples)].at - samples[1].at

\* No thread is alive when the caller goes on, however run() was left.
NoThreadLeft ==
  Returned => poller \in {"none", "over"} /\ \A r \in Requests : thread[r] = "none" \/ Over(r)

\* An open loop offers its schedule to a server that never answers.
OfferedRegardless ==
  (mode = "open" /\ pc = "dispatch") ~> (sent = Scheduled \/ pc = "raised")

\* run() ends, whatever the server does.
RunEnds == <>Returned
=============================================================================
