--------------------------- MODULE MCVerification ---------------------------
(***************************************************************************)
(* Instances of Verification for TLC.  Clocks are in 10 MHz, power in W.   *)
(***************************************************************************)
EXTENDS VerificationInvariant

Locks(targets) == [tool |-> "clock", clock |-> 0, caps |-> {}, targets |-> targets]
Capped(clock, caps) == [tool |-> "power", clock |-> clock, caps |-> caps, targets |-> <<>>]

\* Targets out of order, one that the operator's cap keeps it from, one too near the
\* boost clocks, two too near each other, one twice, one it may drift to, one below
\* the floor; none.
ClockRequests == {Locks(<<140, 60>>), Locks(<<60, 175>>), Locks(<<60, 190>>),
                  Locks(<<140, 145>>), Locks(<<60, 60>>), Locks(<<195>>), Locks(<<10>>),
                  Locks(<<>>)}

\* Two caps that bind and one that does not, at a clock amid the boost clocks; a
\* clock well below them; caps that cannot bind, that are out of range, that
\* change nothing.
PowerRequests == {Capped(193, {90, 100, 130}), Capped(180, {90, 100}), Capped(193, {130, 150}),
                  Capped(193, {30, 100}), Capped(193, {170}), Capped(10, {100}), Capped(193, {})}

AllRequests == ClockRequests \cup PowerRequests

MCDraw(clock) == 60 + (3 * clock) \div 10
MCTop(cap) == ((cap - 60) * 10) \div 3

\* A stock card, one with a cap of the operator's that slows it, one with a lock
\* left on it.
MCLeft == {[lock |-> 0, cap |-> 170], [lock |-> 0, cap |-> 110], [lock |-> 140, cap |-> 170]}

AnyCard == [lock: BOOLEAN, cap: BOOLEAN]
Healthy == {[lock |-> TRUE, cap |-> TRUE]}
=============================================================================
