------------------------------ MODULE BlocksGenerator --------------------------
(* The goroutine that generates a block whenever the block time has passed, the  *)
(* factory that creates it and the Close that main calls at the end.  The ticker *)
(* of Go's runtime keeps one tick at most for a slow reader; a select whose two  *)
(* channels are ready takes either of them, at random.                           *)
EXTENDS Integers

CONSTANTS
    BlockTime,         \* the values block-time-in-milliseconds may have
    MinBlockTimeInMs,  \* the smallest one NewBlocksGenerator accepts
    Millisecond,       \* time.Millisecond, in nanoseconds
    MaxDuration        \* the largest time.Duration, 2^63 - 1

ASSUME TimeAssumption ==
    /\ BlockTime \subseteq Nat /\ MinBlockTimeInMs \in Nat \ {0}
    /\ Millisecond \in Nat \ {0} /\ MaxDuration \in Nat

VARIABLES
    generator,   \* what CreateBlocksGenerator returned
    loop,        \* where the goroutine is
    blockTime,   \* BlockTimeInMs of the generator
    tick,        \* the ticks in the channel of the ticker
    cancelled,   \* the context has been cancelled by Close
    sinceTick    \* history: calls of GenerateBlocks since the ticker fired last

generatorVars == <<generator, loop, blockTime, tick, cancelled, sinceTick>>

GeneratorInit ==
    /\ generator = "none"
    /\ loop = "none"
    /\ blockTime = 0
    /\ tick = 0
    /\ cancelled = FALSE
    /\ sinceTick = 0

\* A defect: zero is accepted.
AnyTime(time) == time >= 0

ValidTime(time) == time >= MinBlockTimeInMs

\* A goroutine is started unless the block time is refused.
NewBlocksGenerator(time) ==
    \/ ValidTime(time) /\ generator' = "running" /\ loop' = "starting" /\ blockTime' = time
    \/ ~ValidTime(time) /\ generator' = "refused" /\ UNCHANGED <<loop, blockTime>>

NewDisabledGenerator == generator' = "disabled" /\ UNCHANGED <<loop, blockTime>>

\* CreateBlocksGenerator: one of the two.
Create(auto, time) ==
    /\ generator = "none"
    /\ \/ auto /\ NewBlocksGenerator(time)
       \/ ~auto /\ NewDisabledGenerator
    /\ UNCHANGED <<tick, cancelled, sinceTick>>

\* time.Duration(BlockTimeInMs) * time.Millisecond, in 64 bits with a sign.
Interval(time) ==
    LET n == (time * Millisecond) % (2 * (MaxDuration + 1)) IN
        IF n > MaxDuration THEN n - 2 * (MaxDuration + 1) ELSE n

\* The goroutine begins: time.NewTicker accepts no interval but a positive one.
StartTicker ==
    /\ loop = "starting"
    /\ Interval(blockTime) > 0
    /\ loop' = "select"
    /\ UNCHANGED <<generator, blockTime, tick, cancelled, sinceTick>>

\* It panics otherwise, in a goroutine that does not recover.
Panic ==
    /\ loop = "starting"
    /\ Interval(blockTime) <= 0
    /\ loop' = "panicked"
    /\ UNCHANGED <<generator, blockTime, tick, cancelled, sinceTick>>

\* The ticker fires: its channel holds one tick, others are dropped.  Nobody stops
\* it, not even after the goroutine has ended.
Tick ==
    /\ loop \in {"select", "calling", "ended"}
    /\ tick' = 1
    /\ sinceTick' = 0
    /\ UNCHANGED <<generator, loop, blockTime, cancelled>>

\* The select takes the tick and calls simulator.GenerateBlocks(1).
TakeTick ==
    /\ loop = "select"
    /\ tick > 0
    /\ tick' = tick - 1
    /\ loop' = "calling"
    /\ sinceTick' = sinceTick + 1
    /\ UNCHANGED <<generator, blockTime, cancelled>>

GenerateSucceeds ==
    /\ loop = "calling"
    /\ loop' = "select"
    /\ UNCHANGED <<generator, blockTime, tick, cancelled, sinceTick>>

\* A defect: an error ends the goroutine.
GiveUpOnError ==
    /\ loop = "calling"
    /\ loop' = "ended"
    /\ UNCHANGED <<generator, blockTime, tick, cancelled, sinceTick>>

\* A defect: a block that failed is generated again at once.
RetryAtOnce ==
    /\ loop = "calling"
    /\ sinceTick' = sinceTick + 1
    /\ UNCHANGED <<generator, loop, blockTime, tick, cancelled>>

\* An error is logged, and the loop goes on.
GenerateFails ==
    /\ loop = "calling"
    /\ loop' = "select"
    /\ UNCHANGED <<generator, blockTime, tick, cancelled, sinceTick>>

\* A defect: a break that leaves the select, and not the loop around it.
BreakOnDone == loop = "select" /\ cancelled /\ UNCHANGED generatorVars

\* The select finds the context done.
TakeDone ==
    /\ loop = "select"
    /\ cancelled
    /\ loop' = "ended"
    /\ UNCHANGED <<generator, blockTime, tick, cancelled, sinceTick>>

\* Close cancels the context and returns; that of the disabled generator is empty.
Close ==
    /\ generator \in {"running", "disabled"}
    /\ cancelled' = (generator = "running")
    /\ UNCHANGED <<generator, loop, blockTime, tick, sinceTick>>

\* The steps the goroutine and the ticker take on their own.
GeneratorStep ==
    \/ StartTicker
    \/ Tick
    \/ TakeTick
    \/ GenerateSucceeds
    \/ GenerateFails
    \/ TakeDone

--------------------------------------------------------------------------------
\* A goroutine exists only for a generator that runs.
GeneratorTypeOK ==
    /\ generator \in {"none", "disabled", "running", "refused"}
    /\ loop \in {"none", "starting", "select", "calling", "ended", "panicked"}
    /\ loop # "none" <=> generator = "running"
    /\ blockTime \in BlockTime \cup {0}
    /\ tick \in 0 .. 1
    /\ cancelled \in BOOLEAN
    /\ sinceTick \in Nat

\* After a call that took longer than the block time the generator does not make
\* up for the blocks it missed: at most one call for each firing of the ticker.
NoCatchUp == sinceTick <= 1

\* A block time that NewBlocksGenerator accepts stops the process only if it is too
\* long for a time.Duration, which is not checked.
PanicsOnOverflowOnly ==
    loop = "panicked" => blockTime * Millisecond > MaxDuration

===============================================================================
