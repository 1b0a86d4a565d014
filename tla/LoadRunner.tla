----------------------------- MODULE LoadRunner -----------------------------
(* The load generator (cmd/vcs-loadbot, internal/loadgen): a runner that    *)
(* takes commands one at a time, joins bots a few at once, holds a          *)
(* transmission while it counts, and tells what it did and what it lost.    *)
(*                                                                          *)
(* The numbers it reports come from different goroutines: the joins, the    *)
(* ticker of the progress lines, and of every bot the reader of its stream  *)
(* and its pinger, each of which may find the connection dead (fireDead).   *)
(* Left out: the talker, the voice itself and its ledgers, the rate         *)
(* limiter, resynchronizations, and what the lines hold beside counts. A    *)
(* hold without a listener, a deadline missed and a line that cannot be     *)
(* written end the run as quit does.                                        *)
EXTENDS Integers, FiniteSets

CONSTANTS
  MaxBots,      \* bound: indices tried
  MaxInFlight,  \* joins at once
  MaxHolds,     \* bound: holds
  MaxDeaths     \* bound: times a connection is found dead

LoadAssumption == MaxBots \in Nat

Bots == 0 .. MaxBots - 1
Sources == {"stream", "ping"}

VARIABLES
  phase,    \* Runner.phase
  cmd,      \* the command that runs, how far it is, and what it was asked for
  ctx,      \* Serve's context: "live" or "done"
  join,     \* of each index: how far its join is
  bots,     \* Runner.bots
  nextIdx,
  tally,    \* joinTally: joined, failed
  ticker,   \* the goroutine of startProgress
  life,     \* of each control bot: "none", "open", "closing", "ended", "closed"
  dead,     \* ControlBot.dead
  finds,    \* of each bot and source: how far its fireDead is
  deadTotal, deadSinceStep, deadInHold,
  noted,    \* what deadSinceStep was when a hold began to add up
  reported, inHold,  \* history: deaths in reports; those while phase was hold
  counted,  \* history: how often each bot's death was counted
  wrong,    \* history: the promises broken
  holds

control == <<phase, cmd, ctx>>
joins == <<join, bots, nextIdx, tally, ticker>>
conns == <<life, dead, finds>>
totals == <<deadTotal, deadSinceStep, deadInHold, noted, reported, inHold, counted>>
vars == <<control, joins, conns, totals, wrong, holds>>

Idle == [at |-> "read", first |-> 0, want |-> 0, had |-> 0, launched |-> 0]
At(x) == cmd.at = x
Goes(x) == cmd' = [cmd EXCEPT !.at = x]
NoTally == [joined |-> 0, failed |-> 0]
Breaks(what, broken) == wrong' = IF broken THEN wrong \cup {what} ELSE wrong

Init ==
  /\ phase = "idle" /\ cmd = Idle /\ ctx = "live"
  /\ join = [i \in Bots |-> "none"] /\ bots = {} /\ nextIdx = 0
  /\ tally = NoTally /\ ticker = "off"
  /\ life = [i \in Bots |-> "none"] /\ dead = {}
  /\ finds = [i \in Bots |-> [s \in Sources |-> "none"]]
  /\ deadTotal = 0 /\ deadSinceStep = 0 /\ deadInHold = 0 /\ noted = 0
  /\ reported = 0 /\ inHold = 0 /\ counted = [i \in Bots |-> 0]
  /\ wrong = {} /\ holds = 0

(***************************************************************************)
(* Commands (Serve)                                                        *)
(***************************************************************************)

Asked(at, n) ==
  [at |-> at, first |-> nextIdx, want |-> n, had |-> Cardinality(bots), launched |-> 0]

(* set_n, to a number above the one at hand. The first bot of all joins     *)
(* before the others.                                                       *)
SetN(n) ==
  /\ At("read") /\ ctx = "live"
  /\ n > Cardinality(bots) /\ nextIdx + n - Cardinality(bots) <= MaxBots
  /\ phase' = "ramp" /\ tally' = NoTally
  /\ cmd' = Asked(IF bots = {} THEN "first" ELSE "ramp", n - Cardinality(bots))
  /\ IF bots = {}
       THEN join' = [join EXCEPT ![0] = "control"] /\ UNCHANGED ticker
       ELSE ticker' = "on" /\ UNCHANGED join
  /\ UNCHANGED <<ctx, bots, nextIdx, conns, totals, wrong, holds>>

Burst(add) ==
  /\ At("read") /\ ctx = "live"
  /\ bots # {} /\ nextIdx + add <= MaxBots
  /\ phase' = "burst" /\ tally' = NoTally
  /\ cmd' = Asked("ramp", add)
  /\ ticker' = "on"
  /\ UNCHANGED <<ctx, join, bots, nextIdx, conns, totals, wrong, holds>>

(* A signal ends the context, at any time that anybody looks at it.        *)
Cancel ==
  /\ ctx = "live" /\ ~At("shutdown") /\ ~At("gone")
  /\ ctx' = "done"
  /\ UNCHANGED <<phase, cmd, joins, conns, totals, wrong, holds>>

(* quit, the end of the input, a context that is done, an error.           *)
Quit ==
  /\ At("read") \/ At("hold")
  /\ Goes("shutdown")
  /\ phase' = IF At("hold") THEN "settle" ELSE phase
  /\ UNCHANGED <<ctx, joins, conns, totals, wrong, holds>>

(***************************************************************************)
(* Joining (rampJoin, joinOne)                                             *)
(***************************************************************************)

InFlight == {i \in Bots : join[i] \in {"control", "voice", "undo"}}
Ended == {"slot", "failed", "dropped"}

(* A goroutine for the next index, while there is room for one.            *)
Launch ==
  LET i == cmd.first + cmd.launched IN
  /\ At("ramp") /\ ctx = "live"
  /\ cmd.launched < cmd.want /\ Cardinality(InFlight) < MaxInFlight
  /\ cmd' = [cmd EXCEPT !.launched = @ + 1]
  /\ join' = [join EXCEPT ![i] = "control"]
  /\ Breaks("a name twice", join[i] # "none")
  /\ UNCHANGED <<phase, ctx, bots, nextIdx, tally, ticker, conns, totals, holds>>

(* Joiner.Join: from here on the reader and the pinger of the bot run.     *)
Connects(i) ==
  /\ join[i] = "control" /\ life[i] = "none"
  /\ join' = [join EXCEPT ![i] = "voice"]
  /\ life' = [life EXCEPT ![i] = "open"]
  /\ UNCHANGED <<control, bots, nextIdx, tally, ticker, dead, finds, totals, wrong, holds>>

\* A join that fails once the context is done is not counted.
Fails(i) ==
  IF ctx = "done" THEN join' = [join EXCEPT ![i] = "dropped"] /\ UNCHANGED tally
  ELSE join' = [join EXCEPT ![i] = "failed"] /\ tally' = [tally EXCEPT !.failed = @ + 1]

Refused(i) ==
  /\ join[i] = "control"
  /\ Fails(i)
  /\ UNCHANGED <<control, bots, nextIdx, ticker, conns, totals, wrong, holds>>

(* The radio is set, the voice connection dialled and greeted.             *)
Joins(i) ==
  /\ join[i] = "voice"
  /\ join' = [join EXCEPT ![i] = "slot"]
  /\ tally' = [tally EXCEPT !.joined = @ + 1]
  /\ UNCHANGED <<control, bots, nextIdx, ticker, conns, totals, wrong, holds>>

\* Mutant: what is joined half-way is left open.
LeavesOpen(i) == Fails(i)
ClosesFirst(i) == join' = [join EXCEPT ![i] = "undo"] /\ UNCHANGED tally
VoiceFails(i) ==
  /\ join[i] = "voice"
  /\ ClosesFirst(i)
  /\ UNCHANGED <<control, bots, nextIdx, ticker, conns, totals, wrong, holds>>
Undone(i) ==
  /\ join[i] = "undo" /\ life[i] = "closed"
  /\ Fails(i)
  /\ UNCHANGED <<control, bots, nextIdx, ticker, conns, totals, wrong, holds>>

(* setN goes on with the others; without its first bot the run ends.       *)
FirstJoined ==
  /\ At("first") /\ join[0] \in Ended
  /\ IF join[0] = "slot"
       THEN /\ cmd' = [at |-> "ramp", first |-> 1, want |-> cmd.want - 1,
                       had |-> cmd.had, launched |-> cmd.launched]
            /\ join' = [join EXCEPT ![0] = "bot"]
            /\ bots' = {0} /\ nextIdx' = 1 /\ ticker' = "on"
            /\ UNCHANGED phase
       ELSE /\ phase' = "settle" /\ Goes("shutdown")
            /\ UNCHANGED <<join, bots, nextIdx, ticker>>
  /\ UNCHANGED <<ctx, tally, conns, totals, wrong, holds>>

Slots == {i \in Bots : join[i] = "slot"}
\* Mutant: what was joined before a cancellation is forgotten.
SlotsIfLive == IF ctx = "live" THEN Slots ELSE {}
Kept == Slots
\* Mutant: the indices of joins that failed are given again.
AfterTheBots == Cardinality(bots \cup Slots)
AfterTheSlots == cmd.first + cmd.want

(* wg.Wait, once all are launched or the context is done; then the report, *)
(* which is dropped if it is.                                              *)
AllJoined ==
  /\ At("ramp")
  /\ cmd.launched = cmd.want \/ ctx = "done"
  /\ InFlight = {}
  /\ bots' = bots \cup Kept
  /\ nextIdx' = AfterTheSlots
  /\ join' = [i \in Bots |-> IF join[i] = "slot" THEN "bot" ELSE join[i]]
  /\ Goes(IF ctx = "live" THEN "stop" ELSE "abort")
  /\ Breaks("a join uncounted", ctx = "live" /\
       ~(/\ cmd.had + tally.joined = Cardinality(bots')
         /\ tally.joined + tally.failed = cmd.want + (IF cmd.had = 0 THEN 1 ELSE 0)))
  /\ UNCHANGED <<phase, ctx, tally, ticker, conns, totals, holds>>

(***************************************************************************)
(* Progress lines (startProgress)                                          *)
(***************************************************************************)

Tick ==
  /\ ticker = "on" /\ ticker' = "writes"
  /\ UNCHANGED <<control, join, bots, nextIdx, tally, conns, totals, wrong, holds>>
Writes ==
  /\ ticker \in {"writes", "late"}
  /\ ticker' = IF ticker = "writes" THEN "on" ELSE "off"
  /\ Breaks("progress after the report", cmd.at \notin {"ramp", "stop", "abort", "write"})
  /\ UNCHANGED <<control, join, bots, nextIdx, tally, conns, totals, holds>>

\* Mutant: a line on its way is not waited for.
NotAwaited == TRUE
Awaited == ticker = "on"
StopProgress ==
  /\ At("stop") \/ At("abort")
  /\ Awaited
  /\ ticker' = IF ticker = "on" THEN "off" ELSE "late"
  /\ cmd' = [Idle EXCEPT !.at = IF At("stop") THEN "write" ELSE "shutdown"]
  /\ tally' = NoTally
  /\ phase' = IF At("stop") \/ phase = "burst" THEN "settle" ELSE phase
  /\ UNCHANGED <<ctx, join, bots, nextIdx, conns, totals, wrong, holds>>
WritesReport ==
  /\ At("write")
  /\ cmd' = Idle
  /\ UNCHANGED <<phase, ctx, joins, conns, totals, wrong, holds>>

(***************************************************************************)
(* A hold                                                                  *)
(***************************************************************************)

\* Mutant: the deaths of the hold before are not forgotten.
StillThere == deadInHold
FromNothing == 0

HoldResets ==
  /\ At("read") /\ ctx = "live" /\ Cardinality(bots) > 1 /\ holds < MaxHolds
  /\ holds' = holds + 1
  /\ deadInHold' = FromNothing
  /\ Goes("holds")
  /\ UNCHANGED <<phase, ctx, joins, conns, deadTotal, deadSinceStep, noted, reported,
                 inHold, counted, wrong>>
HoldBegins ==
  /\ At("holds")
  /\ phase' = "hold" /\ Goes("hold")
  /\ inHold' = 0
  /\ UNCHANGED <<ctx, joins, conns, deadTotal, deadSinceStep, deadInHold, noted, reported,
                 counted, wrong, holds>>

(* The frames are out: the bots' numbers are added up, bot by bot.         *)
HoldAdds ==
  /\ At("hold") /\ Goes("adds")
  /\ noted' = deadSinceStep
  /\ UNCHANGED <<phase, ctx, joins, conns, deadTotal, deadSinceStep, deadInHold, reported,
                 inHold, counted, wrong, holds>>

\* Mutant: the deaths were read with the other numbers.
ReadEarlier == noted
ReadNow == deadSinceStep
HoldReports ==
  /\ At("adds") /\ Goes("settles")
  /\ reported' = reported + ReadNow
  /\ deadSinceStep' = 0 /\ noted' = 0
  /\ Breaks("a death in hold", deadInHold # inHold \/ deadInHold > ReadNow)
  /\ UNCHANGED <<phase, ctx, joins, conns, deadTotal, deadInHold, inHold, counted, holds>>
HoldEnds ==
  /\ At("settles")
  /\ phase' = "settle" /\ cmd' = Idle
  /\ UNCHANGED <<ctx, joins, conns, totals, wrong, holds>>

(***************************************************************************)
(* Deaths (receive, the pinger, fireDead, onDead)                          *)
(***************************************************************************)

Found == {f \in Bots \X Sources : finds[f[1]][f[2]] \notin {"none", "halted"}}
Finds(i, s, x) == finds' = [finds EXCEPT ![i][s] = x]

\* Mutant: closing is set when Disconnect has returned.
Disconnected(i) == life[i] \in {"ended", "closed"}
Closing(i) == life[i] \in {"closing", "ended", "closed"}

(* The stream breaks or pings fail; once Close has begun it is our own     *)
(* doing. The ping loop returns when its context is done.                  *)
Perishes(i, s) ==
  /\ finds[i][s] = "none"
  /\ Cardinality(Found) < MaxDeaths
  /\ \/ life[i] = "open" /\ Finds(i, s, "real")
     \/ life[i] = "closing" /\ Finds(i, s, "own")
  /\ UNCHANGED <<control, joins, life, dead, totals, wrong, holds>>

(* fireDead: closing is looked at, then dead is swapped.                   *)
Looks(i, s) ==
  /\ finds[i][s] \in {"real", "own"}
  /\ IF Closing(i) THEN Finds(i, s, "over") ELSE Finds(i, s, "looked")
  /\ Breaks("our own doing", finds[i][s] = "own" /\ ~Closing(i))
  /\ UNCHANGED <<control, joins, life, dead, totals, holds>>

\* Mutant: dead is not looked at.
Always(i) == TRUE
Wins(i) == i \notin dead
Swaps(i, s) ==
  /\ finds[i][s] = "looked"
  /\ Finds(i, s, IF Wins(i) THEN "won" ELSE "over")
  /\ dead' = dead \cup {i}
  /\ UNCHANGED <<control, joins, life, totals, wrong, holds>>

(* onDead; the pinger of a bot found dead is halted.                       *)
OnDead(i, s) ==
  /\ finds[i][s] = "won"
  /\ finds' = [finds EXCEPT ![i] = [t \in Sources |->
                  IF t = s THEN "over"
                  ELSE IF t = "ping" /\ @[t] = "none" THEN "halted" ELSE @[t]]]
  /\ deadTotal' = deadTotal + 1 /\ deadSinceStep' = deadSinceStep + 1
  /\ IF phase = "hold"
       THEN deadInHold' = deadInHold + 1 /\ inHold' = inHold + 1
       ELSE UNCHANGED <<deadInHold, inHold>>
  /\ counted' = [counted EXCEPT ![i] = @ + 1]
  /\ UNCHANGED <<control, joins, life, dead, noted, reported, wrong, holds>>

(***************************************************************************)
(* Closing (ControlBot.Close, shutdown)                                    *)
(***************************************************************************)

Lives(i, x) ==
  /\ life' = [life EXCEPT ![i] = x]
  /\ UNCHANGED <<control, joins, dead, finds, totals, wrong, holds>>

CloseBegins(i) ==
  /\ life[i] = "open"
  /\ join[i] = "undo" \/ (At("shutdown") /\ i \in bots)
  /\ Lives(i, "closing")
(* Disconnect has returned, and the bot's context is cancelled.            *)
Disconnects(i) == life[i] = "closing" /\ Lives(i, "ended")
(* The reader and the ping loop are waited for; a fireDead the ping loop   *)
(* has begun is not.                                                       *)
Closes(i) ==
  /\ life[i] = "ended" /\ finds[i]["stream"] \in {"none", "over"}
  /\ Lives(i, "closed")

Gone ==
  /\ At("shutdown") /\ \A i \in bots : life[i] = "closed"
  /\ bots' = {} /\ Goes("gone")
  /\ UNCHANGED <<phase, ctx, join, nextIdx, tally, ticker, conns, totals, wrong, holds>>

Next ==
  \/ Cancel \/ Quit \/ Launch \/ FirstJoined \/ AllJoined
  \/ Tick \/ Writes \/ StopProgress \/ WritesReport
  \/ HoldResets \/ HoldBegins \/ HoldAdds \/ HoldReports \/ HoldEnds \/ Gone
  \/ \E n \in 1 .. MaxBots : SetN(n) \/ Burst(n)
  \/ \E i \in Bots :
       \/ Connects(i) \/ Refused(i) \/ Joins(i) \/ VoiceFails(i) \/ Undone(i)
       \/ CloseBegins(i) \/ Disconnects(i) \/ Closes(i)
  \/ \E i \in Bots, s \in Sources :
       Perishes(i, s) \/ Looks(i, s) \/ Swaps(i, s) \/ OnDead(i, s)

Spec == Init /\ [][Next]_vars

(***************************************************************************)
(* Properties                                                              *)
(***************************************************************************)

TypeOK ==
  /\ phase \in {"idle", "ramp", "settle", "hold", "burst"}
  /\ ctx \in {"live", "done"} /\ ticker \in {"off", "on", "writes", "late"}
  /\ bots \subseteq Bots /\ dead \subseteq Bots /\ nextIdx \in 0 .. MaxBots
  /\ join \in [Bots -> {"none", "control", "voice", "undo", "bot"} \cup Ended]
  /\ life \in [Bots -> {"none", "open", "closing", "ended", "closed"}]
  /\ {deadTotal, deadSinceStep, deadInHold, noted, reported, inHold} \subseteq Nat

(* The sums of a bot's life: a join is in its report once, as joined or     *)
(* failed, and what joined is a bot; no name is used twice; no progress     *)
(* line follows the report of its command; the deaths a hold reports as     *)
(* its own are those counted while it was on; and what Close does to a      *)
(* connection is no death (rampJoin, startProgress, hold, fireDead).        *)
NothingWrong == wrong = {}

(* Every death is counted once, and is in one report or still to be         *)
(* reported (onDead, hold).                                                 *)
DeathsAddUp ==
  /\ \A i \in Bots : counted[i] <= 1
  /\ reported + deadSinceStep = deadTotal
  /\ deadTotal = Cardinality({i \in Bots : counted[i] > 0})

(* When the runner is gone every connection it ever made is closed, those   *)
(* of joins that failed or were cancelled half-way too (shutdown, joinOne). *)
AllClosed == At("gone") => \A i \in Bots : life[i] \in {"none", "closed"}

LoadIsAccounted == NothingWrong /\ DeathsAddUp /\ AllClosed
=============================================================================
