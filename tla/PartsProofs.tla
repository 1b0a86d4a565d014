------------------------- MODULE PartsProofs -------------------------
(***************************************************************************)
(* What the parts of MCParts keep, for any number of actions, triggers,    *)
(* talkers, rows, bots, windows, files and faults: the keybinding store    *)
(* keeps every trigger with one action and takes a change back whole;      *)
(* every transmission is in the history once, and the history is on file   *)
(* when it says so; the hotkeys recover from a dead stream, a capture that *)
(* is never ended, a change of the radios and a late grant; settings,      *)
(* windows and profiles come back as they were saved; and a run of the     *)
(* load generator accounts for its joins, its deaths and its connections.  *)
(***************************************************************************)
EXTENDS MCParts, SequenceTheorems, FiniteSetTheorems, TLAPS

(***************************************************************************)
(* The keybinding store: the inductive invariant                            *)
(***************************************************************************)

OnlyKnown(b, u) == \A a \in Ids : IF a \in Known THEN u[a] = <<>> ELSE b[a] = <<>>

Sound(b, u) == Single(b) /\ OneChordEach(b) /\ OnlyKnown(b, u)

\* What Load has not come to is empty.
AheadIsEmpty ==
  phase \in {"loading", "restoring"} =>
    \A a \in Ids : /\ a > id => binds[a] = <<>>
                   /\ a >= id => unknown[a] = <<>>

\* A load of what the store itself has written.
Reads == phase = "restoring" \/ (phase = "loading" /\ ~foreign)

LastSaved == Snapshot(kept.binds, kept.unknown)

\* It has brought back all it has come by.
Returned ==
  /\ raw = LastSaved
  /\ \A a \in Ids : a < id => binds[a] = kept.binds[a] /\ unknown[a] = kept.unknown[a]
  /\ id \in Known =>
       /\ Len(binds[id]) = pos - 1
       /\ pos <= Len(kept.binds[id]) + 1
       /\ \A n \in 1 .. pos - 1 : binds[id][n] = kept.binds[id][n]

KeyInv ==
  /\ TypeOK
  /\ Sound(binds, unknown) /\ Sound(kept.binds, kept.unknown)
  /\ AheadIsEmpty
  /\ Reads => Returned
  /\ phase = "changed" => raw = LastSaved
  /\ ~foreign => file = LastSaved
  /\ StoreIsWhatWasSaved

(***************************************************************************)
(* Lists                                                                   *)
(***************************************************************************)

\* What store.go's append(list[:i:i], list[i+1:]...) leaves of a list.
LEMMA WithoutLemma ==
  ASSUME NEW S, NEW list \in Seq(S), NEW n \in DOMAIN list
  PROVE  /\ Without(list, n) \in Seq(S)
         /\ Len(Without(list, n)) = Len(list) - 1
         /\ \A m \in 1 .. Len(list) - 1 :
              Without(list, n)[m] = list[IF m < n THEN m ELSE m + 1]
<1>1. Len(list) \in Nat /\ n \in 1 .. Len(list)
  BY LenProperties
<1>2. Len(list) - 1 \in Nat
  BY <1>1
<1>3. \A m \in 1 .. Len(list) - 1 :
        (IF m < n THEN list[m] ELSE list[m + 1]) \in S
  BY <1>1, ElementOfSeq
<1> QED  BY <1>1, <1>2, <1>3 DEF Without

\* Every entry of what is left was an entry, at a place of its own.
LEMMA WithoutKeepsApart ==
  ASSUME NEW S, NEW list \in Seq(S), NEW n \in DOMAIN list
  PROVE  \A m \in DOMAIN Without(list, n) :
           /\ (IF m < n THEN m ELSE m + 1) \in DOMAIN list \ {n}
           /\ Without(list, n)[m] = list[IF m < n THEN m ELSE m + 1]
<1>1. Len(list) \in Nat /\ n \in 1 .. Len(list) /\ DOMAIN list = 1 .. Len(list)
  BY LenProperties
<1>2. DOMAIN Without(list, n) = 1 .. Len(list) - 1
  BY WithoutLemma, LenProperties
<1>3. \A m \in 1 .. Len(list) - 1 : Without(list, n)[m] = list[IF m < n THEN m ELSE m + 1]
  BY WithoutLemma
<1>4. \A m \in 1 .. Len(list) - 1 : (IF m < n THEN m ELSE m + 1) \in DOMAIN list \ {n}
  BY <1>1
<1> QED  BY <1>2, <1>3, <1>4

\* A shorter list keeps the store sound.
LEMMA DroppingIsSound ==
  ASSUME NEW b \in [Ids -> Seq(Triggers)], NEW a \in Ids, NEW n \in DOMAIN b[a],
         Single(b), OneChordEach(b)
  PROVE  LET c == [b EXCEPT ![a] = Without(@, n)]
         IN  /\ c \in [Ids -> Seq(Triggers)]
             /\ Single(c) /\ OneChordEach(c)
<1> DEFINE c == [b EXCEPT ![a] = Without(@, n)]
<1> DEFINE was(o, m) == IF o = a /\ m >= n THEN m + 1 ELSE m
<1>0. b[a] \in Seq(Triggers) /\ n \in Nat /\ DOMAIN b[a] = 1 .. Len(b[a]) /\ Len(b[a]) \in Nat
  BY LenProperties
<1>1. Without(b[a], n) \in Seq(Triggers)
  BY <1>0, WithoutLemma
<1>2. c \in [Ids -> Seq(Triggers)]
  BY <1>1
<1>3. \A o \in Ids : \A m \in DOMAIN c[o] :
        /\ m \in Nat
        /\ was(o, m) \in DOMAIN b[o]
        /\ c[o][m] = b[o][was(o, m)]
  <2> SUFFICES ASSUME NEW o \in Ids, NEW m \in DOMAIN c[o]
               PROVE  m \in Nat /\ was(o, m) \in DOMAIN b[o] /\ c[o][m] = b[o][was(o, m)]
    OBVIOUS
  <2>0. c[o] \in Seq(Triggers) /\ m \in Nat
    BY <1>2, LenProperties
  <2>1. CASE o = a
    <3>1. c[o] = Without(b[a], n)
      BY <2>1
    <3>2. /\ (IF m < n THEN m ELSE m + 1) \in DOMAIN b[a]
          /\ Without(b[a], n)[m] = b[a][IF m < n THEN m ELSE m + 1]
      BY <3>1, <1>0, WithoutKeepsApart
    <3>3. was(o, m) = IF m < n THEN m ELSE m + 1
      BY <2>0, <2>1, <1>0
    <3> QED  BY <2>0, <2>1, <3>1, <3>2, <3>3
  <2>2. CASE o # a
    BY <2>0, <2>2
  <2> QED  BY <2>1, <2>2
<1>4. Single(c)
  <2> SUFFICES ASSUME NEW o \in Ids, NEW p \in Ids, NEW m \in DOMAIN c[o], NEW q \in DOMAIN c[p],
                      c[o][m] = c[p][q]
               PROVE  o = p /\ m = q
    BY DEF Single
  <2>1. b[o][was(o, m)] = b[p][was(p, q)]
    BY <1>3
  <2>2. o = p /\ was(o, m) = was(p, q)
    BY <2>1, <1>3 DEF Single
  <2> QED  BY <2>2, <1>3, <1>0
<1>5. OneChordEach(c)
  <2> SUFFICES ASSUME NEW o \in Ids, NEW m \in Chords(c[o]), NEW q \in Chords(c[o])
               PROVE  m = q
    BY DEF OneChordEach
  <2>1. was(o, m) \in Chords(b[o]) /\ was(o, q) \in Chords(b[o])
    BY <1>3 DEF Chords
  <2>2. was(o, m) = was(o, q)
    BY <2>1 DEF OneChordEach
  <2> QED  BY <2>2, <1>3, <1>0 DEF Chords
<1> QED  BY <1>2, <1>4, <1>5

\* So does a trigger nobody has, in a list without a chord if it is one.
LEMMA AppendingIsSound ==
  ASSUME NEW b \in [Ids -> Seq(Triggers)], NEW a \in Ids, NEW t \in Triggers,
         Single(b), OneChordEach(b),
         \A o \in Ids : ~Holds(b[o], t),
         t \in Keys => Chords(b[a]) = {}
  PROVE  LET c == [b EXCEPT ![a] = Append(@, t)]
         IN  /\ c \in [Ids -> Seq(Triggers)]
             /\ Single(c) /\ OneChordEach(c)
<1> DEFINE c == [b EXCEPT ![a] = Append(@, t)]
<1>0. b[a] \in Seq(Triggers) /\ DOMAIN b[a] = 1 .. Len(b[a]) /\ Len(b[a]) \in Nat
  BY LenProperties
<1>1. /\ Append(b[a], t) \in Seq(Triggers)
      /\ DOMAIN Append(b[a], t) = 1 .. Len(b[a]) + 1
      /\ \A m \in 1 .. Len(b[a]) : Append(b[a], t)[m] = b[a][m]
      /\ Append(b[a], t)[Len(b[a]) + 1] = t
  BY <1>0, AppendProperties, LenProperties
<1>2. c \in [Ids -> Seq(Triggers)]
  BY <1>1
<1>3. \A o \in Ids : \A m \in DOMAIN c[o] :
        \/ m \in DOMAIN b[o] /\ c[o][m] = b[o][m]
        \/ o = a /\ m = Len(b[a]) + 1 /\ c[o][m] = t
  BY <1>0, <1>1
<1>4. \A o \in Ids : \A m \in DOMAIN b[o] : b[o][m] # t
  BY DEF Holds
<1>5. Single(c)
  BY <1>3, <1>4 DEF Single
<1>6. OneChordEach(c)
  <2> SUFFICES ASSUME NEW o \in Ids, NEW m \in Chords(c[o]), NEW q \in Chords(c[o])
               PROVE  m = q
    BY DEF OneChordEach
  <2>1. CASE m \in DOMAIN b[o] /\ c[o][m] = b[o][m] /\ q \in DOMAIN b[o] /\ c[o][q] = b[o][q]
    BY <2>1 DEF OneChordEach, Chords
  <2>2. CASE o = a /\ t \in Keys
    BY <2>2, <1>3 DEF Chords
  <2> QED  BY <2>1, <2>2, <1>3 DEF Chords
<1> QED  BY <1>2, <1>5, <1>6

\* Add's first half: a chord goes where its action has no other.
LEMMA RoomIsSound ==
  ASSUME NEW b \in [Ids -> Seq(Triggers)], NEW a \in Ids, NEW t \in Triggers,
         NEW list \in Room(b[a], t),
         Single(b), OneChordEach(b), ~Holds(b[a], t)
  PROVE  LET c == [b EXCEPT ![a] = list]
         IN  /\ list \in Seq(Triggers)
             /\ c \in [Ids -> Seq(Triggers)]
             /\ Single(c) /\ OneChordEach(c)
             /\ ~Holds(list, t)
             /\ t \in Keys => Chords(list) = {}
<1>1. CASE t \in Keys /\ Chords(b[a]) # {}
  <2>1. PICK n \in Chords(b[a]) : list = Without(b[a], n)
    BY <1>1 DEF Room
  <2>2. n \in DOMAIN b[a] /\ b[a] \in Seq(Triggers) /\ b[a][n] \in Keys
    BY DEF Chords
  <2>3. /\ list \in Seq(Triggers)
        /\ \A m \in DOMAIN list : \E k \in DOMAIN b[a] \ {n} : list[m] = b[a][k]
    BY <2>1, <2>2, WithoutLemma, WithoutKeepsApart
  <2>4. \A k \in DOMAIN b[a] \ {n} : b[a][k] \notin Keys
    BY DEF OneChordEach, Chords
  <2>5. ~Holds(list, t)
    BY <2>3 DEF Holds
  <2>6. Chords(list) = {}
    BY <2>3, <2>4 DEF Chords
  <2>7. [b EXCEPT ![a] = list] = [b EXCEPT ![a] = Without(@, n)]
    BY <2>1
  <2>8. LET c == [b EXCEPT ![a] = Without(@, n)]
        IN  c \in [Ids -> Seq(Triggers)] /\ Single(c) /\ OneChordEach(c)
    BY <2>2, DroppingIsSound
  <2> QED  BY <2>3, <2>5, <2>6, <2>7, <2>8
<1>2. CASE ~(t \in Keys /\ Chords(b[a]) # {})
  <2>1. list = b[a]
    BY <1>2 DEF Room
  <2>2. [b EXCEPT ![a] = list] = b
    BY <2>1
  <2>3. b[a] \in Seq(Triggers)
    OBVIOUS
  <2> QED  BY <1>2, <2>1, <2>2, <2>3
<1> QED  BY <1>1, <1>2

\* Add takes the one copy there is and adds its own (store.go's argument for
\* looking no further than the first holder).
LEMMA AddIsSound ==
  ASSUME NEW a \in Ids, NEW t \in Triggers, Known \subseteq Ids, TypeOK,
         Sound(binds, unknown), Add(a, t)
  PROVE  binds' \in [Ids -> Seq(Triggers)] /\ Single(binds') /\ OneChordEach(binds')
<1>0. /\ binds \in [Ids -> Seq(Triggers)]
      /\ Single(binds) /\ OneChordEach(binds) /\ OnlyKnown(binds, unknown)
  BY DEF TypeOK, Sound
<1>1. CASE UNCHANGED binds
  BY <1>0, <1>1
<1>2. CASE ~Holds(binds[a], t)
  <2>1. PICK list \in Room(binds[a], t) :
          \/ /\ Holders(a, t) = {}
             /\ binds' = [binds EXCEPT ![a] = Append(list, t)]
          \/ \E o \in Holders(a, t) : \E n \in DOMAIN binds[o] :
               /\ binds[o][n] = t
               /\ binds' = [binds EXCEPT ![o] = Without(@, n), ![a] = Append(list, t)]
    BY <1>2 DEF Add
  <2> DEFINE b == [binds EXCEPT ![a] = list]
  <2>2. /\ b \in [Ids -> Seq(Triggers)] /\ Single(b) /\ OneChordEach(b)
        /\ ~Holds(list, t) /\ (t \in Keys => Chords(list) = {})
    BY <1>0, <1>2, RoomIsSound
  <2>3. CASE Holders(a, t) = {} /\ binds' = [binds EXCEPT ![a] = Append(list, t)]
    <3>1. \A p \in Ids \ {a} : ~Holds(binds[p], t)
      BY <1>0, <2>3 DEF Holders, OnlyKnown, Holds
    <3>2. \A p \in Ids : ~Holds(b[p], t)
      BY <2>2, <3>1, <1>0
    <3>3. b[a] = list /\ binds' = [b EXCEPT ![a] = Append(@, t)]
      BY <2>3, <1>0
    <3> HIDE DEF b
    <3> QED  BY <2>2, <3>2, <3>3, AppendingIsSound
  <2>4. ASSUME NEW o \in Holders(a, t), NEW n \in DOMAIN binds[o],
               binds[o][n] = t,
               binds' = [binds EXCEPT ![o] = Without(@, n), ![a] = Append(list, t)]
        PROVE  binds' \in [Ids -> Seq(Triggers)] /\ Single(binds') /\ OneChordEach(binds')
    <3> DEFINE c == [b EXCEPT ![o] = Without(@, n)]
    <3>1. o \in Ids /\ o # a /\ b[o] = binds[o] /\ b[a] = list
      BY <1>0 DEF Holders
    <3>2. c \in [Ids -> Seq(Triggers)] /\ Single(c) /\ OneChordEach(c)
      <4> HIDE DEF b
      <4> QED  BY <2>2, <3>1, DroppingIsSound
    <3>3. \A p \in Ids : ~Holds(c[p], t)
      <4> SUFFICES ASSUME NEW p \in Ids PROVE ~Holds(c[p], t)
        OBVIOUS
      <4>1. CASE p = a
        BY <2>2, <3>1, <4>1
      <4>2. CASE p = o
        <5>1. c[p] = Without(binds[o], n)
          BY <2>2, <3>1, <4>2
        <5>2. \A m \in DOMAIN Without(binds[o], n) : \E k \in DOMAIN binds[o] \ {n} :
                Without(binds[o], n)[m] = binds[o][k]
          BY <1>0, <3>1, WithoutKeepsApart
        <5>3. \A k \in DOMAIN binds[o] \ {n} : binds[o][k] # t
          BY <1>0, <2>4, <3>1 DEF Single
        <5> QED  BY <5>1, <5>2, <5>3 DEF Holds
      <4>3. CASE p # a /\ p # o
        <5>1. c[p] = binds[p]
          BY <1>0, <2>2, <4>3
        <5> QED  BY <1>0, <2>4, <3>1, <4>3, <5>1 DEF Single, Holds
      <4> QED  BY <4>1, <4>2, <4>3
    <3>4. c[a] = list /\ binds' = [c EXCEPT ![a] = Append(@, t)]
      BY <2>4, <1>0, <2>2, <3>1
    <3>5. t \in Keys => Chords(c[a]) = {}
      BY <2>2, <3>4
    <3> HIDE DEF c
    <3> QED  BY <3>2, <3>3, <3>4, <3>5, AppendingIsSound
  <2> QED  BY <2>1, <2>3, <2>4
<1> QED  BY <1>1, <1>2 DEF Add

\* What is written is text, and is read as what it was written for.
LEMMA SnapshotLemma ==
  ASSUME KeyAssumption,
         NEW b \in [Ids -> Seq(Triggers)], NEW u \in [Ids -> Seq(Texts)]
  PROVE  /\ Snapshot(b, u) \in [Ids -> Seq(Texts)]
         /\ \A a \in Known :
              /\ DOMAIN Snapshot(b, u)[a] = 1 .. Len(b[a])
              /\ \A n \in 1 .. Len(b[a]) : Parse[Snapshot(b, u)[a][n]] = b[a][n]
         /\ \A a \in Ids \ Known : Snapshot(b, u)[a] = u[a]
<1>1. ASSUME NEW a \in Ids
      PROVE  /\ Written(b[a]) \in Seq(Texts)
             /\ DOMAIN Written(b[a]) = 1 .. Len(b[a])
             /\ \A n \in 1 .. Len(b[a]) : Parse[Written(b[a])[n]] = b[a][n]
  <2>1. Len(b[a]) \in Nat /\ \A n \in 1 .. Len(b[a]) : b[a][n] \in Triggers
    BY LenProperties, ElementOfSeq
  <2>2. \A n \in 1 .. Len(b[a]) : String[b[a][n]] \in Texts /\ Parse[String[b[a][n]]] = b[a][n]
    BY <2>1 DEF KeyAssumption
  <2> QED  BY <2>1, <2>2 DEF Written
<1> QED  BY <1>1 DEF Snapshot, KeyAssumption

LEMMA KeyInit ==
  ASSUME KeyAssumption, Init
  PROVE  KeyInv
<1>1. NoKeybinds \in [Ids -> Seq(Texts)] /\ NoKeybinds \in [Ids -> Seq(Triggers)]
  BY DEF NoKeybinds
<1>2. TypeOK
  BY <1>1 DEF Init, TypeOK, Phases, KeyAssumption
<1>3. Sound(NoKeybinds, NoKeybinds)
  BY DEF Sound, Single, OneChordEach, OnlyKnown, Chords, NoKeybinds
<1> QED  BY <1>2, <1>3 DEF Init, KeyInv, AheadIsEmpty, Reads, StoreIsWhatWasSaved

(***************************************************************************)
(* The steps                                                               *)
(***************************************************************************)

LEMMA LoadBeginsKeeps ==
  ASSUME KeyAssumption, KeyInv, Start \/ SaveFails
  PROVE  KeyInv'
<1>1. NoKeybinds \in [Ids -> Seq(Texts)] /\ NoKeybinds \in [Ids -> Seq(Triggers)]
      /\ Sound(NoKeybinds, NoKeybinds)
  BY DEF NoKeybinds, Sound, Single, OneChordEach, OnlyKnown, Chords
<1>2. /\ binds' = NoKeybinds /\ unknown' = NoKeybinds /\ id' = 1 /\ pos' = 1
      /\ UNCHANGED <<file, kept>>
      /\ \/ phase' = "loading" /\ raw' = (IF file = NoKeybinds THEN Defaults ELSE file)
            /\ foreign' = (foreign \/ file = NoKeybinds)
         \/ phase = "changed" /\ phase' = "restoring" /\ raw' = raw /\ foreign' = foreign
  BY DEF Start, SaveFails, TakesBack, LoadBegins
<1>3. TypeOK'
  <2>1. raw' \in [Ids -> Seq(Texts)]
    BY <1>2 DEF KeyInv, TypeOK, KeyAssumption
  <2>2. 1 \in 1 .. NIds + 1 /\ 1 \in Nat \ {0}
    BY DEF KeyAssumption
  <2>3. foreign' \in BOOLEAN
    BY <1>2 DEF KeyInv, TypeOK
  <2> QED  BY <1>1, <1>2, <2>1, <2>2, <2>3 DEF KeyInv, TypeOK, Phases
<1>4. Sound(binds, unknown)' /\ Sound(kept.binds, kept.unknown)'
  BY <1>1, <1>2 DEF KeyInv
<1>5. AheadIsEmpty'
  BY <1>2 DEF AheadIsEmpty, NoKeybinds
<1>6. Reads' => Returned'
  <2> SUFFICES ASSUME Reads' PROVE Returned'
    OBVIOUS
  <2>1. raw' = LastSaved'
    BY <1>2 DEF KeyInv, Reads, LastSaved
  <2>2. ASSUME 1 \in Known
        PROVE  Len(binds'[1]) = 0 /\ 1 <= Len(kept.binds[1]) + 1
    <3>1. 1 \in Ids
      BY <2>2 DEF KeyAssumption
    <3>2. binds'[1] = <<>>
      BY <1>2, <3>1 DEF NoKeybinds
    <3>3. Len(kept.binds[1]) \in Nat
      BY <3>1, LenProperties DEF KeyInv, TypeOK
    <3> QED  BY <3>2, <3>3
  <2>3. \A a \in Ids : ~(a < 1)
    BY DEF Ids
  <2> QED  BY <1>2, <2>1, <2>2, <2>3 DEF Returned
<1>7. (~foreign => file = LastSaved)'
  BY <1>2 DEF KeyInv, LastSaved
<1> QED  BY <1>2, <1>3, <1>4, <1>5, <1>6, <1>7 DEF KeyInv, StoreIsWhatWasSaved

LEMMA LoadEntryKeeps ==
  ASSUME KeyAssumption, KeyInv, LoadEntry
  PROVE  KeyInv'
<1> DEFINE t == Parse[raw[id][pos]]
<1>1. /\ phase \in {"loading", "restoring"} /\ id \in Ids /\ id \in Known
      /\ pos \in DOMAIN raw[id]
      /\ binds' = (IF Takes(t) THEN [binds EXCEPT ![id] = Append(@, t)] ELSE binds)
      /\ pos' = pos + 1
      /\ UNCHANGED <<file, unknown, phase, raw, id, kept, foreign>>
  BY DEF LoadEntry, Loading
<1>2. /\ binds \in [Ids -> Seq(Triggers)] /\ unknown \in [Ids -> Seq(Texts)]
      /\ kept.binds \in [Ids -> Seq(Triggers)] /\ kept.unknown \in [Ids -> Seq(Texts)]
      /\ id \in Nat /\ pos \in Nat \ {0}
      /\ raw \in [Ids -> Seq(Texts)]
  BY <1>1 DEF KeyInv, TypeOK, Ids
<1>3. raw[id][pos] \in Texts /\ (t # Bad => t \in Triggers)
  <2>1. raw[id] \in Seq(Texts)
    BY <1>1, <1>2
  <2>2. raw[id][pos] \in Texts
    BY <1>1, <2>1, ElementOfSeq, LenProperties
  <2> QED  BY <2>2 DEF KeyAssumption
<1>4. binds' \in [Ids -> Seq(Triggers)] /\ Single(binds') /\ OneChordEach(binds')
  <2>1. CASE Takes(t)
    <3>1. t \in Triggers /\ (t \in Keys => Chords(binds[id]) = {})
      BY <2>1, <1>3 DEF Takes
    <3>2. \A a \in Ids : ~Holds(binds[a], t)
      <4>1. \A a \in 1 .. id : ~Holds(binds[a], t)
        BY <2>1 DEF Takes, Claimed
      <4>2. \A a \in Ids : a > id => binds[a] = <<>>
        BY <1>1 DEF KeyInv, AheadIsEmpty
      <4> QED  BY <4>1, <4>2, <1>2 DEF Holds, Ids
    <3>3. Single(binds) /\ OneChordEach(binds)
      BY DEF KeyInv, Sound
    <3>4. binds' = [binds EXCEPT ![id] = Append(@, t)]
      BY <2>1, <1>1
    <3> HIDE DEF t
    <3>5. LET c == [binds EXCEPT ![id] = Append(@, t)]
          IN  c \in [Ids -> Seq(Triggers)] /\ Single(c) /\ OneChordEach(c)
      <4>1. id \in Ids /\ binds \in [Ids -> Seq(Triggers)]
        BY <1>1, <1>2
      <4> QED  BY <4>1, <3>1, <3>2, <3>3, AppendingIsSound
    <3> QED  BY <3>4, <3>5
  <2>2. CASE ~Takes(t)
    BY <2>2, <1>1, <1>2 DEF KeyInv, Sound
  <2> QED  BY <2>1, <2>2
<1>5. \A a \in Ids : a # id => binds'[a] = binds[a]
  BY <1>1, <1>2
<1>6. TypeOK'
  <2>1. pos' \in Nat \ {0}
    BY <1>1, <1>2
  <2> QED  BY <1>1, <1>4, <2>1 DEF KeyInv, TypeOK
<1>7. Sound(binds, unknown)' /\ Sound(kept.binds, kept.unknown)'
  BY <1>1, <1>4, <1>5 DEF KeyInv, Sound, OnlyKnown
<1>8. AheadIsEmpty'
  <2>1. \A a \in Ids : a > id => binds'[a] = binds[a]
    BY <1>2, <1>5 DEF Ids
  <2> QED  BY <1>1, <2>1 DEF KeyInv, AheadIsEmpty
<1>9. Reads' => Returned'
  <2> SUFFICES ASSUME Reads PROVE Returned'
    BY <1>1 DEF Reads
  <2>0. /\ raw = LastSaved /\ Len(binds[id]) = pos - 1
        /\ \A n \in 1 .. pos - 1 : binds[id][n] = kept.binds[id][n]
        /\ \A a \in Ids : a < id => binds[a] = kept.binds[a] /\ unknown[a] = kept.unknown[a]
    BY <1>1 DEF KeyInv, Returned
  <2>1. pos \in 1 .. Len(kept.binds[id]) /\ t = kept.binds[id][pos]
    <3>1. /\ DOMAIN raw[id] = 1 .. Len(kept.binds[id])
          /\ \A n \in 1 .. Len(kept.binds[id]) : Parse[raw[id][n]] = kept.binds[id][n]
      <4>1. \A a \in Known :
              /\ DOMAIN LastSaved[a] = 1 .. Len(kept.binds[a])
              /\ \A n \in 1 .. Len(kept.binds[a]) : Parse[LastSaved[a][n]] = kept.binds[a][n]
        BY <1>2, SnapshotLemma DEF LastSaved
      <4> QED  BY <1>1, <2>0, <4>1
    <3> QED  BY <1>1, <3>1
  <2>2. t \in Triggers /\ t # Bad
    <3>1. kept.binds[id] \in Seq(Triggers)
      BY <1>1, <1>2
    <3> QED  BY <2>1, <3>1, ElementOfSeq DEF KeyAssumption
  <2>3. DOMAIN binds[id] = 1 .. pos - 1 /\ DOMAIN kept.binds[id] = 1 .. Len(kept.binds[id])
    BY <1>1, <1>2, <2>0, LenProperties
  <2>4. Single(kept.binds) /\ OneChordEach(kept.binds)
    BY DEF KeyInv, Sound
  <2>5. ~Claimed(t)
    <3> SUFFICES ASSUME NEW a \in 1 .. id, NEW n \in DOMAIN binds[a], binds[a][n] = t
                 PROVE  FALSE
      BY DEF Claimed, Holds
    <3>1. a \in Ids
      BY <1>1 DEF Ids, KeyAssumption
    <3>2. CASE a = id
      <4>1. n \in 1 .. pos - 1 /\ kept.binds[id][n] = kept.binds[id][pos]
        BY <2>0, <2>1, <2>3, <3>2
      <4>2. n = pos
        <5>1. n \in DOMAIN kept.binds[id] /\ pos \in DOMAIN kept.binds[id]
          BY <4>1, <1>2, <2>1, <2>3
        <5> QED  BY <4>1, <5>1, <1>1, <2>4 DEF Single
      <4> QED  BY <4>1, <4>2, <1>2
    <3>3. CASE a # id
      <4>1. binds[a] = kept.binds[a]
        BY <1>2, <2>0, <3>1, <3>3
      <4> QED  BY <4>1, <1>1, <2>1, <2>3, <2>4, <3>1, <3>3 DEF Single
    <3> QED  BY <3>2, <3>3
  <2>6. t \in Keys => Chords(binds[id]) = {}
    <3> SUFFICES ASSUME t \in Keys, NEW n \in Chords(binds[id]) PROVE FALSE
      OBVIOUS
    <3>1. n \in 1 .. pos - 1 /\ kept.binds[id][n] \in Keys /\ kept.binds[id][pos] \in Keys
      BY <2>0, <2>1, <2>3 DEF Chords
    <3>2. n \in Chords(kept.binds[id]) /\ pos \in Chords(kept.binds[id])
      BY <3>1, <1>2, <2>1, <2>3 DEF Chords
    <3>3. n = pos
      BY <3>2, <1>1, <2>4 DEF OneChordEach
    <3> QED  BY <3>1, <3>3, <1>2
  <2>7. binds' = [binds EXCEPT ![id] = Append(@, t)]
    BY <1>1, <2>2, <2>5, <2>6 DEF Takes
  <2>8. /\ Len(binds'[id]) = pos
        /\ \A n \in 1 .. pos : binds'[id][n] = kept.binds[id][n]
    <3>1. binds[id] \in Seq(Triggers) /\ binds'[id] = Append(binds[id], t)
      BY <1>1, <1>2, <2>7
    <3> HIDE DEF t
    <3> QED  BY <3>1, <1>2, <2>0, <2>1, <2>2, <2>3, AppendProperties
  <2> QED  BY <1>1, <1>2, <1>5, <2>0, <2>1, <2>8 DEF Returned, LastSaved
<1>10. (~foreign => file = LastSaved)' /\ (phase = "changed" => raw = LastSaved)'
       /\ StoreIsWhatWasSaved'
  BY <1>1 DEF KeyInv, LastSaved, StoreIsWhatWasSaved
<1> QED  BY <1>6, <1>7, <1>8, <1>9, <1>10 DEF KeyInv

LEMMA LoadNextIdKeeps ==
  ASSUME KeyAssumption, KeyInv, LoadNextId
  PROVE  KeyInv'
<1>1. /\ phase \in {"loading", "restoring"} /\ id \in Ids
      /\ id \in Known => pos \notin DOMAIN raw[id]
      /\ unknown' = (IF id \in Known THEN unknown ELSE [unknown EXCEPT ![id] = raw[id]])
      /\ id' = id + 1 /\ pos' = 1
      /\ UNCHANGED <<file, binds, phase, raw, kept, foreign>>
  BY DEF LoadNextId, Loading
<1>2. /\ binds \in [Ids -> Seq(Triggers)] /\ unknown \in [Ids -> Seq(Texts)]
      /\ kept.binds \in [Ids -> Seq(Triggers)] /\ kept.unknown \in [Ids -> Seq(Texts)]
      /\ raw \in [Ids -> Seq(Texts)]
      /\ NIds \in Nat /\ id \in 1 .. NIds /\ pos \in Nat \ {0}
  BY <1>1 DEF KeyInv, TypeOK, Ids, KeyAssumption
<1>3. \A a \in Ids : a # id => unknown'[a] = unknown[a]
  BY <1>1, <1>2
<1>4. id \notin Known => unknown'[id] = raw[id]
  BY <1>1, <1>2
<1>5. TypeOK'
  <2>1. unknown' \in [Ids -> Seq(Texts)]
    BY <1>1, <1>2
  <2>2. id' \in 1 .. NIds + 1 /\ pos' \in Nat \ {0}
    BY <1>1, <1>2
  <2> QED  BY <1>1, <2>1, <2>2 DEF KeyInv, TypeOK
<1>6. Sound(binds, unknown)' /\ Sound(kept.binds, kept.unknown)'
  BY <1>1, <1>3 DEF KeyInv, Sound, OnlyKnown
<1>7. AheadIsEmpty'
  <2> SUFFICES ASSUME NEW a \in Ids
               PROVE  (a > id + 1 => binds[a] = <<>>) /\ (a >= id + 1 => unknown'[a] = <<>>)
    BY <1>1 DEF AheadIsEmpty
  <2>1. a \in Nat
    BY DEF Ids
  <2> QED  BY <1>1, <1>2, <1>3, <2>1 DEF KeyInv, AheadIsEmpty
<1>8. Reads' => Returned'
  <2> SUFFICES ASSUME Reads PROVE Returned'
    BY <1>1 DEF Reads
  <2>0. Returned /\ raw = LastSaved
    BY DEF KeyInv, Returned
  <2>9. /\ \A a \in Known : DOMAIN LastSaved[a] = 1 .. Len(kept.binds[a])
        /\ \A a \in Ids \ Known : LastSaved[a] = kept.unknown[a]
    <3> DEFINE b == kept.binds
               u == kept.unknown
    <3>1. b \in [Ids -> Seq(Triggers)] /\ u \in [Ids -> Seq(Texts)]
      BY <1>2
    <3> HIDE DEF b, u
    <3>2. /\ \A a \in Known : DOMAIN Snapshot(b, u)[a] = 1 .. Len(b[a])
          /\ \A a \in Ids \ Known : Snapshot(b, u)[a] = u[a]
      BY <3>1, SnapshotLemma
    <3> QED  BY <3>2 DEF LastSaved, b, u
  <2>1. binds[id] = kept.binds[id]
    <3>1. CASE id \in Known
      <4>1. DOMAIN raw[id] = 1 .. Len(kept.binds[id])
        BY <3>1, <2>0, <2>9
      <4>2. /\ binds[id] \in Seq(Triggers) /\ kept.binds[id] \in Seq(Triggers)
            /\ Len(kept.binds[id]) \in Nat
        BY <1>1, <1>2, LenProperties
      <4>3. Len(binds[id]) = Len(kept.binds[id])
        BY <3>1, <1>1, <1>2, <2>0, <4>1, <4>2 DEF Returned
      <4>4. \A n \in 1 .. Len(binds[id]) : binds[id][n] = kept.binds[id][n]
        BY <3>1, <2>0 DEF Returned
      <4> QED  BY <4>2, <4>3, <4>4, SeqEqual
    <3>2. CASE id \notin Known
      BY <3>2, <1>1 DEF KeyInv, Sound, OnlyKnown
    <3> QED  BY <3>1, <3>2
  <2>2. unknown'[id] = kept.unknown[id]
    <3>1. CASE id \in Known
      BY <3>1, <1>1 DEF KeyInv, Sound, OnlyKnown
    <3>2. CASE id \notin Known
      BY <3>2, <1>1, <1>4, <2>0, <2>9
    <3> QED  BY <3>1, <3>2
  <2>3. \A a \in Ids : a < id + 1 => a < id \/ a = id
    BY <1>2 DEF Ids
  <2>4. id + 1 \in Known => Len(binds[id + 1]) = 0 /\ 1 <= Len(kept.binds[id + 1]) + 1
    <3> SUFFICES ASSUME id + 1 \in Known
                 PROVE  Len(binds[id + 1]) = 0 /\ 1 <= Len(kept.binds[id + 1]) + 1
      OBVIOUS
    <3>1. id + 1 \in Ids
      BY DEF KeyAssumption
    <3>2. binds[id + 1] = <<>>
      BY <1>1, <1>2, <3>1 DEF KeyInv, AheadIsEmpty
    <3>3. Len(kept.binds[id + 1]) \in Nat
      BY <1>2, <3>1, LenProperties
    <3> QED  BY <3>2, <3>3
  <2>5. \A a \in Ids : a < id + 1 => binds'[a] = kept.binds[a] /\ unknown'[a] = kept.unknown[a]
    BY <1>1, <1>3, <2>0, <2>1, <2>2, <2>3 DEF Returned
  <2> QED  BY <1>1, <2>0, <2>4, <2>5 DEF Returned, LastSaved
<1>9. (~foreign => file = LastSaved)' /\ (phase = "changed" => raw = LastSaved)'
      /\ StoreIsWhatWasSaved'
  BY <1>1 DEF KeyInv, LastSaved, StoreIsWhatWasSaved
<1> QED  BY <1>5, <1>6, <1>7, <1>8, <1>9 DEF KeyInv

LEMMA LoadedKeeps ==
  ASSUME KeyAssumption, KeyInv, Loaded
  PROVE  KeyInv'
<1>1. /\ phase \in {"loading", "restoring"} /\ id = NIds + 1 /\ phase' = "ready"
      /\ kept' = (IF phase = "loading" /\ foreign
                   THEN [binds |-> binds, unknown |-> unknown] ELSE kept)
      /\ raw' = NoKeybinds /\ id' = 1
      /\ UNCHANGED <<file, binds, unknown, pos, foreign>>
  BY DEF Loaded
<1>2. /\ binds \in [Ids -> Seq(Triggers)] /\ unknown \in [Ids -> Seq(Texts)]
      /\ kept.binds \in [Ids -> Seq(Triggers)] /\ kept.unknown \in [Ids -> Seq(Texts)]
      /\ NoKeybinds \in [Ids -> Seq(Texts)] /\ NIds \in Nat
  BY DEF KeyInv, TypeOK, NoKeybinds, KeyAssumption
<1>3. TypeOK'
  <2>1. kept' \in [binds : [Ids -> Seq(Triggers)], unknown : [Ids -> Seq(Texts)]]
    BY <1>1 DEF KeyInv, TypeOK
  <2> QED  BY <1>1, <1>2, <2>1 DEF KeyInv, TypeOK, Phases
<1>4. StoreIsWhatWasSaved'
  <2>1. CASE phase = "loading" /\ foreign
    BY <2>1, <1>1 DEF StoreIsWhatWasSaved
  <2>2. CASE Reads
    <3>1. \A a \in Ids : binds[a] = kept.binds[a] /\ unknown[a] = kept.unknown[a]
      BY <1>1, <1>2, <2>2 DEF KeyInv, Returned, Ids
    <3>2. binds = kept.binds /\ unknown = kept.unknown
      BY <1>2, <3>1
    <3>3. kept' = kept
      BY <1>1, <2>2 DEF Reads
    <3> QED  BY <1>1, <3>2, <3>3 DEF StoreIsWhatWasSaved
  <2>3. Reads \/ (phase = "loading" /\ foreign)
    BY <1>1 DEF Reads
  <2> QED  BY <2>1, <2>2, <2>3
<1>5. Sound(binds, unknown)' /\ Sound(kept.binds, kept.unknown)'
  BY <1>1 DEF KeyInv
<1>6. ~foreign => kept' = kept
  BY <1>1
<1>7. (~foreign => file = LastSaved)' /\ (phase = "changed" => raw = LastSaved)'
      /\ AheadIsEmpty' /\ (Reads' => Returned')
  BY <1>1, <1>6 DEF KeyInv, LastSaved, AheadIsEmpty, Reads
<1> QED  BY <1>3, <1>4, <1>5, <1>7 DEF KeyInv

LEMMA CallKeeps ==
  ASSUME KeyAssumption, KeyInv, NEW a \in Known,
         \/ \E t \in Triggers : Add(a, t)
         \/ \E n \in DOMAIN binds[a] : RemoveAt(a, n)
         \/ Clear(a)
  PROVE  KeyInv'
<1>0. /\ a \in Ids /\ binds \in [Ids -> Seq(Triggers)] /\ unknown \in [Ids -> Seq(Texts)]
      /\ Single(binds) /\ OneChordEach(binds) /\ OnlyKnown(binds, unknown)
  BY DEF KeyAssumption, KeyInv, TypeOK, Sound
<1>1. /\ phase = "ready" /\ phase' = "changed" /\ raw' = Snapshot(binds, unknown)
      /\ UNCHANGED <<file, unknown, place, kept, foreign>>
  BY DEF Add, RemoveAt, Clear, Call
<1>2. /\ binds' \in [Ids -> Seq(Triggers)] /\ Single(binds') /\ OneChordEach(binds')
      /\ OnlyKnown(binds', unknown)
  <2>1. ASSUME NEW t \in Triggers, Add(a, t)
        PROVE  /\ binds' \in [Ids -> Seq(Triggers)] /\ Single(binds') /\ OneChordEach(binds')
               /\ OnlyKnown(binds', unknown)
    <3>1. binds' \in [Ids -> Seq(Triggers)] /\ Single(binds') /\ OneChordEach(binds')
      BY <1>0, <2>1, AddIsSound DEF KeyInv, KeyAssumption
    <3>2. \A o \in Ids \ Known : binds'[o] = binds[o]
      BY <1>0, <2>1 DEF Add, Holders
    <3> QED  BY <1>0, <3>1, <3>2 DEF OnlyKnown
  <2>2. ASSUME NEW n \in DOMAIN binds[a], RemoveAt(a, n)
        PROVE  /\ binds' \in [Ids -> Seq(Triggers)] /\ Single(binds') /\ OneChordEach(binds')
               /\ OnlyKnown(binds', unknown)
    <3>1. binds' = [binds EXCEPT ![a] = Without(@, n)]
      BY <2>2 DEF RemoveAt
    <3>2. binds' \in [Ids -> Seq(Triggers)] /\ Single(binds') /\ OneChordEach(binds')
      BY <1>0, <3>1, DroppingIsSound
    <3> QED  BY <1>0, <3>1, <3>2 DEF OnlyKnown
  <2>3. CASE Clear(a)
    <3>1. binds' = [binds EXCEPT ![a] = <<>>]
      BY <2>3 DEF Clear
    <3>2. /\ binds' \in [Ids -> Seq(Triggers)]
          /\ \A o \in Ids : binds'[o] = binds[o] \/ binds'[o] = <<>>
      BY <1>0, <3>1
    <3>3. \A o \in Ids : \A n \in DOMAIN binds'[o] : n \in DOMAIN binds[o] /\ binds'[o][n] = binds[o][n]
      BY <3>2
    <3>4. Single(binds')
      BY <1>0, <3>3 DEF Single
    <3>5. OneChordEach(binds')
      BY <1>0, <3>3 DEF OneChordEach, Chords
    <3>6. OnlyKnown(binds', unknown)
      BY <1>0, <3>1 DEF OnlyKnown
    <3> QED  BY <3>2, <3>4, <3>5, <3>6
  <2> QED  BY <2>1, <2>2, <2>3
<1>3. raw' \in [Ids -> Seq(Texts)] /\ raw' = LastSaved'
  BY <1>0, <1>1, SnapshotLemma DEF KeyInv, StoreIsWhatWasSaved, LastSaved
<1>4. TypeOK'
  BY <1>1, <1>2, <1>3 DEF KeyInv, TypeOK, Phases, place
<1>5. Sound(binds, unknown)' /\ Sound(kept.binds, kept.unknown)'
  BY <1>1, <1>2 DEF KeyInv, Sound
<1> QED  BY <1>1, <1>3, <1>4, <1>5 DEF KeyInv, AheadIsEmpty, Reads, LastSaved, StoreIsWhatWasSaved

LEMMA RestKeeps ==
  ASSUME KeyAssumption, KeyInv, Saves \/ Stops \/ HandEdit \/ UNCHANGED vars
  PROVE  KeyInv'
<1>0. /\ NoKeybinds \in [Ids -> Seq(Texts)] /\ NoKeybinds \in [Ids -> Seq(Triggers)]
      /\ Sound(NoKeybinds, NoKeybinds)
      /\ 1 \in 1 .. NIds + 1 /\ 1 \in Nat \ {0}
  BY DEF NoKeybinds, Sound, Single, OneChordEach, OnlyKnown, Chords, KeyAssumption
<1>1. CASE Saves
  <2>1. /\ phase = "changed" /\ phase' = "ready" /\ foreign' = FALSE
        /\ file' = Snapshot(binds, unknown)
        /\ kept' = [binds |-> binds, unknown |-> unknown]
        /\ raw' = NoKeybinds
        /\ UNCHANGED <<binds, unknown, id, pos>>
    BY <1>1 DEF Saves, place
  <2>2. file' \in [Ids -> Seq(Texts)]
    BY <2>1, SnapshotLemma DEF KeyInv, TypeOK
  <2>3. TypeOK'
    BY <1>0, <2>1, <2>2 DEF KeyInv, TypeOK, Phases
  <2> QED  BY <2>1, <2>3 DEF KeyInv, LastSaved, AheadIsEmpty, Reads, StoreIsWhatWasSaved
<1>2. CASE Stops
  <2>1. /\ phase' = "down" /\ binds' = NoKeybinds /\ unknown' = NoKeybinds
        /\ raw' = NoKeybinds /\ id' = 1 /\ pos' = 1
        /\ UNCHANGED <<file, kept, foreign>>
    BY <1>2 DEF Stops
  <2>2. TypeOK'
    BY <1>0, <2>1 DEF KeyInv, TypeOK, Phases
  <2>3. Sound(binds, unknown)' /\ Sound(kept.binds, kept.unknown)'
    BY <1>0, <2>1 DEF KeyInv
  <2> QED  BY <2>1, <2>2, <2>3 DEF KeyInv, LastSaved, AheadIsEmpty, Reads, StoreIsWhatWasSaved
<1>3. CASE HandEdit
  <2>1. /\ phase = "down" /\ file' \in Edits /\ foreign' = TRUE
        /\ UNCHANGED <<binds, unknown, phase, raw, id, pos, kept>>
    BY <1>3 DEF HandEdit, place
  <2>2. TypeOK'
    BY <2>1 DEF KeyInv, TypeOK, KeyAssumption
  <2> QED  BY <2>1, <2>2 DEF KeyInv, LastSaved, AheadIsEmpty, Reads, StoreIsWhatWasSaved
<1>4. CASE UNCHANGED vars
  <2>1. UNCHANGED <<file, binds, unknown, phase, raw, id, pos, kept, foreign>>
    BY <1>4 DEF vars, place
  <2>2. TypeOK'
    BY <2>1 DEF KeyInv, TypeOK
  <2>3. (Reads => Returned)'
    BY <2>1 DEF KeyInv, Reads, Returned, LastSaved
  <2> QED  BY <2>1, <2>2, <2>3 DEF KeyInv, LastSaved, AheadIsEmpty, StoreIsWhatWasSaved
<1> QED  BY <1>1, <1>2, <1>3, <1>4

LEMMA KeyNext ==
  ASSUME KeyAssumption, KeyInv, [Next]_vars
  PROVE  KeyInv'
<1>1. CASE Start \/ SaveFails
  BY <1>1, LoadBeginsKeeps
<1>2. CASE LoadEntry
  BY <1>2, LoadEntryKeeps
<1>3. CASE LoadNextId
  BY <1>3, LoadNextIdKeeps
<1>4. CASE Loaded
  BY <1>4, LoadedKeeps
<1>5. ASSUME NEW a \in Known,
             \/ \E t \in Triggers : Add(a, t)
             \/ \E n \in DOMAIN binds[a] : RemoveAt(a, n)
             \/ Clear(a)
      PROVE  KeyInv'
  BY <1>5, CallKeeps
<1>6. CASE Saves \/ Stops \/ HandEdit \/ UNCHANGED vars
  BY <1>6, RestKeeps
<1> QED  BY <1>1, <1>2, <1>3, <1>4, <1>5, <1>6 DEF Next

(***************************************************************************)
(* What Load drops                                                         *)
(***************************************************************************)

LEMMA DropsInit ==
  ASSUME Init
  PROVE  LoadDropsNoMore
  BY DEF Init, LoadDropsNoMore

LEMMA DropsNext ==
  ASSUME KeyAssumption, KeyInv, LoadDropsNoMore, [Next]_vars
  PROVE  LoadDropsNoMore'
<1> DEFINE
      Superfluous(a, x, b) ==
        \/ \E o \in 1 .. a : Holds(b[o], x)
        \/ x \in Keys /\ Chords(b[a]) # {}
<1>0. /\ binds \in [Ids -> Seq(Triggers)] /\ raw \in [Ids -> Seq(Texts)]
      /\ unknown \in [Ids -> Seq(Texts)]
      /\ pos \in Nat \ {0} /\ id \in Nat \ {0} /\ NIds \in Nat
  BY DEF KeyInv, TypeOK, KeyAssumption
<1>1. CASE Start \/ SaveFails
  <2>1. id' = 1 /\ pos' = 1
    BY <1>1 DEF Start, SaveFails, TakesBack, LoadBegins
  <2>2. \A a \in 1 .. 1 : ~(a < 1)
    OBVIOUS
  <2>3. \A a \in Ids : \A n \in DOMAIN raw'[a] : ~(n < 1)
    <3>1. raw' \in [Ids -> Seq(Texts)]
      BY <1>1, LoadBeginsKeeps DEF KeyInv, TypeOK
    <3> QED  BY <3>1, LenProperties
  <2> QED  BY <2>1, <2>2, <2>3 DEF LoadDropsNoMore
<1>2. CASE LoadEntry
  <2> DEFINE t == Parse[raw[id][pos]]
  <2>1. /\ phase \in {"loading", "restoring"} /\ id \in Ids /\ id \in Known
        /\ pos \in DOMAIN raw[id]
        /\ binds' = (IF Takes(t) THEN [binds EXCEPT ![id] = Append(@, t)] ELSE binds)
        /\ pos' = pos + 1
        /\ UNCHANGED <<unknown, phase, raw, id>>
    BY <1>2 DEF LoadEntry, Loading
  <2>2. \A o \in Ids : \A n \in DOMAIN binds[o] :
          n \in DOMAIN binds'[o] /\ binds'[o][n] = binds[o][n]
    <3> SUFFICES ASSUME Takes(t)
                 PROVE  \A n \in DOMAIN binds[id] :
                          n \in DOMAIN Append(binds[id], t) /\ Append(binds[id], t)[n] = binds[id][n]
      BY <1>0, <2>1
    <3>1. binds[id] \in Seq(Triggers)
      BY <1>0, <2>1
    <3> QED  BY <3>1, AppendProperties, LenProperties
  <2>3. \A o \in Ids : \A x : Holds(binds[o], x) => Holds(binds'[o], x)
    BY <2>2 DEF Holds
  <2>4. \A o \in Ids : Chords(binds[o]) # {} => Chords(binds'[o]) # {}
    BY <2>2 DEF Chords
  <2>5. \A a \in Ids : \A x : Superfluous(a, x, binds) => Superfluous(a, x, binds')
    <3>1. \A a \in Ids : \A o \in 1 .. a : o \in Ids
      BY <1>0 DEF Ids
    <3> QED  BY <3>1, <2>3, <2>4
  <2>6. t # Bad => Superfluous(id, t, binds')
    <3>1. CASE Takes(t)
      <4>1. binds[id] \in Seq(Triggers) /\ binds'[id] = Append(binds[id], t)
        BY <3>1, <1>0, <2>1
      <4>2. t \in Triggers
        <5>1. raw[id] \in Seq(Texts)
          BY <1>0, <2>1
        <5>2. raw[id][pos] \in Texts
          BY <2>1, <5>1, ElementOfSeq, LenProperties
        <5> QED  BY <3>1, <5>2 DEF Takes, KeyAssumption
      <4>3. Len(binds[id]) + 1 \in DOMAIN Append(binds[id], t)
            /\ Append(binds[id], t)[Len(binds[id]) + 1] = t
        <5> HIDE DEF t
        <5> QED  BY <4>1, <4>2, AppendProperties, LenProperties
      <4>4. Holds(binds'[id], t)
        BY <4>1, <4>3 DEF Holds
      <4>5. id \in 1 .. id
        BY <1>0
      <4> HIDE DEF t
      <4> QED  BY <4>4, <4>5
    <3>2. CASE ~Takes(t)
      <4>1. t # Bad => Superfluous(id, t, binds)
        BY <3>2 DEF Takes, Claimed
      <4> QED  BY <4>1, <2>1, <2>5
    <3> QED  BY <3>1, <3>2
  <2>7. ASSUME NEW a \in 1 .. id, a \in Ids, a \in Known, NEW n \in DOMAIN raw[a],
               a < id \/ n < pos + 1, Parse[raw[a][n]] # Bad
        PROVE  Superfluous(a, Parse[raw[a][n]], binds')
    <3>1. n \in Nat
      BY <1>0, <2>7, LenProperties
    <3>2. CASE a < id \/ n < pos
      <4>1. Superfluous(a, Parse[raw[a][n]], binds)
        BY <2>1, <2>7, <3>2 DEF LoadDropsNoMore
      <4> QED  BY <4>1, <2>5, <2>7
    <3>3. CASE a = id /\ n = pos
      BY <3>3, <2>6, <2>7
    <3> QED  BY <1>0, <2>7, <3>1, <3>2, <3>3
  <2> QED  BY <2>1, <2>7 DEF LoadDropsNoMore
<1>3. CASE LoadNextId
  <2>1. /\ phase \in {"loading", "restoring"} /\ id \in Ids
        /\ id \in Known => pos \notin DOMAIN raw[id]
        /\ unknown' = (IF id \in Known THEN unknown ELSE [unknown EXCEPT ![id] = raw[id]])
        /\ id' = id + 1 /\ pos' = 1
        /\ UNCHANGED <<binds, phase, raw>>
    BY <1>3 DEF LoadNextId, Loading
  <2>2. \A a \in Ids : \A n \in DOMAIN raw[a] :
          n \in Nat \ {0} /\ (a = id /\ a \in Known => n < pos)
    BY <1>0, <2>1, LenProperties
  <2>3. ASSUME NEW a \in 1 .. id + 1, a \in Ids
        PROVE  IF a \in Known
                THEN \A n \in DOMAIN raw[a] :
                       (a < id + 1 \/ n < 1) /\ Parse[raw[a][n]] # Bad =>
                         Superfluous(a, Parse[raw[a][n]], binds)
                ELSE a < id + 1 => unknown'[a] = raw[a]
    <3>1. CASE a \in Known
      <4>1. ASSUME NEW n \in DOMAIN raw[a], a < id + 1 \/ n < 1, Parse[raw[a][n]] # Bad
            PROVE  Superfluous(a, Parse[raw[a][n]], binds)
        <5>1. a \in 1 .. id /\ (a < id \/ n < pos)
          BY <1>0, <2>2, <2>3, <3>1, <4>1
        <5> QED  BY <2>1, <2>3, <3>1, <4>1, <5>1 DEF LoadDropsNoMore
      <4> QED  BY <3>1, <4>1
    <3>2. CASE a \notin Known
      <4>1. CASE a = id
        BY <4>1, <3>2, <1>0, <2>1
      <4>2. CASE a < id
        <5>1. a \in 1 .. id
          BY <1>0, <2>3, <4>2
        <5>2. unknown[a] = raw[a]
          BY <2>1, <2>3, <3>2, <4>2, <5>1 DEF LoadDropsNoMore
        <5>3. a # id
          BY <1>0, <2>3, <4>2
        <5>4. unknown'[a] = unknown[a]
          BY <5>3, <1>0, <2>1, <2>3
        <5> QED  BY <3>2, <5>2, <5>4
      <4> QED  BY <3>2, <4>1, <4>2, <1>0, <2>3
    <3> QED  BY <3>1, <3>2
  <2> QED  BY <2>1, <2>3 DEF LoadDropsNoMore
<1>4. CASE \/ Loaded \/ Saves \/ Stops
  BY <1>4 DEF Loaded, Saves, Stops, LoadDropsNoMore
<1>5. ASSUME NEW a \in Known,
             \/ \E t \in Triggers : Add(a, t)
             \/ \E n \in DOMAIN binds[a] : RemoveAt(a, n)
             \/ Clear(a)
      PROVE  LoadDropsNoMore'
  BY <1>5 DEF Add, RemoveAt, Clear, Call, LoadDropsNoMore
<1>6. CASE HandEdit
  BY <1>6 DEF HandEdit, LoadDropsNoMore
<1>7. CASE UNCHANGED vars
  BY <1>7 DEF vars, place, LoadDropsNoMore
<1> QED  BY <1>1, <1>2, <1>3, <1>4, <1>5, <1>6, <1>7 DEF Next

(***************************************************************************)
(* The keybinding store: the theorems                                      *)
(***************************************************************************)

(* Every step of Load, of a change, of its undo and of a hand on the file  *)
(* keeps the invariant (Load, Add, RemoveAt, Clear, save).                 *)
THEOREM Invariance ==
  ASSUME KeyAssumption
  PROVE  Spec => []KeyInv
<1>1. Init => KeyInv
  BY KeyInit
<1>2. KeyInv /\ [Next]_vars => KeyInv'
  BY KeyNext
<1> QED  BY <1>1, <1>2, PTL DEF Spec

(* The variables keep their types (the store, its file and Load's place).  *)
THEOREM TypeCorrect ==
  ASSUME KeyAssumption
  PROVE  Spec => []TypeOK
<1>1. KeyInv => TypeOK
  BY DEF KeyInv
<1> QED  BY <1>1, Invariance, PTL

(* "A trigger belongs to at most one action, and the invariant is          *)
(* inductive over every mutator" (store.go, Add); and an action has at     *)
(* most one chord (Load, Add).                                             *)
THEOREM OnePressOneAction ==
  ASSUME KeyAssumption
  PROVE  Spec => [](OneOwner /\ OneChord)
<1>1. KeyInv => OneOwner /\ OneChord
  BY DEF KeyInv, Sound, OneOwner, OneChord
<1> QED  BY <1>1, Invariance, PTL

(* Taking a change back by loading the snapshot made before it restores    *)
(* the store, and a restart loads what was saved (kb.Load(before)).        *)
THEOREM UndoIsExact ==
  ASSUME KeyAssumption
  PROVE  Spec => []StoreIsWhatWasSaved
<1>1. KeyInv => StoreIsWhatWasSaved
  BY DEF KeyInv
<1> QED  BY <1>1, Invariance, PTL

(* A press fires one action, the one the user saved it for; and a file is  *)
(* read without losing what could be kept (Load).                          *)
THEOREM KeysKept ==
  ASSUME KeyAssumption
  PROVE  Spec => []KeysAreKept
<1> DEFINE Inv == KeyInv /\ LoadDropsNoMore
<1>1. Init => Inv
  BY KeyInit, DropsInit
<1>2. Inv /\ [Next]_vars => Inv'
  BY KeyNext, DropsNext
<1>3. Inv => KeysAreKept
  BY DEF KeyInv, Sound, KeysAreKept, OneOwner, OneChord
<1> QED  BY <1>1, <1>2, <1>3, PTL DEF Spec

(***************************************************************************)
(* The log of the transmissions and its file                               *)
(***************************************************************************)

LogFlushing == [at : {"write", "rename", "mark"}, snap : Seq(Nat), rev : Nat]

LogType ==
  /\ entries \in Seq(Nat) /\ dirty \in BOOLEAN /\ rev \in Nat /\ rowsSoFar \in Nat
  /\ logFlush \in [Log!Flushers -> {Log!AtRest, [at |-> "written"], [at |-> "failed"]}
                                     \cup LogFlushing]
  /\ logFails \in Nat /\ logStopped \in BOOLEAN
  /\ shutdown \in {"running", "joining", "flush", "exited"}

LogOneWriter ==
  /\ logStopped <=> shutdown # "running"
  /\ logFlush["ticker"].at \notin {"written", "failed"}
  /\ shutdown \in {"running", "joining"} => logFlush["shutdown"] = Log!AtRest
  /\ shutdown \in {"flush", "exited"} => logFlush["ticker"] = Log!AtRest

LogSnapshot(f) ==
  logFlush[f] \in LogFlushing =>
    /\ dirty
    /\ logFlush[f].rev <= rev
    /\ logFlush[f].rev = rev => logFlush[f].snap = entries
    /\ f = "shutdown" => logFlush[f].rev = rev /\ shutdown = "flush"
    /\ logFlush[f].at = "rename" => tmp = [at |-> "there", content |-> logFlush[f].snap]
    /\ logFlush[f].at = "mark" => logFile = logFlush[f].snap

LogSnapshots == \A f \in Log!Flushers : LogSnapshot(f)

LogEnds ==
  /\ logFlush["shutdown"].at = "written" => ~dirty
  /\ logFlush["shutdown"].at = "failed" => logFails > 0
  /\ shutdown = "exited" => ~dirty \/ logFlush["shutdown"].at = "failed"

LogInv == LogType /\ LogOneWriter /\ LogSnapshots /\ LogEnds /\ Log!CleanMeansOnFile

\* A log that has just been opened is clean and its file is what was read.
LEMMA LogInitial == Log!Init => LogInv
<1> SUFFICES ASSUME Log!Init PROVE LogInv
  OBVIOUS
<1> USE DEF Log!Init
<1>1. \A f \in Log!Flushers : logFlush[f] = [at |-> "idle"]
  BY DEF Log!AtRest
<1>2. [at |-> "idle"] \notin LogFlushing
  BY DEF LogFlushing
<1>3. LogSnapshots
  BY <1>1, <1>2 DEF LogSnapshots, LogSnapshot
<1>4. LogOneWriter /\ LogEnds /\ Log!CleanMeansOnFile
  BY <1>1 DEF LogOneWriter, LogEnds, Log!CleanMeansOnFile, Log!Flushers, Log!AtRest
<1>5. LogType
  BY EmptySeq DEF LogType, Log!AtRest
<1> QED BY <1>3, <1>4, <1>5 DEF LogInv

\* What a flush holds stays what it is while the log goes on.
LEMMA LogAppends ==
  ASSUME LogInv, Log!AppendRow \/ Log!Clear
  PROVE  LogInv'
<1> USE DEF LogInv, Log!disk
<1>1. entries' \in Seq(Nat) /\ rowsSoFar' \in Nat
  <2>1. CASE Log!Clear
    BY <2>1 DEF Log!Clear, LogType
  <2>2. CASE Log!AppendRow
    <3>1. Len(entries) = LogCap => entries # << >>
      BY LogBounds, EmptySeq DEF Log!LogAssumption, LogType
    <3>2. (IF Len(entries) = LogCap THEN Tail(entries) ELSE entries) \in Seq(Nat)
      BY <3>1, HeadTailProperties DEF LogType
    <3> QED BY <2>2, <3>2, AppendProperties DEF Log!AppendRow, LogType
  <2> QED BY <2>1, <2>2
<1>2. dirty' = TRUE /\ rev' = rev + 1 /\ shutdown = "running"
  BY DEF Log!Clear, Log!AppendRow
<1>3. UNCHANGED <<logFile, tmp, logFails, logFlush, logStopped, shutdown>>
  BY DEF Log!Clear, Log!AppendRow
<1>4. LogType'
  BY <1>1, <1>2, <1>3 DEF LogType
<1>5. LogOneWriter'
  BY <1>3 DEF LogOneWriter
<1>6. ASSUME NEW f \in Log!Flushers PROVE LogSnapshot(f)'
  <2>1. SUFFICES ASSUME logFlush[f] \in LogFlushing PROVE LogSnapshot(f)'
    BY <1>3 DEF LogSnapshot
  <2>2. f # "shutdown"
    BY <1>2, <2>1 DEF LogOneWriter, LogFlushing, Log!AtRest
  <2>3. logFlush[f].rev \in Nat /\ logFlush[f].rev <= rev
    BY <2>1 DEF LogSnapshots, LogSnapshot, LogFlushing
  <2> QED BY <1>2, <1>3, <2>1, <2>2, <2>3 DEF LogSnapshots, LogSnapshot, LogType
<1>7. LogEnds' /\ Log!CleanMeansOnFile'
  BY <1>2, <1>3 DEF LogEnds, Log!CleanMeansOnFile, LogOneWriter, Log!AtRest
<1> QED BY <1>4, <1>5, <1>6, <1>7 DEF LogSnapshots

\* One flush at a time has a snapshot: the ticker's, until it is waited for.
LEMMA LogOthersRest ==
  ASSUME LogInv, NEW f \in Log!Flushers, NEW g \in Log!Flushers, g # f,
         logFlush[f] \in LogFlushing
  PROVE  logFlush[g] \notin LogFlushing
<1>1. logFlush["ticker"] = Log!AtRest \/ logFlush["shutdown"] = Log!AtRest
  BY DEF LogInv, LogType, LogOneWriter
<1>2. Log!AtRest \notin LogFlushing
  BY DEF Log!AtRest, LogFlushing
<1> QED BY <1>1, <1>2 DEF Log!Flushers

\* The snapshot is what is in the log, and the shutdown's stays it.
LEMMA LogSnapshotTaken ==
  ASSUME LogInv, NEW f \in Log!Flushers, Log!Snapshots(f)
  PROVE  LogInv'
<1> USE DEF LogInv, Log!disk, Log!log
<1> DEFINE new == [at |-> "write", snap |-> entries, rev |-> rev]
<1>1. /\ dirty /\ logFlush[f] = Log!AtRest
      /\ f = "ticker" => shutdown = "running"
      /\ f = "shutdown" => shutdown = "flush"
  BY DEF Log!Snapshots, LogOneWriter
<1>2. new \in LogFlushing /\ new.at = "write" /\ new.snap = entries /\ new.rev = rev
  BY DEF LogFlushing, LogType
<1>3. logFlush' = [logFlush EXCEPT ![f] = new]
  BY DEF Log!Snapshots, Log!Goes
<1>4. UNCHANGED <<entries, dirty, rev, rowsSoFar, logFile, tmp, logFails, logStopped, shutdown>>
  BY DEF Log!Snapshots
<1>5. LogType'
  BY <1>2, <1>3, <1>4 DEF LogType
<1>6. LogOneWriter'
  BY <1>1, <1>2, <1>3, <1>4 DEF LogOneWriter, LogType, Log!Flushers
<1>7. ASSUME NEW g \in Log!Flushers PROVE LogSnapshot(g)'
  <2>1. CASE g = f
    <3>1. logFlush'[g] = new
      BY <1>3, <2>1 DEF LogType
    <3> QED BY <3>1, <1>1, <1>2, <1>4, <2>1 DEF LogSnapshot, LogType
  <2>2. CASE g # f
    <3>1. logFlush'[g] = logFlush[g]
      BY <1>3, <2>2 DEF LogType
    <3> QED BY <3>1, <1>4 DEF LogSnapshots, LogSnapshot
  <2> QED BY <2>1, <2>2
<1>8. LogEnds' /\ Log!CleanMeansOnFile'
  BY <1>1, <1>2, <1>3, <1>4 DEF LogEnds, LogType, Log!CleanMeansOnFile, Log!Flushers
<1> QED BY <1>5, <1>6, <1>7, <1>8 DEF LogSnapshots

\* Whoever writes, renames or marks has a snapshot.
LEMMA LogActive ==
  ASSUME LogInv, NEW f \in Log!Flushers, logFlush[f].at \in {"write", "rename", "mark"}
  PROVE  /\ logFlush[f] \in LogFlushing /\ dirty
         /\ f = "ticker" => shutdown \in {"running", "joining"}
         /\ f = "shutdown" => shutdown = "flush"
  BY DEF LogInv, LogType, LogSnapshots, LogSnapshot, LogOneWriter, Log!AtRest, Log!Flushers

\* A flush that ends leaves a log that is clean only if it is on file.
LEMMA LogFlushEnds ==
  ASSUME LogInv, NEW f \in Log!Flushers, NEW how \in {"written", "failed"},
         logFlush[f] \in LogFlushing,
         f = "ticker" => shutdown \in {"running", "joining"},
         f = "shutdown" => shutdown = "flush",
         Log!Ends(f, how),
         UNCHANGED <<entries, rev, rowsSoFar, logFile, logStopped, shutdown>>,
         dirty' \in BOOLEAN, ~dirty' => logFile = entries,
         logFails' \in Nat, logFails' >= logFails,
         f = "shutdown" => (how = "failed" => logFails' > 0) /\ (how = "written" => ~dirty')
  PROVE  LogInv'
<1> USE DEF LogInv
<1> DEFINE end == IF f = "ticker" THEN Log!AtRest ELSE [at |-> how]
<1>1. /\ end \in {Log!AtRest, [at |-> "written"], [at |-> "failed"]}
      /\ end \notin LogFlushing
  BY DEF Log!AtRest, LogFlushing
<1>2. logFlush' = [logFlush EXCEPT ![f] = end]
  BY DEF Log!Ends, Log!Goes
<1>3. \A g \in Log!Flushers : logFlush'[g] = IF g = f THEN end ELSE logFlush[g]
  BY <1>2 DEF LogType
<1>4. LogType'
  BY <1>1, <1>2 DEF LogType
<1>5. LogOneWriter'
  BY <1>3 DEF LogOneWriter, Log!AtRest, Log!Flushers
<1>6. LogSnapshots'
  BY <1>1, <1>3, LogOthersRest DEF LogSnapshots, LogSnapshot
<1>7. LogEnds'
  <2>1. CASE f = "shutdown"
    <3>1. logFlush'["shutdown"] = [at |-> how]
      BY <1>3, <2>1 DEF Log!Flushers
    <3> QED BY <2>1, <3>1 DEF LogEnds
  <2>2. CASE f = "ticker"
    <3>1. logFlush'["shutdown"] = logFlush["shutdown"]
      BY <1>3, <2>2 DEF Log!Flushers
    <3>2. logFlush["shutdown"] = Log!AtRest
      BY <2>2 DEF LogOneWriter
    <3> QED BY <2>2, <3>1, <3>2 DEF LogEnds, Log!AtRest
  <2> QED BY <2>1, <2>2 DEF Log!Flushers
<1>8. Log!CleanMeansOnFile'
  BY DEF Log!CleanMeansOnFile
<1> QED BY <1>4, <1>5, <1>6, <1>7, <1>8

\* A flush that goes on keeps its snapshot.
LEMMA LogFlushGoesOn ==
  ASSUME LogInv, NEW f \in Log!Flushers, NEW at \in {"rename", "mark"},
         logFlush[f] \in LogFlushing,
         logFlush' = [logFlush EXCEPT ![f] = [logFlush[f] EXCEPT !.at = at]],
         UNCHANGED <<entries, dirty, rev, rowsSoFar, logFails, logStopped, shutdown>>,
         at = "rename" => tmp' = [at |-> "there", content |-> logFlush[f].snap],
         at = "mark" => logFile' = logFlush[f].snap
  PROVE  LogInv'
<1> USE DEF LogInv
<1> DEFINE on == [logFlush[f] EXCEPT !.at = at]
<1>1. /\ on \in LogFlushing /\ on.at = at
      /\ on.snap = logFlush[f].snap /\ on.rev = logFlush[f].rev
  BY DEF LogFlushing
<1>2. \A g \in Log!Flushers : logFlush'[g] = IF g = f THEN on ELSE logFlush[g]
  BY DEF LogType
<1>3. LogType'
  BY <1>1 DEF LogType
<1>4. LogSnapshots'
  <2> SUFFICES ASSUME NEW g \in Log!Flushers, logFlush'[g] \in LogFlushing
               PROVE  LogSnapshot(g)'
    BY DEF LogSnapshots, LogSnapshot
  <2>1. g = f
    BY <1>2, LogOthersRest
  <2> QED BY <2>1, <1>1, <1>2 DEF LogSnapshots, LogSnapshot
<1>5. f = "shutdown" => shutdown = "flush"
  BY DEF LogSnapshots, LogSnapshot
<1>6. f = "ticker" => logFlush["ticker"] # Log!AtRest
  BY DEF LogFlushing, Log!AtRest
<1>7. LogOneWriter'
  BY <1>1, <1>2, <1>5, <1>6 DEF LogOneWriter, Log!Flushers
<1>8. LogEnds'
  BY <1>1, <1>2, <1>5 DEF LogEnds, Log!Flushers
<1>9. Log!CleanMeansOnFile'
  BY DEF LogSnapshots, LogSnapshot, Log!CleanMeansOnFile
<1> QED BY <1>3, <1>4, <1>7, <1>8, <1>9

\* A flush writes its snapshot, renames the file and marks the log clean only if
\* nothing was appended since; or it fails (Store.Flush).
LEMMA LogFlushStep ==
  ASSUME LogInv, NEW f \in Log!Flushers,
         Log!Fails(f) \/ Log!Writes(f) \/ Log!Renames(f) \/ Log!MarksClean(f)
  PROVE  LogInv'
<1> USE DEF Log!log, Log!disk
<1>1. logFlush[f].at \in {"write", "rename", "mark"}
  BY DEF Log!Fails, Log!Writes, Log!Renames, Log!MarksClean
<1>2. /\ logFlush[f] \in LogFlushing /\ dirty
      /\ f = "ticker" => shutdown \in {"running", "joining"}
      /\ f = "shutdown" => shutdown = "flush"
  BY <1>1, LogActive
<1>3. logFails \in Nat /\ dirty \in BOOLEAN
  BY DEF LogInv, LogType
<1>4. /\ logFlush[f].at = "rename" => tmp = [at |-> "there", content |-> logFlush[f].snap]
      /\ logFlush[f].at = "mark" => logFile = logFlush[f].snap
      /\ logFlush[f].rev = rev => logFlush[f].snap = entries
      /\ f = "shutdown" => logFlush[f].rev = rev
  BY <1>2 DEF LogInv, LogSnapshots, LogSnapshot
<1>5. CASE Log!Fails(f)
  <2>1. logFails' = logFails + 1 /\ Log!Ends(f, "failed")
    BY <1>5 DEF Log!Fails
  <2>2. UNCHANGED <<entries, rev, dirty, rowsSoFar, logFile, logStopped, shutdown>>
    BY <1>5 DEF Log!Fails
  <2> QED BY <1>2, <1>3, <2>1, <2>2, LogFlushEnds
<1>6. CASE Log!Writes(f)
  BY <1>2, <1>6, LogFlushGoesOn DEF Log!Writes, Log!Goes
<1>7. CASE Log!Renames(f)
  <2>1. tmp # Log!None /\ tmp.content = logFlush[f].snap
    BY <1>4, <1>7 DEF Log!Renames, Log!None
  <2> QED BY <1>2, <1>7, <2>1, LogFlushGoesOn DEF Log!Renames, Log!Goes
<1>8. CASE Log!MarksClean(f)
  <2>1. /\ Log!Ends(f, "written")
        /\ dirty' = (dirty /\ rev # logFlush[f].rev)
        /\ UNCHANGED <<entries, rev, rowsSoFar, logFile, logFails, logStopped, shutdown>>
    BY <1>8 DEF Log!MarksClean
  <2>2. dirty' \in BOOLEAN /\ (~dirty' => logFile = entries) /\ (f = "shutdown" => ~dirty')
    BY <1>2, <1>4, <1>8, <2>1 DEF Log!MarksClean
  <2> QED BY <1>2, <1>3, <2>1, <2>2, LogFlushEnds
<1> QED BY <1>5, <1>6, <1>7, <1>8

\* ServiceShutdown waits for the ticker before it flushes for the last time.
LEMMA LogShutdownStep ==
  ASSUME LogInv, Log!StopsTicker \/ Log!JoinsTicker \/ Log!Exits
  PROVE  LogInv'
<1> USE DEF LogInv
<1>1. /\ UNCHANGED <<entries, dirty, rev, rowsSoFar, logFile, tmp, logFails, logFlush>>
      /\ shutdown' \in {"joining", "flush", "exited"} /\ shutdown # "exited"
      /\ logStopped' = TRUE
  BY DEF Log!StopsTicker, Log!JoinsTicker, Log!Exits, Log!log, Log!disk, LogOneWriter
<1>2. LogType'
  BY <1>1 DEF LogType
<1>3. LogOneWriter' /\ (logFlush["shutdown"] \in LogFlushing => shutdown' = "flush")
  <2>1. CASE Log!StopsTicker
    BY <2>1, <1>1 DEF Log!StopsTicker, LogOneWriter, LogFlushing, Log!AtRest
  <2>2. CASE Log!JoinsTicker
    BY <2>2, <1>1 DEF Log!JoinsTicker, LogOneWriter, LogFlushing, Log!AtRest
  <2>3. CASE Log!Exits
    BY <2>3, <1>1 DEF Log!Exits, LogOneWriter, LogFlushing, Log!AtRest
  <2> QED BY <2>1, <2>2, <2>3
<1>4. LogSnapshots'
  BY <1>1, <1>3 DEF LogSnapshots, LogSnapshot
<1>5. LogEnds'
  BY <1>1 DEF LogEnds, Log!Exits, Log!StopsTicker, Log!JoinsTicker
<1>6. Log!CleanMeansOnFile'
  BY <1>1 DEF Log!CleanMeansOnFile
<1> QED BY <1>2, <1>3, <1>4, <1>5, <1>6

\* Every step of the log and of its flushes keeps the invariant (Append, Clear,
\* Flush, ServiceShutdown).
LEMMA LogPreserved == LogInv /\ [Log!Next]_logVars => LogInv'
<1> SUFFICES ASSUME LogInv, [Log!Next]_logVars PROVE LogInv'
  OBVIOUS
<1>1. CASE UNCHANGED logVars
  BY <1>1 DEF LogInv, LogType, LogOneWriter, LogSnapshots, LogSnapshot, LogEnds,
              Log!CleanMeansOnFile, logVars
<1>2. CASE Log!Next
  BY <1>2, LogAppends, LogSnapshotTaken, LogFlushStep, LogShutdownStep DEF Log!Next
<1> QED BY <1>1, <1>2

\* What the history promises of its file follows.
LEMMA LogInvImplies == LogInv => Log!LogIsKept
  BY DEF LogInv, LogEnds, Log!LogIsKept, Log!CleanMeansOnFile, Log!QuitKeepsTheLog

(***************************************************************************)
(* The rows of a voice session                                             *)
(***************************************************************************)

RowStream == [started : Row!Rows, ended : BOOLEAN, seen : {Row!Fresh, Row!Idle, Row!Silent}]

RowPass ==
  [at : {"scan"}, todo : SUBSET Talkers, silent : SUBSET Talkers]
  \cup [at : {"scan"}, key : Talkers \cup Row!Rows, todo : SUBSET Talkers, silent : SUBSET Talkers]
  \cup [at : {"ending", "storing"}, key : Talkers, todo : SUBSET Talkers, silent : SUBSET Talkers]
  \cup [at : {"queueing"}, key : Row!Rows, todo : SUBSET Talkers, silent : SUBSET Talkers]

RowReading == [at : {"found", "stamped", "restart"}, key : Talkers]

RowDelivering == [at : {"deliver"}, row : Row!Rows]

RowType ==
  /\ streams \in [Talkers -> {Row!None} \cup RowStream] /\ muHeld \in BOOLEAN
  /\ rowReader \in {Row!AtRest} \cup RowReading
  /\ pass \in {Row!AtRest, Row!Exited} \cup RowPass
  /\ delivery \in {Row!AtRest, Row!Exited} \cup RowDelivering
  /\ queue \in Seq(Row!Rows) /\ dropped \in BOOLEAN
  /\ closer \in {"open", "queue", "join", "closed"} /\ sweep \in SUBSET Row!Rows
  /\ done \in BOOLEAN
  /\ begun \in 0 .. MaxRows /\ rowOwed \in SUBSET (1 .. begun)
  /\ logged \in [Row!Rows -> Nat]

RowEnding == pass.at \in {"ending", "storing"}

\* What the pass has yet to look at and what it may reap is there, and what it
\* may reap has ended unless a packet came or the pass is at it.
RowPassHolds ==
  /\ pass.at = "storing" <=> muHeld
  /\ pass \in RowPass =>
       /\ pass.todo \subseteq Row!Open /\ pass.silent \subseteq Row!Open
       /\ pass.todo \cap pass.silent = {}
       /\ RowEnding => pass.key \in Row!Open /\ pass.key \notin pass.todo
       /\ pass.at = "storing" => ~streams[pass.key].ended
       /\ \A t \in pass.silent :
            streams[t].seen = Row!Silent /\ ~(RowEnding /\ pass.key = t) => streams[t].ended

RowReaderHolds == rowReader # Row!AtRest => rowReader.key \in Row!Open

RowCloses ==
  /\ done <=> closer \in {"join", "closed"}
  /\ closer # "queue" => sweep = {}
  /\ closer = "closed" =>
       /\ queue = << >> /\ rowReader = Row!AtRest
       /\ pass = Row!Exited /\ delivery = Row!Exited

\* No two streams are of one transmission.
RowStarts ==
  /\ \A t \in Row!Open : streams[t].started <= begun
  /\ \A t, u \in Row!Open : streams[t].started = streams[u].started => t = u

\* The places of a row.
RowLive(n) == \E t \in Row!Open : ~streams[t].ended /\ streams[t].started = n
RowInPass(n) == pass.at = "queueing" /\ pass.key = n
RowInSweep(n) == n \in sweep
RowInQueue(n) == \E i \in DOMAIN queue : queue[i] = n
RowInDelivery(n) == delivery.at = "deliver" /\ delivery.row = n
RowLogged(n) == logged[n] # 0

RowSomewhere(n) ==
  RowInPass(n) \/ RowInSweep(n) \/ RowInQueue(n) \/ RowInDelivery(n) \/ RowLogged(n)

RowOnce(n) ==
  /\ RowLive(n) \/ n > begun => ~RowSomewhere(n)
  /\ RowInPass(n) => ~(RowInSweep(n) \/ RowInQueue(n) \/ RowInDelivery(n) \/ RowLogged(n))
  /\ RowInSweep(n) => ~(RowInQueue(n) \/ RowInDelivery(n) \/ RowLogged(n))
  /\ RowInQueue(n) => ~(RowInDelivery(n) \/ RowLogged(n))
  /\ RowInDelivery(n) => ~RowLogged(n)

RowsOnce ==
  /\ \A n \in Row!Rows : RowOnce(n) /\ logged[n] <= 1
  /\ \A i, j \in DOMAIN queue : queue[i] = queue[j] => i = j

RowsOwed ==
  \A n \in rowOwed :
    /\ ~dropped => RowLive(n) \/ RowSomewhere(n)
    /\ closer # "open" => ~RowLive(n)

RowShape == RowType /\ RowPassHolds /\ RowReaderHolds /\ RowCloses /\ RowStarts

RowInv == RowShape /\ RowsOnce /\ RowsOwed

\* A session that has just begun has no stream and no row.
LEMMA RowInitial == Row!Init => RowInv
<1> SUFFICES ASSUME Row!Init PROVE RowInv
  OBVIOUS
<1> USE DEF Row!Init
<1>1. Row!Open = {}
  BY DEF Row!Open
<1>2. MaxRows \in Nat
  BY RowBounds DEF Row!RowsAssumption
<1>3. /\ queue = << >> /\ << >> \in Seq(Row!Rows) /\ begun = 0 /\ 0 \in 0 .. MaxRows
      /\ rowOwed = {} /\ logged = [n \in Row!Rows |-> 0]
  BY <1>2, EmptySeq
<1>3a. RowType
  <2>1. streams \in [Talkers -> {Row!None} \cup RowStream] /\ muHeld \in BOOLEAN
    OBVIOUS
  <2>2. logged \in [Row!Rows -> Nat]
    BY <1>3
  <2>3. begun \in 0 .. MaxRows /\ rowOwed \in SUBSET (1 .. begun)
    BY <1>3
  <2>4. queue \in Seq(Row!Rows) /\ dropped \in BOOLEAN
    BY <1>3
  <2>5. pass \in {Row!AtRest, Row!Exited} \cup RowPass
    OBVIOUS
  <2> QED BY <2>1, <2>2, <2>3, <2>4, <2>5 DEF RowType
<1>4. RowPassHolds /\ RowReaderHolds /\ RowCloses /\ RowStarts
  BY <1>1 DEF RowPassHolds, RowReaderHolds, RowCloses, RowStarts, RowPass, Row!AtRest
<1>5. \A n \in Row!Rows : ~RowSomewhere(n) /\ ~RowLive(n)
  BY <1>1 DEF RowSomewhere, RowLive, RowInPass, RowInSweep, RowInQueue, RowInDelivery, RowLogged,
              Row!AtRest
<1>6. RowsOnce /\ RowsOwed
  BY <1>5, EmptySeq DEF RowsOnce, RowOnce, RowsOwed, RowSomewhere, RowLogged
<1> QED BY <1>3a, <1>4, <1>6 DEF RowInv, RowShape

\* A transmission that begins has a number of its own.
LEMMA RowBegins ==
  ASSUME RowShape, NEW t \in Talkers, Row!Begins(t)
  PROVE  /\ begun' = begun + 1 /\ begun' \in 0 .. MaxRows /\ begun + 1 \in Row!Rows
         /\ streams' \in [Talkers -> {Row!None} \cup RowStream]
         /\ streams'[t] = [started |-> begun + 1, ended |-> FALSE, seen |-> Row!Fresh]
         /\ \A u \in Talkers \ {t} : streams'[u] = streams[u]
         /\ Row!Open' = Row!Open \cup {t}
         /\ rowOwed' = IF closer = "open" THEN rowOwed \cup {begun + 1} ELSE rowOwed
         /\ rowOwed' \in SUBSET (1 .. begun')
         /\ RowStarts'
<1> DEFINE new == [started |-> begun + 1, ended |-> FALSE, seen |-> Row!Fresh]
<1> USE DEF RowShape
<1>1. /\ MaxRows \in Nat /\ begun \in Nat /\ begun < MaxRows
      /\ streams' = [streams EXCEPT ![t] = new] /\ begun' = begun + 1
      /\ rowOwed' = IF closer = "open" THEN rowOwed \cup {begun + 1} ELSE rowOwed
  BY RowBounds DEF Row!RowsAssumption, Row!Begins, RowType
<1>2. begun + 1 \in Row!Rows /\ begun' \in 0 .. MaxRows
  BY <1>1 DEF Row!Rows
<1>3. new \in RowStream /\ new # Row!None
  BY <1>2 DEF RowStream, Row!None, Row!Fresh
<1>4. /\ streams' \in [Talkers -> {Row!None} \cup RowStream]
      /\ streams'[t] = new /\ \A u \in Talkers \ {t} : streams'[u] = streams[u]
  BY <1>1, <1>3 DEF RowType
<1>5. Row!Open' = Row!Open \cup {t}
  BY <1>3, <1>4 DEF Row!Open
<1>6. rowOwed' \in SUBSET (1 .. begun')
  BY <1>1 DEF RowType
<1>7. \A u \in Row!Open : streams[u].started \in Nat /\ streams[u].started <= begun
  BY DEF RowStarts, Row!Open, RowType, RowStream, Row!Rows
<1>8. \A u \in Row!Open' : IF u = t THEN streams'[u].started = begun + 1
                           ELSE u \in Row!Open /\ streams'[u].started = streams[u].started
  BY <1>4, <1>5 DEF Row!Open
<1>9. RowStarts'
  BY <1>1, <1>7, <1>8 DEF RowStarts
<1> QED BY <1>1, <1>2, <1>4, <1>5, <1>6, <1>9

\* queueRXEvent keeps the types.
LEMMA RowQueues ==
  ASSUME RowShape, NEW n \in Row!Rows, Row!Queues(n)
  PROVE  queue' \in Seq(Row!Rows) /\ dropped' \in BOOLEAN
<1>1. queue \in Seq(Row!Rows) /\ dropped \in BOOLEAN
  BY DEF RowShape, RowType
<1>2. Append(queue, n) \in Seq(Row!Rows)
  BY <1>1, AppendProperties
<1> QED BY <1>1, <1>2 DEF Row!Queues

\* What the receive goroutine does with a packet (rxVoice, noteTransmission).
LEMMA RowShapeReader ==
  ASSUME RowShape, Row!Reader
  PROVE  RowShape'
<1> USE DEF RowShape, Row!rows, Row!closing
<1>1. UNCHANGED <<muHeld, pass, delivery, queue, dropped, closer, sweep, done, logged>>
  BY DEF Row!Reader, Row!Packet, Row!Stamps, Row!Hints, Row!Restarts
<1>2. CASE Row!Restarts \/ \E t \in Talkers : Row!Packet(t)
  <2>1. PICK t \in Talkers :
          /\ ~muHeld /\ closer # "closed"
          /\ \/ t \in Row!Open /\ UNCHANGED <<streams, begun, rowOwed>>
             \/ Row!Begins(t) /\ (t \in Row!Open => streams[t].ended)
          /\ rowReader' = Row!AtRest \/ rowReader' = [at |-> "found", key |-> t]
    <3>1. CASE Row!Restarts
      BY <3>1, <1>2 DEF Row!Restarts, RowType, RowReaderHolds, RowCloses, Row!Open, Row!AtRest, RowReading
    <3>2. CASE \E t \in Talkers : Row!Packet(t)
      BY <3>2 DEF Row!Packet, Row!Open, RowCloses, RowType
    <3> QED BY <1>2, <3>1, <3>2
  <2>2. CASE t \in Row!Open /\ UNCHANGED <<streams, begun, rowOwed>>
    <3>1. Row!Open' = Row!Open
      BY <2>2 DEF Row!Open
    <3>2. rowReader' \in {Row!AtRest} \cup RowReading
      BY <2>1 DEF RowReading
    <3>3. RowType'
      BY <1>1, <2>2, <3>2 DEF RowType
    <3>4. RowPassHolds' /\ RowStarts'
      BY <1>1, <2>2, <3>1 DEF RowPassHolds, RowStarts, RowEnding
    <3>5. RowReaderHolds' /\ RowCloses'
      BY <1>1, <2>1, <2>2, <3>1 DEF RowReaderHolds, RowCloses
    <3> QED BY <3>3, <3>4, <3>5
  <2>3. CASE Row!Begins(t) /\ (t \in Row!Open => streams[t].ended)
    <3> DEFINE new == [started |-> begun + 1, ended |-> FALSE, seen |-> Row!Fresh]
    <3>1. /\ begun' \in 0 .. MaxRows
          /\ streams' \in [Talkers -> {Row!None} \cup RowStream]
          /\ streams'[t] = new
          /\ \A u \in Talkers \ {t} : streams'[u] = streams[u]
          /\ Row!Open' = Row!Open \cup {t}
          /\ rowOwed' \in SUBSET (1 .. begun')
          /\ RowStarts'
      BY <2>1, <2>3, RowBegins
    <3>2. rowReader' \in {Row!AtRest} \cup RowReading
      BY <2>1 DEF RowReading
    <3>3. RowType'
      BY <1>1, <3>1, <3>2 DEF RowType
    <3>4. RowReaderHolds' /\ RowCloses'
      BY <1>1, <2>1, <3>1 DEF RowReaderHolds, RowCloses
    <3>5. new.seen # Row!Silent
      BY DEF Row!Fresh, Row!Silent
    <3>6. pass \in RowPass => pass.silent \subseteq Talkers /\ (RowEnding => pass.key \in Talkers)
      BY DEF RowPassHolds, Row!Open
    <3>7. RowPassHolds'
      BY <1>1, <2>1, <2>3, <3>1, <3>5, <3>6 DEF RowPassHolds, RowEnding
    <3> QED BY <3>1, <3>3, <3>4, <3>7
  <2> QED BY <2>1, <2>2, <2>3
<1>3. CASE Row!Stamps
  <2> DEFINE k == rowReader.key
  <2>1. /\ rowReader \in RowReading /\ k \in Row!Open /\ streams[k] \in RowStream
        /\ closer # "closed" /\ UNCHANGED <<begun, rowOwed>>
        /\ rowReader' = [rowReader EXCEPT !.at = "stamped"]
    BY <1>3 DEF Row!Stamps, RowReaderHolds, RowType, Row!AtRest, Row!Open, RowCloses
  <2>2. streams' = [streams EXCEPT ![k] = [streams[k] EXCEPT !.seen = Row!Fresh]]
    BY <1>3 DEF Row!Stamps
  <2> DEFINE new == [streams[k] EXCEPT !.seen = Row!Fresh]
  <2>3. /\ new \in RowStream /\ new # Row!None /\ new.seen # Row!Silent
        /\ new.ended = streams[k].ended /\ new.started = streams[k].started
    BY <2>1 DEF RowStream, Row!None, Row!Fresh, Row!Silent
  <2>4. /\ streams' \in [Talkers -> {Row!None} \cup RowStream]
        /\ \A u \in Talkers : streams'[u] = IF u = k THEN new ELSE streams[u]
    BY <2>1, <2>2, <2>3 DEF RowType
  <2>5. Row!Open' = Row!Open
    BY <2>1, <2>3, <2>4 DEF Row!Open
  <2>6. rowReader' \in RowReading /\ rowReader'.key = k
    BY <2>1 DEF RowReading
  <2>7. RowType'
    BY <1>1, <2>1, <2>4, <2>6 DEF RowType
  <2>8. RowReaderHolds' /\ RowCloses'
    BY <1>1, <2>1, <2>5, <2>6 DEF RowReaderHolds, RowCloses
  <2>9. \A u \in Row!Open : /\ streams'[u].started = streams[u].started
                            /\ streams'[u].ended = streams[u].ended
                            /\ streams'[u].seen = Row!Silent => streams[u].seen = Row!Silent
    BY <2>3, <2>4 DEF Row!Open
  <2>10. RowStarts' /\ RowPassHolds'
    BY <1>1, <2>1, <2>5, <2>9 DEF RowStarts, RowPassHolds, RowEnding
  <2> QED BY <2>7, <2>8, <2>10
<1>4. CASE Row!Hints
  <2>1. /\ rowReader \in RowReading /\ closer # "closed"
        /\ UNCHANGED <<streams, begun, rowOwed>>
        /\ rowReader' = Row!AtRest \/ rowReader' = [rowReader EXCEPT !.at = "restart"]
    BY <1>4 DEF Row!Hints, RowType, Row!AtRest, RowCloses
  <2>2. rowReader' = Row!AtRest \/ (rowReader' \in RowReading /\ rowReader'.key = rowReader.key)
    BY <2>1 DEF RowReading
  <2>3. rowReader # Row!AtRest
    BY <2>1 DEF RowReading, Row!AtRest
  <2>4. RowType'
    BY <1>1, <2>1, <2>2 DEF RowType
  <2>5. Row!Open' = Row!Open
    BY <2>1 DEF Row!Open
  <2> QED BY <1>1, <2>1, <2>2, <2>3, <2>4, <2>5
          DEF RowReaderHolds, RowCloses, RowPassHolds, RowStarts, RowEnding
<1> QED BY <1>2, <1>3, <1>4 DEF Row!Reader

\* The places of the decode goroutine are told apart by "at".
LEMMA RowPassKinds ==
  /\ Row!AtRest \notin RowPass /\ Row!Exited \notin RowPass
  /\ Row!AtRest.at = "idle" /\ Row!Exited.at = "exited" /\ Row!AtRest # Row!Exited
  /\ \A p \in RowPass : /\ p.at \in {"scan", "ending", "storing", "queueing"}
                        /\ p.todo \in SUBSET Talkers /\ p.silent \in SUBSET Talkers
  BY DEF RowPass, Row!AtRest, Row!Exited

\* The records that a pass is made of are of its type.
LEMMA RowPassMade ==
  ASSUME NEW todo_ \in SUBSET Talkers, NEW silent_ \in SUBSET Talkers
  PROVE  /\ [at |-> "scan", todo |-> todo_, silent |-> silent_] \in RowPass
         /\ \A k \in Talkers : \A at \in {"scan", "ending", "storing"} :
              [at |-> at, key |-> k, todo |-> todo_, silent |-> silent_] \in RowPass
         /\ \A k \in Row!Rows :
              [at |-> "queueing", key |-> k, todo |-> todo_, silent |-> silent_] \in RowPass
  BY DEF RowPass

\* Streams that are left alone stay open.
LEMMA RowStreamsStay ==
  ASSUME RowShape, UNCHANGED streams
  PROVE  Row!Open' = Row!Open /\ \A t \in Row!Open : t \in Talkers /\ streams[t] \in RowStream
  BY DEF Row!Open, RowShape, RowType

\* A pass that looks on.
LEMMA RowShapePass ==
  ASSUME RowShape, Row!PassBegins \/ Row!PassEnds \/ Row!DecoderExits
                   \/ (\E t \in Talkers : Row!Scans(t)) \/ Row!EndLoads
  PROVE  RowShape'
<1> USE DEF RowShape, Row!rows, Row!rx, Row!closing
<1>1. /\ UNCHANGED <<streams, rowReader, begun, rowOwed, delivery, queue, dropped, logged, closer,
                     sweep, done>>
      /\ pass # Row!Exited
  BY RowPassKinds DEF Row!PassBegins, Row!PassEnds, Row!DecoderExits, Row!Scans, Row!EndLoads
<1>2. Row!Open' = Row!Open /\ \A t \in Row!Open : t \in Talkers /\ streams[t] \in RowStream
  BY <1>1, RowStreamsStay
<1>3. RowReaderHolds' /\ RowCloses' /\ RowStarts'
  BY <1>1, <1>2 DEF RowReaderHolds, RowCloses, RowStarts
<1>4. pass' \in {Row!AtRest, Row!Exited} \cup RowPass /\ muHeld' \in BOOLEAN /\ RowPassHolds'
  <2>1. CASE Row!PassBegins
    <3>1. /\ pass' = [at |-> "scan", todo |-> Row!Open, silent |-> {}] /\ UNCHANGED muHeld
          /\ pass = Row!AtRest
      BY <2>1 DEF Row!PassBegins
    <3>2. pass' \in RowPass /\ ~RowEnding'
      BY <3>1, <1>2, RowPassMade DEF RowEnding
    <3>3. ~muHeld /\ pass'.at = "scan" /\ pass'.todo = Row!Open /\ pass'.silent = {}
      BY <3>1, RowPassKinds DEF RowPassHolds
    <3> QED BY <3>1, <3>2, <3>3, <1>2 DEF RowType, RowPassHolds
  <2>2. CASE Row!PassEnds \/ Row!DecoderExits
    <3>1. /\ pass' \in {Row!AtRest, Row!Exited} /\ UNCHANGED muHeld
          /\ pass.at # "storing"
      BY <2>2, RowPassKinds DEF Row!PassEnds, Row!DecoderExits
    <3> QED BY <3>1, RowPassKinds DEF RowType, RowPassHolds
  <2>3. CASE \E t \in Talkers : Row!Scans(t)
    <3>1. PICK t \in Talkers : Row!Scans(t)
      BY <2>3
    <3> DEFINE due == ~streams[t].ended /\ streams[t].seen # Row!Fresh
               sil == IF streams[t].seen = Row!Silent THEN pass.silent \cup {t} ELSE pass.silent
               at_ == IF due THEN "ending" ELSE "scan"
    <3>2. /\ pass.at = "scan" /\ t \in pass.todo /\ UNCHANGED muHeld
          /\ pass' = [at |-> at_, key |-> t, todo |-> pass.todo \ {t}, silent |-> sil]
      BY <3>1 DEF Row!Scans
    <3>3. pass \in RowPass
      BY <3>2, RowPassKinds DEF RowType
    <3>4. pass.todo \in SUBSET Talkers /\ sil \in SUBSET Talkers
      BY <3>3, RowPassKinds
    <3>5. pass' \in RowPass
      BY <3>2, <3>4, RowPassMade
    <3>6. pass'.at = at_ /\ pass'.key = t /\ pass'.todo = pass.todo \ {t} /\ pass'.silent = sil
      BY <3>2
    <3>7. /\ ~muHeld /\ t \in Row!Open
          /\ pass.todo \subseteq Row!Open /\ pass.silent \subseteq Row!Open
          /\ pass.todo \cap pass.silent = {} /\ ~RowEnding
          /\ \A u \in pass.silent : streams[u].seen = Row!Silent => streams[u].ended
      BY <3>2, <3>3 DEF RowPassHolds, RowEnding
    <3>8. streams[t].seen = Row!Silent => streams[t].seen # Row!Fresh
      BY DEF Row!Silent, Row!Fresh
    <3> QED BY <3>2, <3>5, <3>6, <3>7, <3>8, <1>1, <1>2 DEF RowType, RowPassHolds, RowEnding
  <2>4. CASE Row!EndLoads
    <3> DEFINE over == ~streams[pass.key].ended /\ streams[pass.key].seen # Row!Fresh
               at_ == IF over THEN "storing" ELSE "scan"
    <3>1. /\ pass.at = "ending" /\ muHeld' = over
          /\ pass' = [pass EXCEPT !.at = at_]
      BY <2>4 DEF Row!EndLoads
    <3>2. pass \in [at : {"ending", "storing"}, key : Talkers, todo : SUBSET Talkers, silent : SUBSET Talkers]
      BY <3>1, RowPassKinds DEF RowType, RowPass
    <3>3. /\ pass \in RowPass
          /\ pass' = [at |-> at_, key |-> pass.key, todo |-> pass.todo, silent |-> pass.silent]
          /\ pass.key \in Talkers /\ pass.todo \in SUBSET Talkers /\ pass.silent \in SUBSET Talkers
      BY <3>1, <3>2 DEF RowPass
    <3>4. pass' \in RowPass
      BY <3>3, RowPassMade
    <3>5. /\ pass'.at = at_ /\ pass'.key = pass.key
          /\ pass'.todo = pass.todo /\ pass'.silent = pass.silent
      BY <3>3
    <3>6. /\ pass.key \in Row!Open /\ pass.key \notin pass.todo
          /\ pass.todo \subseteq Row!Open /\ pass.silent \subseteq Row!Open
          /\ pass.todo \cap pass.silent = {}
          /\ \A u \in pass.silent :
               streams[u].seen = Row!Silent /\ u # pass.key => streams[u].ended
      BY <3>1, <3>3 DEF RowPassHolds, RowEnding
    <3>7. streams[pass.key] \in RowStream
      BY <3>6, <1>2
    <3>8. over \in BOOLEAN /\ (~over => streams[pass.key].ended \/ streams[pass.key].seen # Row!Silent)
      BY <3>7 DEF Row!Silent, Row!Fresh
    <3>8a. (pass'.at = "storing") = over
      BY <3>5, <3>8
    <3>9. /\ pass'.at = "storing" <=> muHeld'
          /\ pass'.at = "storing" => ~streams'[pass'.key].ended
      BY <3>1, <3>5, <3>8a, <1>1
    <3>10. ASSUME NEW u \in pass'.silent, streams'[u].seen = Row!Silent,
                  ~(RowEnding' /\ pass'.key = u)
           PROVE  streams'[u].ended
      <4>1. CASE u = pass.key
        BY <4>1, <3>5, <3>8, <3>10, <1>1 DEF RowEnding
      <4>2. CASE u # pass.key
        BY <4>2, <3>5, <3>6, <3>10, <1>1
      <4> QED BY <4>1, <4>2
    <3>11. RowPassHolds'
      BY <3>5, <3>6, <3>9, <3>10, <1>2 DEF RowPassHolds
    <3> QED BY <3>1, <3>4, <3>8, <3>11
  <2> QED BY <2>1, <2>2, <2>3, <2>4
<1>5. RowType'
  BY <1>1, <1>4 DEF RowType
<1> QED BY <1>3, <1>4, <1>5

\* A pass that ends a transmission, queues its row or reaps a stream.
LEMMA RowShapeEnds ==
  ASSUME RowShape, Row!EndStores \/ Row!EndQueues
  PROVE  RowShape'
<1> USE DEF RowShape, Row!rows, Row!rx, Row!closing
<1>1. CASE Row!EndStores
  <2> DEFINE k == pass.key
             new == [streams[k] EXCEPT !.ended = TRUE]
  <2>1. /\ pass.at = "storing" /\ muHeld' = FALSE
        /\ pass' = [at |-> "queueing", key |-> streams[k].started,
                    todo |-> pass.todo, silent |-> pass.silent]
        /\ UNCHANGED <<rowReader, begun, rowOwed, delivery, queue, dropped, logged, closer, sweep, done>>
    BY <1>1 DEF Row!EndStores
  <2>2. streams' = [streams EXCEPT ![k] = new]
    BY <1>1 DEF Row!EndStores
  <2>3. pass \in RowPass /\ RowEnding
    BY <2>1, RowPassKinds DEF RowType, RowEnding
  <2>4. /\ k \in Row!Open /\ k \notin pass.todo
        /\ pass.todo \subseteq Row!Open /\ pass.silent \subseteq Row!Open
        /\ pass.todo \cap pass.silent = {}
        /\ \A u \in pass.silent : streams[u].seen = Row!Silent /\ u # k => streams[u].ended
    BY <2>3 DEF RowPassHolds
  <2>5. k \in Talkers /\ streams[k] \in RowStream
    BY <2>4 DEF Row!Open, RowType
  <2>6. /\ new \in RowStream /\ new.ended /\ new # Row!None
        /\ new.started = streams[k].started /\ new.seen = streams[k].seen
    BY <2>5 DEF RowStream, Row!None
  <2>7. /\ streams' \in [Talkers -> {Row!None} \cup RowStream]
        /\ \A u \in Talkers : streams'[u] = IF u = k THEN new ELSE streams[u]
    BY <2>2, <2>5, <2>6 DEF RowType
  <2>8. Row!Open' = Row!Open
    BY <2>4, <2>6, <2>7 DEF Row!Open
  <2>9. streams[k].started \in Row!Rows
    BY <2>5 DEF RowStream
  <2>10. pass.todo \in SUBSET Talkers /\ pass.silent \in SUBSET Talkers
    BY <2>3, RowPassKinds
  <2>11. /\ pass' \in RowPass /\ pass'.at = "queueing" /\ ~RowEnding'
         /\ pass'.todo = pass.todo /\ pass'.silent = pass.silent
    BY <2>1, <2>9, <2>10, RowPassMade DEF RowEnding
  <2>12. RowType'
    BY <2>1, <2>7, <2>11 DEF RowType
  <2>13. \A u \in Row!Open : /\ streams'[u].started = streams[u].started
                             /\ streams'[u].seen = streams[u].seen
                             /\ IF u = k THEN streams'[u].ended
                                          ELSE streams'[u].ended = streams[u].ended
    BY <2>6, <2>7 DEF Row!Open
  <2>14. RowPassHolds'
    BY <2>1, <2>4, <2>8, <2>11, <2>13 DEF RowPassHolds
  <2>15. RowReaderHolds' /\ RowStarts'
    BY <2>1, <2>8, <2>13 DEF RowReaderHolds, RowStarts
  <2>16. RowCloses'
    BY <2>1, <2>3, RowPassKinds DEF RowCloses
  <2> QED BY <2>12, <2>14, <2>15, <2>16
<1>2. CASE Row!EndQueues
  <2>1. /\ pass.at = "queueing" /\ Row!Queues(pass.key)
        /\ pass' = [at |-> "scan", todo |-> pass.todo, silent |-> pass.silent]
        /\ UNCHANGED <<streams, muHeld, rowReader, begun, rowOwed, delivery, logged, closer, sweep, done>>
    BY <1>2 DEF Row!EndQueues
  <2>2. pass \in RowPass
    BY <2>1, RowPassKinds DEF RowType
  <2>3. pass.key \in Row!Rows
    BY <2>1, <2>2 DEF RowPass
  <2>4. queue' \in Seq(Row!Rows) /\ dropped' \in BOOLEAN
    BY <2>1, <2>3, RowQueues
  <2>5. /\ pass' \in RowPass /\ pass'.at = "scan" /\ ~RowEnding'
        /\ pass'.todo = pass.todo /\ pass'.silent = pass.silent
    BY <2>1, <2>2, RowPassKinds, RowPassMade DEF RowEnding
  <2>6. RowType'
    BY <2>1, <2>4, <2>5 DEF RowType
  <2>7. Row!Open' = Row!Open
    BY <2>1 DEF Row!Open
  <2>8. RowPassHolds'
    BY <2>1, <2>2, <2>5, <2>7 DEF RowPassHolds, RowEnding
  <2>9. RowReaderHolds' /\ RowStarts'
    BY <2>1, <2>7 DEF RowReaderHolds, RowStarts
  <2>10. RowCloses'
    BY <2>1, <2>2, RowPassKinds DEF RowCloses
  <2> QED BY <2>6, <2>8, <2>9, <2>10
<1> QED BY <1>1, <1>2

\* Time passes between passes: a stream is silent for longer.
LEMMA RowShapeAges ==
  ASSUME RowShape, NEW t \in Talkers, Row!Ages(t)
  PROVE  RowShape'
<1> USE DEF RowShape, Row!rows, Row!closing
<1> DEFINE new == [streams[t] EXCEPT !.seen = IF streams[t].seen = Row!Fresh THEN Row!Idle ELSE Row!Silent]
<1>1. /\ pass = Row!AtRest /\ t \in Row!Open
      /\ UNCHANGED <<muHeld, rowReader, begun, rowOwed, pass, delivery, queue, dropped, logged, closer,
                     sweep, done>>
  BY DEF Row!Ages
<1>2. streams' = [streams EXCEPT ![t] = new]
  BY DEF Row!Ages
<1>3. streams[t] \in RowStream
  BY <1>1 DEF Row!Open, RowType
<1>4. /\ new \in RowStream /\ new # Row!None
      /\ new.started = streams[t].started /\ new.ended = streams[t].ended
  BY <1>3 DEF RowStream, Row!None
<1>5. /\ streams' \in [Talkers -> {Row!None} \cup RowStream]
      /\ \A u \in Talkers : streams'[u] = IF u = t THEN new ELSE streams[u]
  BY <1>2, <1>4 DEF RowType
<1>6. Row!Open' = Row!Open
  BY <1>1, <1>4, <1>5 DEF Row!Open
<1>7. \A u \in Row!Open : streams'[u].started = streams[u].started
  BY <1>4, <1>5 DEF Row!Open
<1>8. RowType'
  BY <1>1, <1>5 DEF RowType
<1>9. RowPassHolds'
  BY <1>1, RowPassKinds DEF RowPassHolds
<1>10. RowReaderHolds' /\ RowStarts' /\ RowCloses'
  BY <1>1, <1>6, <1>7 DEF RowReaderHolds, RowStarts, RowCloses
<1> QED BY <1>8, <1>9, <1>10

\* reap takes a stream away and nothing else.
LEMMA RowShapeReaps ==
  ASSUME RowShape, NEW t \in Talkers, Row!Reaps(t)
  PROVE  RowShape'
<1> USE DEF RowShape, Row!rows, Row!closing
<1> DEFINE gone == streams[t].seen = Row!Silent
<1>1. /\ pass.at = "scan" /\ pass.todo = {} /\ t \in pass.silent
      /\ pass' = [pass EXCEPT !.silent = pass.silent \ {t}]
      /\ UNCHANGED <<muHeld, begun, rowOwed, delivery, queue, dropped, logged, closer, sweep, done>>
  BY DEF Row!Reaps
<1>2. pass \in RowPass
  BY <1>1, RowPassKinds DEF RowType
<1>3. pass \in [at : {"scan"}, todo : SUBSET Talkers, silent : SUBSET Talkers]
      \/ pass \in [at : {"scan"}, key : Talkers \cup Row!Rows, todo : SUBSET Talkers, silent : SUBSET Talkers]
  BY <1>1, <1>2 DEF RowPass
<1>4. /\ pass' \in RowPass /\ pass'.at = "scan" /\ pass'.todo = {}
      /\ pass'.silent = pass.silent \ {t}
  BY <1>1, <1>3 DEF RowPass
<1>5. CASE gone
  <2>1. streams' = [streams EXCEPT ![t] = Row!None]
    BY <1>5 DEF Row!Reaps
  <2>2. rowReader' = IF rowReader # Row!AtRest /\ rowReader.key = t THEN Row!AtRest ELSE rowReader
    BY <1>5 DEF Row!Reaps
  <2>3. /\ streams' \in [Talkers -> {Row!None} \cup RowStream]
        /\ \A u \in Talkers : streams'[u] = IF u = t THEN Row!None ELSE streams[u]
    BY <2>1 DEF RowType
  <2>4. Row!Open' = Row!Open \ {t}
    BY <2>3 DEF Row!Open
  <2>5. RowType'
    BY <1>1, <1>4, <2>2, <2>3 DEF RowType
  <2>6. \A u \in Row!Open' : u \in Row!Open /\ streams'[u] = streams[u]
    BY <2>3, <2>4 DEF Row!Open
  <2>7. RowReaderHolds' /\ RowStarts'
    BY <1>1, <2>2, <2>4, <2>6 DEF RowReaderHolds, RowStarts
  <2>8. RowCloses'
    BY <1>1, <1>2, RowPassKinds DEF RowCloses
  <2>9. RowPassHolds'
    BY <1>1, <1>2, <1>4, <2>4, <2>6 DEF RowPassHolds, RowEnding
  <2> QED BY <2>5, <2>7, <2>8, <2>9
<1>6. CASE ~gone
  <2>1. UNCHANGED <<streams, rowReader>>
    BY <1>6 DEF Row!Reaps
  <2>2. RowType'
    BY <1>1, <1>4, <2>1 DEF RowType
  <2>3. Row!Open' = Row!Open
    BY <2>1 DEF Row!Open
  <2>4. RowReaderHolds' /\ RowStarts'
    BY <1>1, <2>1, <2>3 DEF RowReaderHolds, RowStarts
  <2>5. RowCloses'
    BY <1>1, <1>2, RowPassKinds DEF RowCloses
  <2>6. RowPassHolds'
    BY <1>1, <1>2, <1>4, <2>1, <2>3 DEF RowPassHolds, RowEnding
  <2> QED BY <2>2, <2>4, <2>5, <2>6
<1> QED BY <1>5, <1>6

\* rxDeliverLoop takes and delivers a row, or returns.
LEMMA RowShapeDelivery ==
  ASSUME RowShape, Row!Takes \/ Row!Delivers \/ Row!DeliveryExits
  PROVE  RowShape'
<1> USE DEF RowShape, Row!rows, Row!rx, Row!closing
<1>1. UNCHANGED <<streams, muHeld, rowReader, begun, rowOwed, pass, dropped, closer, sweep, done>>
  BY DEF Row!Takes, Row!Delivers, Row!DeliveryExits
<1>2. Row!Open' = Row!Open
  BY <1>1 DEF Row!Open
<1>3. RowPassHolds' /\ RowReaderHolds' /\ RowStarts'
  BY <1>1, <1>2 DEF RowPassHolds, RowReaderHolds, RowStarts, RowEnding
<1>4. delivery # Row!Exited
  BY DEF Row!Takes, Row!Delivers, Row!DeliveryExits, Row!AtRest, Row!Exited
<1>5. RowCloses'
  BY <1>1, <1>4 DEF RowCloses
<1>6. /\ delivery' \in {Row!AtRest, Row!Exited} \cup RowDelivering
      /\ queue' \in Seq(Row!Rows) /\ logged' \in [Row!Rows -> Nat]
  <2>1. CASE Row!Takes
    BY <2>1, HeadTailProperties DEF Row!Takes, RowType, RowDelivering
  <2>2. CASE Row!Delivers
    <3>1. delivery \in RowDelivering
      BY <2>2 DEF Row!Delivers, RowType, Row!AtRest, Row!Exited
    <3>2. delivery.row \in Row!Rows
      BY <3>1 DEF RowDelivering
    <3> QED BY <2>2, <3>2 DEF Row!Delivers, Row!OnRX, RowType
  <2>3. CASE Row!DeliveryExits
    BY <2>3 DEF Row!DeliveryExits, RowType
  <2> QED BY <2>1, <2>2, <2>3
<1>7. RowType'
  BY <1>1, <1>6 DEF RowType
<1> QED BY <1>3, <1>5, <1>7

\* Close queues what endOpenRXStreams found, closes done and drains.
LEMMA RowShapeClose ==
  ASSUME RowShape, Row!ClosesDone \/ Row!Drains \/ \E n \in Row!Rows : Row!SweepQueues(n)
  PROVE  RowShape'
<1> USE DEF RowShape, Row!rows, Row!rx, Row!closing
<1>1. /\ UNCHANGED <<streams, muHeld, rowReader, begun, rowOwed, pass, delivery>>
      /\ closer # "closed"
  BY DEF Row!ClosesDone, Row!Drains, Row!SweepQueues
<1>2. Row!Open' = Row!Open
  BY <1>1 DEF Row!Open
<1>3. RowPassHolds' /\ RowReaderHolds' /\ RowStarts'
  BY <1>1, <1>2 DEF RowPassHolds, RowReaderHolds, RowStarts, RowEnding
<1>4. CASE Row!ClosesDone
  <2>1. RowType'
    BY <1>4, <1>1 DEF Row!ClosesDone, RowType
  <2>2. RowCloses'
    BY <1>4, <1>1 DEF Row!ClosesDone, RowCloses
  <2> QED BY <1>3, <2>1, <2>2
<1>5. CASE Row!Drains
  <2>1. /\ queue' \in Seq(Row!Rows) /\ logged' \in [Row!Rows -> Nat]
        /\ closer' \in {"join", "closed"} /\ closer = "join"
        /\ UNCHANGED <<dropped, sweep, done>>
    <3>1. CASE queue = << >>
      BY <1>5, <3>1 DEF Row!Drains, RowType
    <3>2. CASE queue # << >>
      <4>1. Head(queue) \in Row!Rows /\ Tail(queue) \in Seq(Row!Rows)
        BY <3>2, HeadTailProperties DEF RowType
      <4>2. /\ closer = "join" /\ closer' = closer /\ queue' = Tail(queue)
            /\ logged' = [logged EXCEPT ![Head(queue)] = logged[Head(queue)] + 1]
            /\ UNCHANGED <<dropped, sweep, done>>
        BY <1>5, <3>2 DEF Row!Drains, Row!OnRX
      <4>3. logged' \in [Row!Rows -> Nat]
        BY <4>1, <4>2 DEF RowType
      <4> QED BY <4>1, <4>2, <4>3
    <3> QED BY <3>1, <3>2
  <2>2. RowType'
    BY <1>1, <2>1 DEF RowType
  <2>3. RowCloses'
    BY <1>5, <1>1, <2>1 DEF Row!Drains, RowCloses
  <2> QED BY <1>3, <2>2, <2>3
<1>6. CASE \E n \in Row!Rows : Row!SweepQueues(n)
  <2>1. PICK n \in Row!Rows : Row!SweepQueues(n)
    BY <1>6
  <2>2. /\ Row!Queues(n) /\ sweep' = sweep \ {n} /\ closer = "queue"
        /\ UNCHANGED <<logged, closer, done>>
    BY <2>1 DEF Row!SweepQueues
  <2>3. queue' \in Seq(Row!Rows) /\ dropped' \in BOOLEAN
    BY <2>2, RowQueues
  <2>4. RowType'
    BY <1>1, <2>2, <2>3 DEF RowType
  <2>5. RowCloses'
    BY <1>1, <2>2 DEF RowCloses
  <2> QED BY <1>3, <2>4, <2>5
<1> QED BY <1>4, <1>5, <1>6

\* endOpenRXStreams ends every open transmission, under rx.mu.
LEMMA RowShapeSweeps ==
  ASSUME RowShape, Row!Sweeps
  PROVE  RowShape'
<1> USE DEF RowShape, Row!rows, Row!closing
<1> DEFINE over == {t \in Row!Open : ~streams[t].ended}
<1>1. /\ closer = "open" /\ closer' = "queue" /\ ~muHeld
      /\ sweep' = {streams[t].started : t \in over}
      /\ streams' = [t \in Talkers |-> IF t \in over THEN [streams[t] EXCEPT !.ended = TRUE]
                                       ELSE streams[t]]
      /\ UNCHANGED <<muHeld, rowReader, begun, rowOwed, pass, delivery, queue, dropped, logged, done>>
  BY DEF Row!Sweeps
<1>2. \A t \in Row!Open : t \in Talkers /\ streams[t] \in RowStream
  BY DEF Row!Open, RowType
<1>3. ASSUME NEW t \in over
      PROVE  /\ [streams[t] EXCEPT !.ended = TRUE] \in RowStream
             /\ [streams[t] EXCEPT !.ended = TRUE] # Row!None
             /\ [streams[t] EXCEPT !.ended = TRUE].ended
             /\ [streams[t] EXCEPT !.ended = TRUE].started = streams[t].started
             /\ [streams[t] EXCEPT !.ended = TRUE].seen = streams[t].seen
  BY <1>2 DEF RowStream, Row!None
<1>4. streams' \in [Talkers -> {Row!None} \cup RowStream]
  BY <1>1, <1>3 DEF RowType
<1>5. Row!Open' = Row!Open
  BY <1>1, <1>3 DEF Row!Open
<1>6. \A t \in Row!Open : /\ streams'[t].started = streams[t].started
                          /\ streams'[t].seen = streams[t].seen
                          /\ streams'[t].ended
  BY <1>1, <1>2, <1>3
<1>7. sweep' \in SUBSET Row!Rows
  BY <1>1, <1>2 DEF RowStream
<1>8. RowType'
  BY <1>1, <1>4, <1>7 DEF RowType
<1>9. RowPassHolds'
  BY <1>1, <1>5, <1>6 DEF RowPassHolds, RowEnding
<1>10. RowReaderHolds' /\ RowStarts' /\ RowCloses'
  BY <1>1, <1>5, <1>6 DEF RowReaderHolds, RowStarts, RowCloses
<1> QED BY <1>8, <1>9, <1>10

\* Every step of the session keeps the streams, the pass and Close in order.
LEMMA RowShapeNext ==
  ASSUME RowShape, Row!Next
  PROVE  RowShape'
  BY RowShapeReader, RowShapePass, RowShapeEnds, RowShapeAges, RowShapeReaps, RowShapeDelivery,
     RowShapeClose, RowShapeSweeps
  DEF Row!Next, Row!Decoder, Row!Close

RowAlone == \A i, j \in DOMAIN queue : queue[i] = queue[j] => i = j

\* queueRXEvent: a row is in the queue, once, or was dropped.
LEMMA RowQueued ==
  ASSUME RowShape, RowAlone, NEW n \in Row!Rows, Row!Queues(n), ~RowInQueue(n)
  PROVE  /\ RowAlone'
         /\ \/ dropped'
            \/ dropped' = dropped /\ RowInQueue(n)'
         /\ \A m \in Row!Rows : RowInQueue(m)' => RowInQueue(m) \/ m = n
         /\ \A m \in Row!Rows : RowInQueue(m) => RowInQueue(m)'
<1>1. CASE Len(queue) < QueueMax
  <2>1. queue' = Append(queue, n) /\ dropped' = dropped /\ queue \in Seq(Row!Rows)
    BY <1>1 DEF Row!Queues, RowShape, RowType
  <2>2. /\ Len(queue) \in Nat /\ DOMAIN queue = 1 .. Len(queue)
        /\ DOMAIN queue' = 1 .. Len(queue) + 1
        /\ \A i \in DOMAIN queue : queue'[i] = queue[i]
        /\ queue'[Len(queue) + 1] = n
    BY <2>1, AppendProperties, LenProperties
  <2>3. \A i \in DOMAIN queue' : i \in DOMAIN queue \/ i = Len(queue) + 1
    BY <2>2
  <2>4. Len(queue) + 1 \in DOMAIN queue' /\ \A i \in DOMAIN queue : i \in DOMAIN queue'
    BY <2>2
  <2>5. RowAlone'
    BY <2>2, <2>3 DEF RowAlone, RowInQueue
  <2>6. RowInQueue(n)'
    BY <2>2, <2>4 DEF RowInQueue
  <2>7. \A m \in Row!Rows : RowInQueue(m)' => RowInQueue(m) \/ m = n
    BY <2>2, <2>3 DEF RowInQueue
  <2>8. \A m \in Row!Rows : RowInQueue(m) => RowInQueue(m)'
    BY <2>2, <2>4 DEF RowInQueue
  <2> QED BY <2>1, <2>5, <2>6, <2>7, <2>8
<1>2. CASE ~(Len(queue) < QueueMax)
  <2>1. dropped' = TRUE /\ queue' = queue
    BY <1>2 DEF Row!Queues
  <2> QED BY <2>1 DEF RowAlone, RowInQueue
<1> QED BY <1>1, <1>2

\* The row that is taken from the queue is not in it any more.
LEMMA RowTaken ==
  ASSUME RowShape, RowAlone, queue # << >>, queue' = Tail(queue)
  PROVE  /\ Head(queue) \in Row!Rows /\ RowAlone'
         /\ RowInQueue(Head(queue))
         /\ \A m \in Row!Rows : m = Head(queue) => ~RowInQueue(m)'
         /\ \A m \in Row!Rows : RowInQueue(m)' => RowInQueue(m)
         /\ \A m \in Row!Rows : RowInQueue(m) => RowInQueue(m)' \/ m = Head(queue)
<1>1. queue \in Seq(Row!Rows)
  BY DEF RowShape, RowType
<1>2. /\ Len(queue) \in Nat \ {0} /\ DOMAIN queue = 1 .. Len(queue) /\ Head(queue) = queue[1]
      /\ Head(queue) \in Row!Rows
      /\ DOMAIN queue' = 1 .. Len(queue) - 1
      /\ \A i \in 1 .. Len(queue) - 1 : queue'[i] = queue[i + 1]
  BY <1>1, HeadTailProperties, LenProperties, EmptySeq
<1>3. \A i \in DOMAIN queue' : i + 1 \in DOMAIN queue /\ i + 1 # 1 /\ queue'[i] = queue[i + 1]
  BY <1>2
<1>4. \A i \in DOMAIN queue : i = 1 \/ (i - 1 \in DOMAIN queue' /\ queue'[i - 1] = queue[i])
  BY <1>2
<1>5. 1 \in DOMAIN queue
  BY <1>2
<1>6. RowAlone'
  <2> SUFFICES ASSUME NEW i \in DOMAIN queue', NEW j \in DOMAIN queue', queue'[i] = queue'[j]
               PROVE  i = j
    BY DEF RowAlone
  <2>1. i + 1 = j + 1
    BY <1>3 DEF RowAlone
  <2> QED BY <2>1, <1>2
<1>7. RowInQueue(Head(queue))
  BY <1>2, <1>5 DEF RowInQueue
<1>8. \A m \in Row!Rows : m = Head(queue) => ~RowInQueue(m)'
  BY <1>2, <1>3, <1>5 DEF RowAlone, RowInQueue
<1>9. \A m \in Row!Rows : RowInQueue(m)' => RowInQueue(m)
  BY <1>3 DEF RowInQueue
<1>10. \A m \in Row!Rows : RowInQueue(m) => RowInQueue(m)' \/ m = Head(queue)
  BY <1>2, <1>4 DEF RowInQueue
<1> QED BY <1>2, <1>6, <1>7, <1>8, <1>9, <1>10

\* A step that moves no row.
LEMMA RowsRest ==
  ASSUME RowInv, UNCHANGED <<queue, dropped, delivery, logged, sweep, begun, rowOwed>>,
         closer' # "open" => closer # "open",
         pass.at # "queueing", pass'.at # "queueing",
         \A n \in Row!Rows : RowLive(n)' <=> RowLive(n)
  PROVE  RowsOnce' /\ RowsOwed'
<1>1. \A n \in Row!Rows : RowSomewhere(n)' <=> RowSomewhere(n)
  BY DEF RowSomewhere, RowInPass, RowInSweep, RowInQueue, RowInDelivery, RowLogged
<1>2. \A n \in Row!Rows : RowOnce(n)'
  BY <1>1 DEF RowInv, RowsOnce, RowOnce, RowInPass, RowInSweep, RowInQueue, RowInDelivery, RowLogged
<1>3. \A n \in rowOwed : n \in Row!Rows
  BY RowBounds DEF RowInv, RowShape, RowType, Row!Rows, Row!RowsAssumption
<1> QED BY <1>1, <1>2, <1>3 DEF RowInv, RowsOnce, RowsOwed

\* What is owed and what is open has begun.
LEMMA RowRowsBounds ==
  ASSUME RowInv
  PROVE  /\ \A n \in rowOwed : n \in Row!Rows /\ n <= begun
         /\ \A n \in Row!Rows : RowLive(n) => n <= begun
         /\ \A n \in Row!Rows : n \in Nat /\ begun \in Nat
  BY RowBounds DEF RowInv, RowShape, RowType, Row!Rows, Row!RowsAssumption, RowStarts, RowLive

\* A transmission begins: its number is of no row and is owed one.
LEMMA RowsBegin ==
  ASSUME RowInv, NEW t \in Talkers, Row!Begins(t), t \in Row!Open => streams[t].ended,
         UNCHANGED <<queue, dropped, delivery, logged, sweep, closer, pass>>
  PROVE  RowsOnce' /\ RowsOwed'
<1>1. /\ begun' = begun + 1
      /\ streams'[t] = [started |-> begun + 1, ended |-> FALSE, seen |-> Row!Fresh]
      /\ \A u \in Talkers \ {t} : streams'[u] = streams[u]
      /\ Row!Open' = Row!Open \cup {t}
      /\ rowOwed' = IF closer = "open" THEN rowOwed \cup {begun + 1} ELSE rowOwed
  BY RowBegins DEF RowInv
<1>2. \A u \in Row!Open : u \in Talkers
  BY DEF Row!Open
<1>3. \A n \in Row!Rows : RowLive(n)' <=> RowLive(n) \/ n = begun + 1
  BY <1>1, <1>2 DEF RowLive
<1>4. \A n \in Row!Rows : /\ RowSomewhere(n)' <=> RowSomewhere(n)
                          /\ RowInPass(n)' <=> RowInPass(n)
                          /\ RowInSweep(n)' <=> RowInSweep(n)
                          /\ RowInQueue(n)' <=> RowInQueue(n)
                          /\ RowInDelivery(n)' <=> RowInDelivery(n)
                          /\ RowLogged(n)' <=> RowLogged(n)
  BY DEF RowSomewhere, RowInPass, RowInSweep, RowInQueue, RowInDelivery, RowLogged
<1>5. \A n \in Row!Rows : /\ (n > begun' => n > begun) /\ (n = begun + 1 => n > begun)
  BY <1>1, RowRowsBounds
<1>6. \A n \in Row!Rows : RowOnce(n)'
  BY <1>3, <1>4, <1>5 DEF RowInv, RowsOnce, RowOnce
<1>7. RowsOnce'
  BY <1>6 DEF RowInv, RowsOnce
<1>8. \A n \in rowOwed' : n \in Row!Rows /\ (n \in rowOwed \/ (n = begun + 1 /\ closer = "open"))
  BY <1>1, RowRowsBounds, RowBegins DEF RowInv
<1>9. \A n \in rowOwed : n # begun + 1
  BY RowRowsBounds
<1>10. RowsOwed'
  BY <1>3, <1>4, <1>8, <1>9 DEF RowInv, RowsOwed
<1> QED BY <1>7, <1>10

\* A packet begins a transmission of its own or goes on with one (rxVoice).
LEMMA RowsReader ==
  ASSUME RowInv, Row!Reader
  PROVE  RowsOnce' /\ RowsOwed'
<1> USE DEF Row!rows, Row!closing
<1>1. /\ UNCHANGED <<muHeld, pass, delivery, queue, dropped, closer, sweep, done, logged>>
  BY DEF Row!Reader, Row!Packet, Row!Stamps, Row!Hints, Row!Restarts
<1>2. CASE \E t \in Talkers : Row!Begins(t) /\ (t \in Row!Open => streams[t].ended)
  BY <1>1, <1>2, RowsBegin
<1>3. CASE /\ UNCHANGED <<begun, rowOwed>>
           /\ Row!Open' = Row!Open
           /\ \A u \in Row!Open : /\ streams'[u].started = streams[u].started
                                  /\ streams'[u].ended = streams[u].ended
  <2>1. \A n \in Row!Rows : RowLive(n)' <=> RowLive(n)
    BY <1>3 DEF RowLive
  <2>2. CASE pass.at # "queueing"
    BY <1>1, <1>3, <2>1, <2>2, RowsRest
  <2>3. \A n \in Row!Rows : /\ RowSomewhere(n)' <=> RowSomewhere(n)
                            /\ RowInPass(n)' <=> RowInPass(n)
                            /\ RowInSweep(n)' <=> RowInSweep(n)
                            /\ RowInQueue(n)' <=> RowInQueue(n)
                            /\ RowInDelivery(n)' <=> RowInDelivery(n)
                            /\ RowLogged(n)' <=> RowLogged(n)
    BY <1>1 DEF RowSomewhere, RowInPass, RowInSweep, RowInQueue, RowInDelivery, RowLogged
  <2>4. \A n \in Row!Rows : RowOnce(n)'
    BY <1>3, <2>1, <2>3 DEF RowInv, RowsOnce, RowOnce
  <2> QED BY <1>1, <1>3, <2>1, <2>3, <2>4, RowRowsBounds DEF RowInv, RowsOnce, RowsOwed
<1>4. CASE Row!Stamps
  <2> DEFINE k == rowReader.key
  <2>1. /\ k \in Row!Open /\ streams[k] \in RowStream /\ UNCHANGED <<begun, rowOwed>>
    BY <1>4 DEF Row!Stamps, RowInv, RowShape, RowReaderHolds, RowType, Row!AtRest, Row!Open
  <2>2. streams' = [streams EXCEPT ![k] = [streams[k] EXCEPT !.seen = Row!Fresh]]
    BY <1>4 DEF Row!Stamps
  <2> DEFINE new == [streams[k] EXCEPT !.seen = Row!Fresh]
  <2>3. new # Row!None /\ new.ended = streams[k].ended /\ new.started = streams[k].started
    BY <2>1 DEF RowStream, Row!None, Row!Fresh, Row!Silent
  <2>4. \A u \in Talkers : streams'[u] = IF u = k THEN new ELSE streams[u]
    BY <2>2 DEF RowInv, RowShape, RowType
  <2>5. Row!Open' = Row!Open
    BY <2>1, <2>3, <2>4 DEF Row!Open
  <2>6. \A u \in Row!Open : /\ streams'[u].started = streams[u].started
                            /\ streams'[u].ended = streams[u].ended
    BY <2>3, <2>4 DEF Row!Open
  <2> QED BY <1>3, <2>1, <2>5, <2>6
<1>5. CASE UNCHANGED <<streams, begun, rowOwed>>
  <2>1. Row!Open' = Row!Open
    BY <1>5 DEF Row!Open
  <2> QED BY <1>3, <1>5, <2>1
<1>6. CASE Row!Restarts \/ \E t \in Talkers : Row!Packet(t)
  <2>1. \/ \E t \in Talkers : Row!Begins(t) /\ (t \in Row!Open => streams[t].ended)
        \/ UNCHANGED <<streams, begun, rowOwed>>
    <3>1. CASE Row!Restarts
      BY <3>1 DEF Row!Restarts, RowInv, RowShape, RowType, RowReaderHolds, Row!Open, Row!AtRest, RowReading
    <3>2. CASE \E t \in Talkers : Row!Packet(t)
      BY <3>2 DEF Row!Packet
    <3> QED BY <1>6, <3>1, <3>2
  <2> QED BY <1>2, <1>5, <2>1
<1>7. CASE Row!Hints
  BY <1>5, <1>7 DEF Row!Hints
<1> QED BY <1>4, <1>6, <1>7 DEF Row!Reader

\* The decode goroutine looks, waits or lets time pass.
LEMMA RowsPass ==
  ASSUME RowInv, Row!PassBegins \/ Row!PassEnds \/ Row!DecoderExits
                 \/ (\E t \in Talkers : Row!Scans(t)) \/ Row!EndLoads
  PROVE  RowsOnce' /\ RowsOwed'
<1> USE DEF Row!rows, Row!rx, Row!closing
<1>1. /\ UNCHANGED <<streams, begun, rowOwed, delivery, queue, dropped, logged, closer, sweep>>
      /\ pass.at # "queueing"
  BY RowPassKinds DEF Row!PassBegins, Row!PassEnds, Row!DecoderExits, Row!Scans, Row!EndLoads
<1>2. pass'.at # "queueing"
  <2>1. CASE Row!EndLoads
    <3>1. \E at_ \in {"storing", "scan"} : pass' = [pass EXCEPT !.at = at_]
      BY <2>1 DEF Row!EndLoads
    <3>2. pass \in RowPass /\ pass.at = "ending"
      BY <2>1, RowPassKinds DEF Row!EndLoads, RowInv, RowShape, RowType
    <3>3. pass \in [at : {"ending", "storing"}, key : Talkers, todo : SUBSET Talkers, silent : SUBSET Talkers]
      BY <3>2 DEF RowPass
    <3> QED BY <3>1, <3>3
  <2>2. CASE \E t \in Talkers : Row!Scans(t)
    BY <2>2 DEF Row!Scans
  <2>3. CASE Row!PassBegins \/ Row!PassEnds \/ Row!DecoderExits
    BY <2>3, RowPassKinds DEF Row!PassBegins, Row!PassEnds, Row!DecoderExits
  <2> QED BY <2>1, <2>2, <2>3
<1>3. Row!Open' = Row!Open
  BY <1>1 DEF Row!Open
<1>4. \A n \in Row!Rows : RowLive(n)' <=> RowLive(n)
  BY <1>1, <1>3 DEF RowLive
<1> QED BY <1>1, <1>2, <1>4, RowsRest

\* No row moves while time passes.
LEMMA RowsAges ==
  ASSUME RowInv, NEW t \in Talkers, Row!Ages(t)
  PROVE  RowsOnce' /\ RowsOwed'
<1> USE DEF RowInv, RowShape, Row!rows, Row!closing
<1> DEFINE new == [streams[t] EXCEPT !.seen = IF streams[t].seen = Row!Fresh THEN Row!Idle ELSE Row!Silent]
<1>1. /\ pass = Row!AtRest /\ t \in Row!Open
      /\ UNCHANGED <<begun, rowOwed, pass, delivery, queue, dropped, logged, closer, sweep>>
  BY DEF Row!Ages
<1>2. streams' = [streams EXCEPT ![t] = new]
  BY DEF Row!Ages
<1>3. streams[t] \in RowStream
  BY <1>1 DEF Row!Open, RowType
<1>4. new # Row!None /\ new.started = streams[t].started /\ new.ended = streams[t].ended
  BY <1>3 DEF RowStream, Row!None
<1>5. \A u \in Talkers : streams'[u] = IF u = t THEN new ELSE streams[u]
  BY <1>2, <1>4 DEF RowType
<1>6. Row!Open' = Row!Open
  BY <1>1, <1>4, <1>5 DEF Row!Open
<1>7. \A u \in Row!Open : /\ streams'[u].started = streams[u].started
                          /\ streams'[u].ended = streams[u].ended
  BY <1>4, <1>5 DEF Row!Open
<1>8. \A n \in Row!Rows : RowLive(n)' <=> RowLive(n)
  BY <1>6, <1>7 DEF RowLive
<1> QED BY <1>1, <1>8, RowsRest, RowPassKinds

\* A stream that is reaped has no transmission left to end (reap).
LEMMA RowsReaps ==
  ASSUME RowInv, NEW t \in Talkers, Row!Reaps(t)
  PROVE  RowsOnce' /\ RowsOwed'
<1> USE DEF RowInv, RowShape, Row!rows, Row!closing
<1>1. /\ pass.at = "scan" /\ t \in pass.silent /\ pass \in RowPass
      /\ pass' = [pass EXCEPT !.silent = pass.silent \ {t}]
      /\ UNCHANGED <<begun, rowOwed, delivery, queue, dropped, logged, closer, sweep>>
  BY RowPassKinds DEF Row!Reaps, RowType
<1>2. pass \in [at : {"scan"}, todo : SUBSET Talkers, silent : SUBSET Talkers]
      \/ pass \in [at : {"scan"}, key : Talkers \cup Row!Rows, todo : SUBSET Talkers, silent : SUBSET Talkers]
  BY <1>1 DEF RowPass
<1>3. pass'.at = "scan"
  BY <1>1, <1>2
<1>4. \A n \in Row!Rows : RowLive(n)' <=> RowLive(n)
  <2>1. CASE streams[t].seen = Row!Silent
    <3>1. streams' = [streams EXCEPT ![t] = Row!None]
      BY <2>1 DEF Row!Reaps
    <3>2. streams[t].ended
      BY <1>1, <2>1 DEF RowPassHolds, RowEnding
    <3>3. \A u \in Talkers : streams'[u] = IF u = t THEN Row!None ELSE streams[u]
      BY <3>1 DEF RowType
    <3>4. Row!Open' = Row!Open \ {t}
      BY <3>3 DEF Row!Open
    <3>5. \A u \in Row!Open' : streams'[u] = streams[u]
      BY <3>3 DEF Row!Open
    <3> QED BY <3>2, <3>4, <3>5 DEF RowLive
  <2>2. CASE streams[t].seen # Row!Silent
    BY <2>2 DEF Row!Reaps, RowLive, Row!Open
  <2> QED BY <2>1, <2>2
<1> QED BY <1>1, <1>3, <1>4, RowsRest

\* A transmission that ends is in the hand of who ended it.
LEMMA RowsEndStores ==
  ASSUME RowInv, Row!EndStores
  PROVE  RowsOnce' /\ RowsOwed'
<1> USE DEF Row!rows, Row!rx, Row!closing
<1> DEFINE k == pass.key
           new == [streams[k] EXCEPT !.ended = TRUE]
<1>1. /\ pass.at = "storing"
      /\ pass' = [at |-> "queueing", key |-> streams[k].started,
                  todo |-> pass.todo, silent |-> pass.silent]
      /\ UNCHANGED <<begun, rowOwed, delivery, queue, dropped, logged, closer, sweep>>
  BY DEF Row!EndStores
<1>2. streams' = [streams EXCEPT ![k] = new]
  BY DEF Row!EndStores
<1>3. pass \in RowPass
  BY <1>1, RowPassKinds DEF RowInv, RowShape, RowType
<1>4. k \in Row!Open /\ ~streams[k].ended
  BY <1>1, <1>3 DEF RowInv, RowShape, RowPassHolds, RowEnding
<1>5. k \in Talkers /\ streams[k] \in RowStream
  BY <1>4 DEF Row!Open, RowInv, RowShape, RowType
<1>6. new.ended /\ new # Row!None
  BY <1>5 DEF RowStream, Row!None
<1>7. \A u \in Talkers : streams'[u] = IF u = k THEN new ELSE streams[u]
  BY <1>2 DEF RowInv, RowShape, RowType
<1>8. Row!Open' = Row!Open
  BY <1>4, <1>6, <1>7 DEF Row!Open
<1>9. PICK n0 \in Row!Rows : n0 = streams[k].started
  BY <1>5 DEF RowStream
<1>10. RowLive(n0)
  BY <1>4, <1>9 DEF RowLive
<1>11. \A n \in Row!Rows : RowLive(n)' <=> RowLive(n) /\ n # n0
  <2> SUFFICES ASSUME NEW n \in Row!Rows PROVE RowLive(n)' <=> RowLive(n) /\ n # n0
    OBVIOUS
  <2>1. ASSUME RowLive(n)' PROVE RowLive(n) /\ n # n0
    <3>1. PICK u \in Row!Open : ~streams'[u].ended /\ streams'[u].started = n
      BY <2>1, <1>8 DEF RowLive
    <3>2. u # k /\ streams'[u] = streams[u]
      BY <3>1, <1>6, <1>7 DEF Row!Open
    <3>3. streams[u].started # streams[k].started
      BY <3>1, <3>2, <1>4 DEF RowInv, RowShape, RowStarts
    <3> QED BY <3>1, <3>2, <3>3, <1>9 DEF RowLive
  <2>2. ASSUME RowLive(n), n # n0 PROVE RowLive(n)'
    <3>1. PICK u \in Row!Open : ~streams[u].ended /\ streams[u].started = n
      BY <2>2 DEF RowLive
    <3>2. u # k /\ streams'[u] = streams[u]
      BY <3>1, <2>2, <1>7, <1>9 DEF Row!Open
    <3> QED BY <3>1, <3>2, <1>8 DEF RowLive
  <2> QED BY <2>1, <2>2
<1>12. \A n \in Row!Rows : /\ RowInPass(n)' <=> n = n0
                           /\ ~RowInPass(n)
                           /\ RowInSweep(n)' <=> RowInSweep(n)
                           /\ RowInQueue(n)' <=> RowInQueue(n)
                           /\ RowInDelivery(n)' <=> RowInDelivery(n)
                           /\ RowLogged(n)' <=> RowLogged(n)
  BY <1>1, <1>9 DEF RowInPass, RowInSweep, RowInQueue, RowInDelivery, RowLogged
<1>13. n0 <= begun /\ begun' = begun
  BY <1>1, <1>10, RowRowsBounds
<1>14. ~RowSomewhere(n0) /\ ~(n0 > begun)
  BY <1>10, <1>13, RowRowsBounds DEF RowInv, RowsOnce, RowOnce
<1>15. \A n \in Row!Rows : RowOnce(n)'
  BY <1>11, <1>12, <1>13, <1>14 DEF RowInv, RowsOnce, RowOnce, RowSomewhere
<1>16. RowsOnce'
  BY <1>1, <1>15 DEF RowInv, RowsOnce
<1>17. \A n \in Row!Rows : RowSomewhere(n)' <=> RowSomewhere(n) \/ n = n0
  BY <1>12 DEF RowSomewhere
<1>18. RowsOwed'
  BY <1>1, <1>11, <1>17, RowRowsBounds DEF RowInv, RowsOwed
<1> QED BY <1>16, <1>18

\* A row goes from a hand to the queue, or is dropped.
LEMMA RowsQueue ==
  ASSUME RowInv, NEW n0 \in Row!Rows, Row!Queues(n0),
         UNCHANGED <<streams, begun, rowOwed, delivery, logged, closer>>,
         RowInPass(n0) \/ RowInSweep(n0), ~RowInPass(n0)', ~RowInSweep(n0)',
         \A n \in Row!Rows : /\ RowInPass(n)' => RowInPass(n)
                             /\ RowInPass(n) => RowInPass(n)' \/ n = n0
                             /\ RowInSweep(n)' => RowInSweep(n)
                             /\ RowInSweep(n) => RowInSweep(n)' \/ n = n0
  PROVE  RowsOnce' /\ RowsOwed'
<1>1. RowAlone /\ RowOnce(n0)
  BY DEF RowInv, RowsOnce, RowAlone
<1>2. ~RowInQueue(n0) /\ ~RowInDelivery(n0) /\ ~RowLogged(n0) /\ ~RowLive(n0) /\ ~(n0 > begun)
  BY <1>1 DEF RowOnce, RowSomewhere
<1>3. /\ RowAlone'
      /\ dropped' \/ (dropped' = dropped /\ RowInQueue(n0)')
      /\ \A m \in Row!Rows : RowInQueue(m)' => RowInQueue(m) \/ m = n0
      /\ \A m \in Row!Rows : RowInQueue(m) => RowInQueue(m)'
  BY <1>1, <1>2, RowQueued DEF RowInv
<1>4. \A n \in Row!Rows : /\ RowLive(n)' <=> RowLive(n)
                          /\ RowInDelivery(n)' <=> RowInDelivery(n)
                          /\ RowLogged(n)' <=> RowLogged(n)
  BY DEF RowLive, Row!Open, RowInDelivery, RowLogged
<1>5. \A n \in Row!Rows : RowOnce(n)'
  BY <1>2, <1>3, <1>4 DEF RowInv, RowsOnce, RowOnce, RowSomewhere
<1>6. RowsOnce'
  BY <1>3, <1>5 DEF RowInv, RowsOnce, RowAlone
<1>7. ~dropped' => ~dropped /\ \A n \in Row!Rows : RowSomewhere(n) => RowSomewhere(n)'
  BY <1>3, <1>4 DEF RowSomewhere
<1>8. RowsOwed'
  BY <1>4, <1>7, RowRowsBounds DEF RowInv, RowsOwed
<1> QED BY <1>6, <1>8

\* The decode goroutine queues the row in its hand (queueRXEvent).
LEMMA RowsEndQueues ==
  ASSUME RowInv, Row!EndQueues
  PROVE  RowsOnce' /\ RowsOwed'
<1> USE DEF Row!rows, Row!rx, Row!closing
<1>1. /\ pass.at = "queueing" /\ Row!Queues(pass.key)
      /\ pass' = [at |-> "scan", todo |-> pass.todo, silent |-> pass.silent]
      /\ UNCHANGED <<streams, begun, rowOwed, delivery, logged, closer, sweep>>
  BY DEF Row!EndQueues
<1>2. pass \in RowPass
  BY <1>1, RowPassKinds DEF RowInv, RowShape, RowType
<1>3. pass.key \in Row!Rows
  BY <1>1, <1>2 DEF RowPass
<1>4. PICK n0 \in Row!Rows : n0 = pass.key
  BY <1>3
<1>5. \A n \in Row!Rows : /\ ~RowInPass(n)' /\ (RowInPass(n) <=> n = n0)
                          /\ RowInSweep(n)' <=> RowInSweep(n)
  BY <1>1, <1>4 DEF RowInPass, RowInSweep
<1>6. ~RowInSweep(n0)'
  BY <1>5 DEF RowInv, RowsOnce, RowOnce
<1>7. Row!Queues(n0)
  BY <1>1, <1>4
<1> QED BY <1>1, <1>5, <1>6, <1>7, RowsQueue

\* Close queues the rows of endOpenRXStreams.
LEMMA RowsSweepQueues ==
  ASSUME RowInv, NEW n0 \in Row!Rows, Row!SweepQueues(n0)
  PROVE  RowsOnce' /\ RowsOwed'
<1> USE DEF Row!rows, Row!rx, Row!closing
<1>1. /\ Row!Queues(n0) /\ n0 \in sweep /\ sweep' = sweep \ {n0}
      /\ UNCHANGED <<streams, begun, rowOwed, delivery, logged, closer, pass>>
  BY DEF Row!SweepQueues
<1>2. \A n \in Row!Rows : /\ RowInPass(n)' <=> RowInPass(n)
                          /\ RowInSweep(n)' <=> RowInSweep(n) /\ n # n0
  BY <1>1 DEF RowInPass, RowInSweep
<1>3. RowInSweep(n0) /\ ~RowInPass(n0)'
  BY <1>1, <1>2 DEF RowInv, RowsOnce, RowOnce, RowInSweep
<1> QED BY <1>1, <1>2, <1>3, RowsQueue

\* A row is taken from the queue to a hand or to the log.
LEMMA RowsTake ==
  ASSUME RowInv, queue # << >>, queue' = Tail(queue),
         UNCHANGED <<streams, begun, rowOwed, dropped, sweep, pass>>,
         closer' # "open" => closer # "open",
         \/ /\ \A n \in Row!Rows : /\ RowInDelivery(n)' <=> n = Head(queue)
                                   /\ ~RowInDelivery(n)
            /\ UNCHANGED logged
         \/ /\ \A n \in Row!Rows : /\ RowLogged(n)' <=> RowLogged(n) \/ n = Head(queue)
                                   /\ logged'[n] <= 1
            /\ UNCHANGED delivery
  PROVE  RowsOnce' /\ RowsOwed'
<1>1. RowAlone
  BY DEF RowInv, RowsOnce, RowAlone
<1>2. PICK n0 \in Row!Rows : n0 = Head(queue)
  BY <1>1, RowTaken DEF RowInv
<1>3. /\ RowAlone' /\ RowInQueue(n0) /\ ~RowInQueue(n0)'
      /\ \A m \in Row!Rows : RowInQueue(m)' <=> RowInQueue(m) /\ m # n0
  BY <1>1, <1>2, RowTaken DEF RowInv
<1>4. \A n \in Row!Rows : /\ RowLive(n)' <=> RowLive(n)
                          /\ RowInPass(n)' <=> RowInPass(n)
                          /\ RowInSweep(n)' <=> RowInSweep(n)
  BY DEF RowLive, Row!Open, RowInPass, RowInSweep
<1>5. /\ \A n \in Row!Rows : logged'[n] <= 1
      /\ \/ \A n \in Row!Rows : /\ RowInDelivery(n)' <=> n = n0
                                /\ ~RowInDelivery(n)
                                /\ RowLogged(n)' <=> RowLogged(n)
         \/ \A n \in Row!Rows : /\ RowLogged(n)' <=> RowLogged(n) \/ n = n0
                                /\ RowInDelivery(n)' <=> RowInDelivery(n)
  BY <1>2 DEF RowInDelivery, RowLogged, RowInv, RowsOnce
<1>6. ~RowInPass(n0) /\ ~RowInSweep(n0) /\ ~RowInDelivery(n0) /\ ~RowLogged(n0) /\ ~RowLive(n0)
      /\ ~(n0 > begun)
  BY <1>3 DEF RowInv, RowsOnce, RowOnce, RowSomewhere
<1>7. \A n \in Row!Rows : RowOnce(n)'
  BY <1>3, <1>4, <1>5, <1>6 DEF RowInv, RowsOnce, RowOnce, RowSomewhere
<1>8. RowsOnce'
  BY <1>3, <1>5, <1>7 DEF RowsOnce, RowAlone
<1>9. \A n \in Row!Rows : RowSomewhere(n) => RowSomewhere(n)'
  BY <1>3, <1>4, <1>5 DEF RowSomewhere
<1>10. RowsOwed'
  BY <1>4, <1>9, RowRowsBounds DEF RowInv, RowsOwed
<1> QED BY <1>8, <1>10

\* A row that is delivered is logged once (rxDeliverLoop, OnRX).
LEMMA RowsDelivery ==
  ASSUME RowInv, Row!Takes \/ Row!Delivers \/ Row!DeliveryExits
  PROVE  RowsOnce' /\ RowsOwed'
<1> USE DEF Row!rows, Row!rx, Row!closing
<1>1. UNCHANGED <<streams, begun, rowOwed, pass, dropped, closer, sweep>>
  BY DEF Row!Takes, Row!Delivers, Row!DeliveryExits
<1>2. CASE Row!Takes
  <2>1. /\ delivery' = [at |-> "deliver", row |-> Head(queue)] /\ delivery = Row!AtRest
        /\ queue # << >> /\ queue' = Tail(queue) /\ UNCHANGED logged
    BY <1>2 DEF Row!Takes
  <2>2. \A n \in Row!Rows : (RowInDelivery(n)' <=> n = Head(queue)) /\ ~RowInDelivery(n)
    BY <2>1 DEF RowInDelivery, Row!AtRest
  <2> QED BY <1>1, <2>1, <2>2, RowsTake
<1>3. CASE Row!Delivers
  <2>1. /\ delivery.at = "deliver" /\ delivery' = Row!AtRest
        /\ logged' = [logged EXCEPT ![delivery.row] = logged[delivery.row] + 1]
        /\ UNCHANGED queue
    BY <1>3 DEF Row!Delivers, Row!OnRX
  <2>2. delivery \in RowDelivering
    BY <2>1 DEF RowInv, RowShape, RowType, Row!AtRest, Row!Exited
  <2>3. PICK n0 \in Row!Rows : n0 = delivery.row
    BY <2>2 DEF RowDelivering
  <2>4. RowInDelivery(n0)
    BY <2>1, <2>3 DEF RowInDelivery
  <2>5. ~RowLogged(n0) /\ ~RowInPass(n0) /\ ~RowInSweep(n0) /\ ~RowInQueue(n0) /\ ~RowLive(n0)
        /\ ~(n0 > begun)
    BY <2>4 DEF RowInv, RowsOnce, RowOnce, RowSomewhere
  <2>6. \A n \in Row!Rows : logged[n] \in Nat /\ logged'[n] = IF n = n0 THEN logged[n] + 1 ELSE logged[n]
    BY <2>1, <2>3 DEF RowInv, RowShape, RowType
  <2>7. \A n \in Row!Rows : (RowLogged(n)' <=> RowLogged(n) \/ n = n0) /\ logged'[n] <= 1
    BY <2>5, <2>6 DEF RowLogged, RowInv, RowsOnce
  <2>8. \A n \in Row!Rows : /\ RowLive(n)' <=> RowLive(n)
                            /\ RowInPass(n)' <=> RowInPass(n)
                            /\ RowInSweep(n)' <=> RowInSweep(n)
                            /\ RowInQueue(n)' <=> RowInQueue(n)
                            /\ RowInDelivery(n)' <=> FALSE
                            /\ RowInDelivery(n) => n = n0
    BY <1>1, <2>1, <2>3 DEF RowLive, Row!Open, RowInPass, RowInSweep, RowInQueue, RowInDelivery, Row!AtRest
  <2>9. \A n \in Row!Rows : RowOnce(n)'
    BY <1>1, <2>5, <2>7, <2>8 DEF RowInv, RowsOnce, RowOnce, RowSomewhere
  <2>10. RowsOnce'
    BY <2>1, <2>7, <2>9 DEF RowInv, RowsOnce
  <2>11. \A n \in Row!Rows : RowSomewhere(n) => RowSomewhere(n)'
    BY <2>7, <2>8 DEF RowSomewhere
  <2>12. RowsOwed'
    BY <1>1, <2>8, <2>11, RowRowsBounds DEF RowInv, RowsOwed
  <2> QED BY <2>10, <2>12
<1>4. CASE Row!DeliveryExits
  <2>1. delivery = Row!AtRest /\ delivery' = Row!Exited /\ UNCHANGED <<queue, logged>>
    BY <1>4 DEF Row!DeliveryExits
  <2>2. \A n \in Row!Rows : /\ RowLive(n)' <=> RowLive(n)
                            /\ RowInPass(n)' <=> RowInPass(n)
                            /\ RowInSweep(n)' <=> RowInSweep(n)
                            /\ RowInQueue(n)' <=> RowInQueue(n)
                            /\ RowLogged(n)' <=> RowLogged(n)
                            /\ RowInDelivery(n)' <=> RowInDelivery(n)
    BY <1>1, <2>1 DEF RowLive, Row!Open, RowInPass, RowInSweep, RowInQueue, RowInDelivery, RowLogged,
                      Row!AtRest, Row!Exited
  <2>3. \A n \in Row!Rows : RowOnce(n)' /\ (RowSomewhere(n) => RowSomewhere(n)')
    BY <1>1, <2>2 DEF RowInv, RowsOnce, RowOnce, RowSomewhere
  <2> QED BY <1>1, <2>1, <2>2, <2>3, RowRowsBounds DEF RowInv, RowsOnce, RowsOwed
<1> QED BY <1>2, <1>3, <1>4

\* The drain after wg.Wait logs what is left in the queue (Close).
LEMMA RowsClose ==
  ASSUME RowInv, Row!ClosesDone \/ Row!Drains
  PROVE  RowsOnce' /\ RowsOwed'
<1> USE DEF Row!rows, Row!rx, Row!closing
<1>1. UNCHANGED <<streams, begun, rowOwed, pass, dropped, delivery, sweep>> /\ closer # "open"
  BY DEF Row!ClosesDone, Row!Drains
<1>2. CASE UNCHANGED <<queue, logged>>
  <2>1. \A n \in Row!Rows : /\ RowLive(n)' <=> RowLive(n)
                            /\ RowInPass(n)' <=> RowInPass(n)
                            /\ RowInSweep(n)' <=> RowInSweep(n)
                            /\ RowInQueue(n)' <=> RowInQueue(n)
                            /\ RowLogged(n)' <=> RowLogged(n)
                            /\ RowInDelivery(n)' <=> RowInDelivery(n)
    BY <1>1, <1>2 DEF RowLive, Row!Open, RowInPass, RowInSweep, RowInQueue, RowInDelivery, RowLogged
  <2>2. \A n \in Row!Rows : RowOnce(n)' /\ (RowSomewhere(n) => RowSomewhere(n)')
    BY <1>1, <2>1 DEF RowInv, RowsOnce, RowOnce, RowSomewhere
  <2> QED BY <1>1, <1>2, <2>1, <2>2, RowRowsBounds DEF RowInv, RowsOnce, RowsOwed
<1>3. CASE Row!Drains /\ queue # << >>
  <2>1. /\ logged' = [logged EXCEPT ![Head(queue)] = logged[Head(queue)] + 1]
        /\ queue' = Tail(queue) /\ UNCHANGED closer
    BY <1>3 DEF Row!Drains, Row!OnRX
  <2>2. RowAlone
    BY DEF RowInv, RowsOnce, RowAlone
  <2>3. PICK n0 \in Row!Rows : n0 = Head(queue) /\ RowInQueue(n0)
    BY <1>3, <2>1, <2>2, RowTaken DEF RowInv
  <2>4. ~RowLogged(n0)
    BY <2>3 DEF RowInv, RowsOnce, RowOnce
  <2>5. \A n \in Row!Rows : logged[n] \in Nat /\ logged'[n] = IF n = n0 THEN logged[n] + 1 ELSE logged[n]
    BY <2>1, <2>3 DEF RowInv, RowShape, RowType
  <2>6. \A n \in Row!Rows : (RowLogged(n)' <=> RowLogged(n) \/ n = Head(queue)) /\ logged'[n] <= 1
    BY <2>3, <2>4, <2>5 DEF RowLogged, RowInv, RowsOnce
  <2> QED BY <1>1, <1>3, <2>1, <2>6, RowsTake
<1>4. CASE Row!Drains /\ queue = << >>
  BY <1>2, <1>4 DEF Row!Drains
<1>5. CASE Row!ClosesDone
  BY <1>2, <1>5 DEF Row!ClosesDone
<1> QED BY <1>3, <1>4, <1>5

\* What is open at the sweep has its row in the hand of Close (endOpenRXStreams).
LEMMA RowsSweeps ==
  ASSUME RowInv, Row!Sweeps
  PROVE  RowsOnce' /\ RowsOwed'
<1> USE DEF Row!rows, Row!closing
<1> DEFINE over == {t \in Row!Open : ~streams[t].ended}
<1>1. /\ closer = "open"
      /\ sweep' = {streams[t].started : t \in over}
      /\ streams' = [t \in Talkers |-> IF t \in over THEN [streams[t] EXCEPT !.ended = TRUE]
                                       ELSE streams[t]]
      /\ UNCHANGED <<begun, rowOwed, pass, delivery, queue, dropped, logged>>
  BY DEF Row!Sweeps
<1>2. \A t \in Row!Open : t \in Talkers /\ streams[t] \in RowStream
  BY DEF Row!Open, RowInv, RowShape, RowType
<1>3. ASSUME NEW t \in over
      PROVE  [streams[t] EXCEPT !.ended = TRUE] # Row!None /\ [streams[t] EXCEPT !.ended = TRUE].ended
  BY <1>2 DEF RowStream, Row!None
<1>4. Row!Open' = Row!Open
  BY <1>1, <1>3 DEF Row!Open
<1>5. \A t \in Row!Open : streams'[t].ended
  BY <1>1, <1>2, <1>3
<1>6. sweep = {}
  BY <1>1 DEF RowInv, RowShape, RowCloses
<1>7. \A n \in Row!Rows : /\ ~RowLive(n)' /\ ~RowInSweep(n)
                          /\ RowInSweep(n)' <=> RowLive(n)
                          /\ RowInPass(n)' <=> RowInPass(n)
                          /\ RowInQueue(n)' <=> RowInQueue(n)
                          /\ RowLogged(n)' <=> RowLogged(n)
                          /\ RowInDelivery(n)' <=> RowInDelivery(n)
  BY <1>1, <1>4, <1>5, <1>6
     DEF RowLive, RowInPass, RowInSweep, RowInQueue, RowInDelivery, RowLogged
<1>8. \A n \in Row!Rows : RowLive(n) => ~(n > begun)
  BY RowRowsBounds
<1>9. \A n \in Row!Rows : RowOnce(n)' /\ (RowSomewhere(n) \/ RowLive(n) => RowSomewhere(n)')
  BY <1>1, <1>7, <1>8 DEF RowInv, RowsOnce, RowOnce, RowSomewhere
<1> QED BY <1>1, <1>7, <1>9, RowRowsBounds DEF RowInv, RowsOnce, RowsOwed

\* Every step of the receive goroutine, of the decode goroutine, of the delivery
\* and of Close keeps the invariant.
LEMMA RowPreserved == RowInv /\ [Row!Next]_rowVars => RowInv'
<1> SUFFICES ASSUME RowInv, [Row!Next]_rowVars PROVE RowInv'
  OBVIOUS
<1>1. CASE UNCHANGED rowVars
  BY <1>1 DEF rowVars, RowInv, RowShape, RowType, RowPassHolds, RowReaderHolds, RowCloses, RowStarts,
     RowsOnce, RowsOwed, RowOnce, RowLive, Row!Open, RowSomewhere, RowInPass, RowInSweep, RowInQueue,
     RowInDelivery, RowLogged, RowEnding
<1>2. CASE Row!Next
  <2>1. RowShape'
    BY <1>2, RowShapeNext DEF RowInv
  <2>2. RowsOnce' /\ RowsOwed'
    BY <1>2, RowsReader, RowsPass, RowsAges, RowsReaps, RowsEndStores, RowsEndQueues, RowsSweepQueues,
       RowsDelivery, RowsClose, RowsSweeps
    DEF Row!Next, Row!Decoder, Row!Close
  <2> QED BY <2>1, <2>2 DEF RowInv
<1> QED BY <1>1, <1>2

\* The instance's cardinality is the library's.
LEMMA RowCount == \A S : Row!Cardinality(S) = Cardinality(S)
  BY Zenon DEF Row!Cardinality, Cardinality

\* What the history is told follows: each transmission once, and none left out.
LEMMA RowInvImplies == RowInv => Row!RowsAreFaithful
<1> SUFFICES ASSUME RowInv PROVE Row!RowsAreFaithful
  OBVIOUS
<1>1. Row!OneRowPerTransmission
  <2> SUFFICES ASSUME NEW n \in Row!Rows
               PROVE  logged[n] + Row!InQueue(n) + Row!InHand(n) <= 1
    BY DEF Row!OneRowPerTransmission
  <2>1. logged[n] \in {0, 1} /\ (RowLogged(n) <=> logged[n] = 1)
    BY DEF RowInv, RowShape, RowType, RowsOnce, RowLogged
  <2>2. Row!InQueue(n) \in {0, 1} /\ (RowInQueue(n) <=> Row!InQueue(n) = 1)
    <3>1. CASE ~RowInQueue(n)
      <4>1. {i \in DOMAIN queue : queue[i] = n} = {}
        BY <3>1 DEF RowInQueue
      <4> QED BY <3>1, <4>1, RowCount, FS_EmptySet DEF Row!InQueue
    <3>2. CASE RowInQueue(n)
      <4>1. PICK i \in DOMAIN queue : queue[i] = n
        BY <3>2 DEF RowInQueue
      <4>2. {j \in DOMAIN queue : queue[j] = n} = {i}
        BY <4>1 DEF RowInv, RowsOnce
      <4> QED BY <3>2, <4>2, RowCount, FS_Singleton DEF Row!InQueue
    <3> QED BY <3>1, <3>2
  <2>3. RowOnce(n)
    BY DEF RowInv, RowsOnce
  <2>4. Row!InHand(n) = (IF RowInPass(n) THEN 1 ELSE 0) + (IF RowInDelivery(n) THEN 1 ELSE 0)
                        + (IF RowInSweep(n) THEN 1 ELSE 0)
    BY DEF Row!InHand, RowInPass, RowInDelivery, RowInSweep
  <2> QED BY <2>1, <2>2, <2>3, <2>4 DEF RowOnce
<1>2. Row!EveryTransmissionIsReported
  <2> SUFFICES ASSUME closer = "closed", ~dropped, NEW n \in rowOwed PROVE logged[n] = 1
    BY DEF Row!EveryTransmissionIsReported
  <2>1. n \in Row!Rows
    BY RowRowsBounds
  <2>2. RowSomewhere(n)
    BY DEF RowInv, RowsOwed
  <2>3. ~RowInPass(n) /\ ~RowInSweep(n) /\ ~RowInQueue(n) /\ ~RowInDelivery(n)
    BY RowPassKinds, EmptySeq
    DEF RowInv, RowShape, RowCloses, RowInPass, RowInSweep, RowInQueue, RowInDelivery
  <2> QED BY <2>1, <2>2, <2>3 DEF RowSomewhere, RowLogged, RowInv, RowShape, RowType, RowsOnce
<1> QED BY <1>1, <1>2 DEF Row!RowsAreFaithful

(***************************************************************************)
(* The global hotkey stream                                                *)
(***************************************************************************)

HookType ==
  /\ starts \in Nat /\ restarts \in Nat
  /\ hookReader \in [Hook!Streams -> {"none", "reading", "handling", "dying", "gone"}]

\* The one retry that UnregisterAll armed has made no restart yet, while it is
\* armed and while the restart it was spent on tears the old stream down; and a
\* Manager that closes the stream has emptied the dispatcher.
HookRetry ==
  /\ restarts <= 1
  /\ retryArmed => restarts = 0
  /\ caller = "teardown" => restarts = 0 /\ ~retryArmed
  /\ caller = "closing" => hookBinds = {} /\ latched = {}

HookInv == HookType /\ HookRetry /\ Hook!HeldCanBeReleased

\* Before the first Apply no stream runs and no key is held.
LEMMA HookInitial == Hook!Init => HookInv
  BY DEF Hook!Init, HookInv, HookType, HookRetry, Hook!HeldCanBeReleased

\* The Manager's caller keeps the types, and restarts the stream of one call
\* once (UnregisterAll, Register, planStream, Close).
LEMMA HookManagerRetries ==
  ASSUME HookInv, Hook!ManagerStep
  PROVE  HookType' /\ HookRetry'
<1> USE DEF HookInv, HookType, HookRetry
<1>1. ASSUME NEW S, NEW at \in {"idle", "register", "close"}, Hook!Unregisters(at, S)
      PROVE  HookType' /\ HookRetry'
  BY <1>1 DEF Hook!Unregisters
<1>2. CASE Hook!Apply
  BY <1>1, <1>2 DEF Hook!Apply
<1>3. CASE Hook!CloseBegins
  BY <1>1, <1>3 DEF Hook!CloseBegins
<1>4. CASE Hook!ClosesNothing \/ Hook!ClosesSource \/ Hook!GivesUpClose
  BY <1>4 DEF Hook!ClosesNothing, Hook!ClosesSource, Hook!GivesUpClose, Hook!registrar,
    Hook!dispatcher
<1>5. ASSUME starts < MaxStreams PROVE starts \in Nat /\ starts + 1 \in Hook!Streams
  BY <1>5, HookBounds DEF Hook!StreamAssumption, Hook!Streams
<1>6. CASE Hook!ClosesStream
  BY <1>6 DEF Hook!ClosesStream
<1>7. ASSUME NEW a \in Actions, Hook!FindsHealthy(a) \/ Hook!FindsDead(a)
      PROVE  HookType' /\ HookRetry'
  BY <1>7 DEF Hook!FindsHealthy, Hook!FindsDead, Hook!Added, Hook!Refused, Hook!registrar,
    Hook!dispatcher
<1>8. ASSUME NEW a \in Actions, Hook!Starts(a) \/ Hook!Restarts(a)
      PROVE  HookType' /\ HookRetry'
  BY <1>5, <1>8 DEF Hook!Starts, Hook!Restarts, Hook!StartsStream, Hook!Added
<1>9. ASSUME NEW a \in Actions, Hook!BeginsRestart(a) \/ Hook!GivesUpRestart(a)
      PROVE  HookType' /\ HookRetry'
  BY <1>9 DEF Hook!BeginsRestart, Hook!GivesUpRestart, Hook!ClaimsRetry, Hook!Refused,
    Hook!registrar, Hook!dispatcher
<1> QED BY <1>2, <1>3, <1>4, <1>6, <1>7, <1>8, <1>9 DEF Hook!ManagerStep

\* A reader that is in the application or on its way to releaseHeld stays
\* there until it gets there, and no other reader stops it.
LEMMA HookReaderHolds ==
  ASSUME HookInv, Hook!ReaderStep
  PROVE  HookInv'
<1> USE DEF HookInv, HookType
<1>1. UNCHANGED <<starts, restarts, retryArmed, caller, hookBinds, quit>>
  BY DEF Hook!ReaderStep, Hook!TakesKey, Hook!StreamDied, Hook!Releases, Hook!HandlerReturns,
    Hook!Quits, Hook!registrar, Hook!dispatcher, Hook!manager
<1>2. ASSUME NEW s \in Hook!Streams, Hook!TakesKey(s) PROVE HookInv'
  BY <1>1, <1>2 DEF Hook!TakesKey, Hook!Receives, HookRetry, Hook!HeldCanBeReleased, Hook!Alive
<1>3. ASSUME NEW s \in Hook!Streams, Hook!StreamDied(s) PROVE HookInv'
  BY <1>1, <1>3 DEF Hook!StreamDied, Hook!Receives, Hook!dispatcher, HookRetry,
    Hook!HeldCanBeReleased, Hook!Alive
<1>4. ASSUME NEW s \in Hook!Streams, Hook!Releases(s) \/ Hook!Quits(s) PROVE HookInv'
  BY <1>1, <1>4 DEF Hook!Releases, Hook!Quits, Hook!ReleaseHeld, HookRetry,
    Hook!HeldCanBeReleased
<1>5. ASSUME NEW s \in Hook!Streams, Hook!HandlerReturns(s) PROVE HookInv'
  BY <1>1, <1>5 DEF Hook!HandlerReturns, Hook!dispatcher, HookRetry, Hook!HeldCanBeReleased,
    Hook!Alive
<1> QED BY <1>2, <1>3, <1>4, <1>5 DEF Hook!ReaderStep

\* Whatever the caller does, a held key keeps somebody who can release it: a
\* restart tells the old reader to quit and Close empties the dispatcher.
LEMMA HookManagerReleases ==
  ASSUME HookInv, Hook!ManagerStep
  PROVE  Hook!HeldCanBeReleased'
<1> USE DEF HookInv, HookType
<1>1. CASE Hook!Apply \/ Hook!CloseBegins \/ Hook!ClosesStream
  BY <1>1 DEF Hook!Apply, Hook!CloseBegins, Hook!Unregisters, Hook!ClosesStream,
    Hook!HeldCanBeReleased
<1>2. CASE Hook!ClosesSource
  BY <1>2 DEF Hook!ClosesSource, Hook!dispatcher, HookRetry, Hook!HeldCanBeReleased
<1>3. CASE Hook!ClosesNothing \/ Hook!GivesUpClose
  BY <1>3 DEF Hook!ClosesNothing, Hook!GivesUpClose, Hook!dispatcher, Hook!HeldCanBeReleased,
    Hook!Alive
<1>4. ASSUME NEW a \in Actions,
             Hook!FindsHealthy(a) \/ Hook!FindsDead(a) \/ Hook!GivesUpRestart(a)
      PROVE  Hook!HeldCanBeReleased'
  BY <1>4 DEF Hook!FindsHealthy, Hook!FindsDead, Hook!GivesUpRestart, Hook!Added, Hook!Refused,
    Hook!dispatcher, Hook!HeldCanBeReleased, Hook!Alive
<1>5. ASSUME NEW a \in Actions, Hook!BeginsRestart(a) PROVE Hook!HeldCanBeReleased'
  BY <1>5 DEF Hook!BeginsRestart, Hook!dispatcher, Hook!HeldCanBeReleased, Hook!Alive
<1>6. ASSUME NEW a \in Actions, Hook!Starts(a) \/ Hook!Restarts(a)
      PROVE  Hook!HeldCanBeReleased'
  <2>1. starts + 1 \in Hook!Streams /\ source' = "up"
        /\ hookReader' = [hookReader EXCEPT ![starts + 1] = "reading"]
    BY <1>6, HookBounds DEF Hook!Starts, Hook!Restarts, Hook!StartsStream,
      Hook!StreamAssumption, Hook!Streams
  <2> QED BY <2>1 DEF Hook!HeldCanBeReleased, Hook!Alive
<1> QED BY <1>1, <1>2, <1>3, <1>4, <1>5, <1>6 DEF Hook!ManagerStep

\* Every step of the Manager's caller and of the readers keeps the invariant.
LEMMA HookPreserved ==
  ASSUME HookInv, [Hook!Next]_hookVars
  PROVE  HookInv'
<1>1. CASE Hook!Next
  BY <1>1, HookManagerRetries, HookManagerReleases, HookReaderHolds DEF Hook!Next, HookInv
<1>2. CASE UNCHANGED hookVars
  BY <1>2 DEF hookVars, HookInv, HookType, HookRetry, Hook!HeldCanBeReleased, Hook!Alive
<1> QED BY <1>1, <1>2

\* A stream that dies under a held key is made good, by one restart.
LEMMA HookInvImplies == HookInv => Hook!StreamIsMended
  BY DEF HookInv, HookRetry, Hook!StreamIsMended, Hook!OneRestartPerCall

(***************************************************************************)
(* The capture of a trigger                                                *)
(***************************************************************************)

CapPlaces == {"none", "keys", "sticks", "arm", "done"}
CapResumes == {"none", "fired", "keys", "cancel", "sticks", "done"}
CapPolls == [at : {"idle", "captured", "binding"}, token : Nat, action : CaptureRows \cup {NoRow}]

CapType ==
  /\ captureGen \in 0 .. MaxTokens /\ captureTimer \in {0, captureGen}
  /\ captureAction \in CaptureRows \cup {NoRow}
  /\ armed \in 0 .. captureGen
  /\ row \in [Capture!Tokens -> CaptureRows \cup {NoRow}]
  /\ begin \in [Capture!Tokens -> CapPlaces]
  /\ resume \in [Capture!Tokens -> [Capture!Enders -> CapResumes]]
  /\ poll \in CapPolls

\* One BeginCapture at a time, the newest; its action is the one of its row; and
\* what the poll goroutine binds is the row of its token.
CapRows ==
  /\ \A g \in Capture!Tokens : begin[g] \notin {"none", "done"} => g = captureGen
  /\ captureGen \in Capture!Tokens => captureAction = row[captureGen]
  /\ poll.at # "idle" => poll.token \in 1 .. captureGen
  /\ poll.at = "binding" => poll.action = row[poll.token]
  /\ Capture!BindsItsOwnRow

CapEnding(S) == \E e \in Capture!Enders : resume[captureGen][e] \in S

\* Once the newest capture's timer is stopped, what is still suspended or armed
\* is in the hand of one who ends that capture.
CapEnds ==
  captureTimer # captureGen =>
    /\ captureGen \in Capture!Tokens /\ begin[captureGen] = "done"
    /\ hkSuspended => CapEnding({"keys"})
    /\ armed # 0 => CapEnding({"keys", "cancel"})
    /\ jmSuspended => CapEnding({"keys", "cancel", "sticks"})

CapInv == CapType /\ CapRows /\ CapEnds

\* Before the first click nothing is suspended.
LEMMA CapInitial == Capture!Init => CapInv
<1> SUFFICES ASSUME Capture!Init PROVE CapInv
  OBVIOUS
<1>1. CapType
  BY CaptureBounds DEF Capture!Init, Capture!CaptureAssumption, CapType, CapPolls, CapPlaces,
    CapResumes, Capture!Idle
<1>2. CapRows /\ CapEnds
  BY DEF Capture!Init, CapRows, CapEnds, Capture!BindsItsOwnRow, Capture!Idle, Capture!Tokens
<1> QED BY <1>1, <1>2 DEF CapInv

\* A token is one of the numbers from 1 on.
LEMMA CapTokens ==
  ASSUME CapInv
  PROVE  /\ captureGen \in Nat /\ armed \in Nat
         /\ \A g \in 1 .. captureGen : g \in Capture!Tokens
         /\ \A g \in Capture!Tokens : g \in Nat /\ g > 0
  BY CaptureBounds DEF Capture!CaptureAssumption, CapInv, CapType, Capture!Tokens

\* BeginCapture takes the next token, with its row, and arms its timer.
LEMMA CapBegins ==
  ASSUME CapInv, NEW g \in Capture!Tokens, NEW r \in CaptureRows, Capture!Begin(g, r)
  PROVE  CapInv'
<1> USE DEF CapInv, Capture!managers
<1>1. /\ captureGen' = g /\ g = captureGen + 1 /\ captureTimer' = g /\ captureAction' = r
      /\ row' = [row EXCEPT ![g] = r] /\ begin' = [begin EXCEPT ![g] = "keys"]
      /\ UNCHANGED <<armed, resume, poll, bound>>
      /\ \A h \in 1 .. captureGen : begin[h] = "done"
  BY DEF Capture!Begin, Capture!ArmTimer
<1>2. captureGen \in Nat /\ armed \in 0 .. captureGen /\ g \in Nat /\ g > 0 /\ g <= MaxTokens
  BY CapTokens DEF CapType, Capture!Tokens
<1>3. CapType'
  BY <1>1, <1>2, CapTokens DEF CapType, CapPlaces
<1>4. CapRows'
  <2>1. ASSUME NEW h \in Capture!Tokens, begin'[h] \notin {"none", "done"} PROVE h = g
    BY <1>1, <1>2, <2>1, CapTokens DEF CapRows, CapType
  <2>2. row'[g] = r
    BY <1>1 DEF CapType
  <2>3. ASSUME poll.at # "idle" PROVE poll.token \in 1 .. g /\ row'[poll.token] = row[poll.token]
    BY <1>1, <1>2, <2>3, CapTokens DEF CapRows, CapType
  <2> QED BY <1>1, <2>1, <2>2, <2>3 DEF CapRows, Capture!BindsItsOwnRow
<1>5. CapEnds'
  BY <1>1 DEF CapEnds
<1> QED BY <1>3, <1>4, <1>5

\* BeginCapture suspends the managers and arms the joystick capture of its own
\* token, whose timer is not stopped before it has returned.
LEMMA CapGoesOn ==
  ASSUME CapInv, NEW g \in Capture!Tokens,
         Capture!SuspendKeys(g) \/ Capture!SuspendSticks(g) \/ Capture!ArmCapture(g)
  PROVE  CapInv'
<1> USE DEF CapInv, Capture!settings, Capture!managers
<1>1. /\ begin[g] \in {"keys", "sticks", "arm"}
      /\ \E to \in {"sticks", "arm", "done"} : begin' = [begin EXCEPT ![g] = to]
      /\ armed' \in {armed, g}
      /\ UNCHANGED <<captureGen, captureAction, captureTimer, row, resume, poll, bound>>
  BY DEF Capture!SuspendKeys, Capture!SuspendSticks, Capture!ArmCapture
<1>2. g = captureGen /\ g \in Nat /\ g > 0
  BY <1>1, CapTokens DEF CapRows
<1>3. CapType'
  BY <1>1, <1>2 DEF CapType, CapPlaces
<1>4. CapRows'
  BY <1>1, <1>2 DEF CapRows, CapType, Capture!BindsItsOwnRow
<1>5. CapEnds'
  BY <1>1, <1>2 DEF CapEnds
<1> QED BY <1>3, <1>4, <1>5

\* A completed capture is bound if its token is the newest when it is looked at,
\* to the action of that moment, whatever is clicked before Binds.
LEMMA CapPollBinds ==
  ASSUME CapInv, Capture!Completes \/ Capture!Checks \/ Capture!Binds
  PROVE  CapInv'
<1> USE DEF CapInv, Capture!settings, Capture!managers
<1>1. UNCHANGED <<captureGen, captureAction, captureTimer, hkSuspended, jmSuspended, row, begin,
                  resume>>
  BY DEF Capture!Completes, Capture!Checks, Capture!Binds
<1>2. NoRow \in CaptureRows \cup {NoRow}
  OBVIOUS
<1>3. CASE Capture!Completes
  <2>1. /\ poll' = [at |-> "captured", token |-> armed, action |-> NoRow] /\ armed' = 0
        /\ armed # 0 /\ UNCHANGED bound
    BY <1>3 DEF Capture!Completes
  <2>2. armed \in 1 .. captureGen /\ armed \in Nat
    BY <2>1, CapTokens DEF CapType
  <2>3. CapType'
    BY <1>1, <2>1, <2>2, CapTokens DEF CapType, CapPolls
  <2>4. CapRows'
    BY <1>1, <2>1, <2>2 DEF CapRows, Capture!BindsItsOwnRow
  <2>5. CapEnds'
    BY <1>1, <2>1 DEF CapEnds, CapEnding
  <2> QED BY <2>3, <2>4, <2>5
<1>4. CASE Capture!Checks
  <2>1. /\ poll.at = "captured" /\ UNCHANGED <<armed, bound>>
        /\ \/ /\ poll.token = captureGen
              /\ poll' = [poll EXCEPT !.at = "binding", !.action = captureAction]
           \/ poll' = Capture!Idle
    BY <1>4 DEF Capture!Checks, Capture!IsCurrent
  <2>2. poll \in CapPolls /\ captureAction \in CaptureRows \cup {NoRow}
    BY DEF CapType
  <2>3. CapType'
    <3>1. Capture!Idle \in CapPolls
      BY <1>2 DEF CapPolls, Capture!Idle
    <3>2. [poll EXCEPT !.at = "binding", !.action = captureAction] \in CapPolls
      BY <2>2 DEF CapPolls
    <3> QED BY <1>1, <2>1, <3>1, <3>2 DEF CapType
  <2>4. CapRows'
    <3>1. CASE poll' = Capture!Idle
      BY <1>1, <2>1, <3>1 DEF CapRows, Capture!BindsItsOwnRow, Capture!Idle
    <3>2. CASE poll.token = captureGen
                 /\ poll' = [poll EXCEPT !.at = "binding", !.action = captureAction]
      <4>1. poll'.token = captureGen /\ poll'.action = captureAction
        BY <2>2, <3>2 DEF CapPolls
      <4>2. captureGen \in 1 .. captureGen
        BY <2>1, <3>2 DEF CapRows
      <4> QED BY <1>1, <2>1, <4>1, <4>2, CapTokens DEF CapRows, Capture!BindsItsOwnRow
    <3> QED BY <2>1, <3>1, <3>2
  <2>5. CapEnds'
    BY <1>1, <2>1 DEF CapEnds, CapEnding
  <2> QED BY <2>3, <2>4, <2>5
<1>5. CASE Capture!Binds
  <2>1. /\ poll.at = "binding" /\ poll' = Capture!Idle /\ UNCHANGED armed
        /\ bound' = [for |-> row[poll.token], to |-> poll.action]
    BY <1>5 DEF Capture!Binds
  <2>2. CapType'
    BY <1>1, <2>1 DEF CapType, CapPolls, Capture!Idle
  <2>3. CapRows'
    BY <1>1, <2>1 DEF CapRows, Capture!BindsItsOwnRow, Capture!Idle
  <2>4. CapEnds'
    BY <1>1, <2>1 DEF CapEnds, CapEnding
  <2> QED BY <2>2, <2>3, <2>4
<1> QED BY <1>3, <1>4, <1>5

\* Who ends a capture moves on alone.
LEMMA CapMoves ==
  ASSUME CapInv, NEW g \in Capture!Tokens, NEW e \in Capture!Enders, NEW to \in CapResumes,
         Capture!Moves(g, e, to)
  PROVE  /\ resume' \in [Capture!Tokens -> [Capture!Enders -> CapResumes]]
         /\ resume'[g][e] = to
         /\ \A h \in Capture!Tokens, d \in Capture!Enders :
              h # g \/ d # e => resume'[h][d] = resume[h][d]
<1>1. resume' = [resume EXCEPT ![g] = [resume[g] EXCEPT ![e] = to]]
  BY DEF Capture!Moves
<1>2. resume[g] \in [Capture!Enders -> CapResumes]
  BY DEF CapInv, CapType
<1>3. [resume[g] EXCEPT ![e] = to] \in [Capture!Enders -> CapResumes]
  BY <1>2
<1> QED BY <1>1, <1>2, <1>3 DEF CapInv, CapType

\* EndCapture and the timer: only the end of the newest capture stops the timer,
\* and it resumes one manager after the other (resumeCapture).
LEMMA CapResume ==
  ASSUME CapInv, NEW g \in Capture!Tokens, NEW e \in Capture!Enders,
         \/ e = "timer" /\ Capture!Fires(g)
         \/ Capture!PassesGate(g, e) \/ Capture!ResumeKeys(g, e)
         \/ Capture!CancelCapture(g, e) \/ Capture!ResumeSticks(g, e)
  PROVE  CapInv'
<1> USE DEF CapInv, Capture!settings, Capture!managers
<1>1. UNCHANGED <<captureGen, captureAction, row, begin, poll, bound>>
  BY DEF Capture!Fires, Capture!PassesGate, Capture!ResumeKeys, Capture!CancelCapture,
    Capture!ResumeSticks
<1>2. CapRows'
  BY <1>1 DEF CapRows, Capture!BindsItsOwnRow
<1>3. CASE e = "timer" /\ Capture!Fires(g)
  <2>1. /\ Capture!Moves(g, "timer", "fired") /\ captureTimer = g
        /\ UNCHANGED <<captureTimer, armed, hkSuspended, jmSuspended>>
    BY <1>3 DEF Capture!Fires
  <2>2. resume' \in [Capture!Tokens -> [Capture!Enders -> CapResumes]]
    BY <2>1, CapMoves DEF CapResumes, Capture!Enders
  <2>3. CapType'
    BY <1>1, <2>1, <2>2 DEF CapType
  <2>4. captureTimer' = captureGen'
    BY <1>1, <2>1, CapTokens DEF CapType
  <2> QED BY <1>2, <2>3, <2>4 DEF CapEnds
<1>4. CASE Capture!PassesGate(g, e)
  <2>1. UNCHANGED <<armed, hkSuspended, jmSuspended>> /\ begin[g] = "done"
        /\ resume[g][e] \in {"none", "fired"}
    BY <1>4 DEF Capture!PassesGate, Capture!MayEnd
  <2>2. CASE g = captureGen /\ captureTimer' = 0 /\ Capture!Moves(g, e, "keys")
    <3>1. resume' \in [Capture!Tokens -> [Capture!Enders -> CapResumes]]
          /\ resume'[captureGen][e] = "keys"
      BY <2>2, CapMoves DEF CapResumes
    <3>2. CapType'
      BY <1>1, <2>1, <2>2, <3>1 DEF CapType
    <3>3. CapEnds'
      BY <1>1, <2>1, <2>2, <3>1 DEF CapEnds, CapEnding
    <3> QED BY <1>2, <3>2, <3>3
  <2>3. CASE g # captureGen /\ UNCHANGED captureTimer /\ Capture!Moves(g, e, "done")
    <3>1. resume' \in [Capture!Tokens -> [Capture!Enders -> CapResumes]]
          /\ \A h \in Capture!Tokens, d \in Capture!Enders :
               h # g \/ d # e => resume'[h][d] = resume[h][d]
      BY <2>3, CapMoves DEF CapResumes
    <3>2. CapType'
      BY <1>1, <2>1, <2>3, <3>1 DEF CapType
    <3>3. CapEnds'
      BY <1>1, <2>1, <2>3, <3>1 DEF CapEnds, CapEnding
    <3> QED BY <1>2, <3>2, <3>3
  <2> QED BY <1>4, <2>2, <2>3 DEF Capture!PassesGate, Capture!IsCurrent
<1>5. ASSUME Capture!ResumeKeys(g, e) \/ Capture!CancelCapture(g, e) \/ Capture!ResumeSticks(g, e)
      PROVE  CapInv'
  <2>1. UNCHANGED captureTimer
    BY <1>5 DEF Capture!ResumeKeys, Capture!CancelCapture, Capture!ResumeSticks
  <2>2. PICK to \in CapResumes :
          /\ Capture!Moves(g, e, to)
          /\ \/ resume[g][e] = "keys" /\ to = "cancel" /\ hkSuspended' = FALSE
                /\ UNCHANGED <<armed, jmSuspended>>
             \/ resume[g][e] = "cancel" /\ to = "sticks" /\ armed' = 0
                /\ UNCHANGED <<hkSuspended, jmSuspended>>
             \/ resume[g][e] = "sticks" /\ to = "done" /\ jmSuspended' = FALSE
                /\ UNCHANGED <<armed, hkSuspended>>
    BY <1>5 DEF Capture!ResumeKeys, Capture!CancelCapture, Capture!ResumeSticks, CapResumes
  <2>3. /\ resume' \in [Capture!Tokens -> [Capture!Enders -> CapResumes]]
        /\ resume'[g][e] = to
        /\ \A h \in Capture!Tokens, d \in Capture!Enders :
             h # g \/ d # e => resume'[h][d] = resume[h][d]
    BY <2>2, CapMoves
  <2>4. CapType'
    BY <1>1, <2>1, <2>2, <2>3, CapTokens DEF CapType
  <2>5. CapEnds'
    BY <1>1, <2>1, <2>2, <2>3 DEF CapEnds, CapEnding
  <2> QED BY <1>2, <2>4, <2>5
<1> QED BY <1>3, <1>4, <1>5

\* Every step of BeginCapture, of its ends and of the poll goroutine keeps the
\* invariant.
LEMMA CapPreserved ==
  ASSUME CapInv, [Capture!Next]_captureVars
  PROVE  CapInv'
<1>1. CASE Capture!Next
  <2>1. "timer" \in Capture!Enders
    BY DEF Capture!Enders
  <2> QED BY <1>1, <2>1, CapBegins, CapGoesOn, CapPollBinds, CapResume
          DEF Capture!Next, Capture!CaptureStep
<1>2. CASE UNCHANGED captureVars
  BY <1>2 DEF captureVars, CapInv, CapType, CapRows, CapEnds, CapEnding, Capture!BindsItsOwnRow
<1> QED BY <1>1, <1>2

\* What a capture may leave behind: one binding, of its row, and hotkeys that
\* work again (BeginCapture, onJoystickCaptured, resumeCapture).
LEMMA CapInvImplies == CapInv => Capture!CaptureIsContained
<1> SUFFICES ASSUME CapInv PROVE Capture!CaptureIsContained
  OBVIOUS
<1>1. Capture!SuspensionEnds
  BY DEF CapInv, CapEnds, CapEnding, Capture!SuspensionEnds
<1> QED BY <1>1 DEF CapInv, CapRows, Capture!CaptureIsContained

(***************************************************************************)
(* The refresh of the hotkeys                                              *)
(***************************************************************************)

RefRadioType ==
  /\ updater \in [Updaters -> {"idle", "changed", "read", "enqueue", "wake"}]
  /\ sig \in [Updaters -> Radios] /\ radios \in Radios
  /\ refreshPending \in Nat
  /\ refresher \in {"wait", "check", "ready", "applied", "returned"}
  /\ refreshQuit \in {"no", "polls", "stopping", "closed"}

\* The refresher is stopped before it is waited for, and waited for before the
\* hotkey layer is closed.
RefStops ==
  /\ refreshStopped <=> refreshQuit \in {"stopping", "closed"}
  /\ refresher = "returned" => refreshStopped
  /\ Refresh!NoRefreshAfterClose

\* A job that is pending has its wake-up.
RefWoken ==
  refreshPending > 0 /\ ~refreshStopped =>
    wake \/ refresher # "wait" \/ \E u \in Updaters : updater[u] = "wake"

\* An observer that has the signature of the radios, or is still to read it.
RefComes(u) == updater[u] = "changed" \/ (updater[u] = "read" /\ sig[u] = radios)

\* The hotkeys are those of the radios, or a refresh is owed, or an observer is
\* going to ask for one: the signature in force is not that of the radios.
RefOwed ==
  ~returned /\ ~refreshStopped =>
    \/ applied.radios = radios
    \/ refreshPending > 0 \/ refresher = "ready"
    \/ \E u \in Updaters : updater[u] = "enqueue"
    \/ radios # radioSig /\ \E u \in Updaters : RefComes(u)

RefRadioInv == RefRadioType /\ RefStops /\ RefWoken /\ RefOwed

\* An observer asks for a refresh if the signature has changed, and a stopped
\* refresher takes no job (onRadiosChanged, enqueue).
LEMMA RefUpdaters ==
  ASSUME RefRadioInv, NEW u \in Updaters,
         \/ Refresh!ChangeRadios(u) \/ Refresh!ReadSignature(u) \/ Refresh!SwapSignature(u)
         \/ Refresh!Enqueue(u) \/ Refresh!Wake(u)
  PROVE  RefRadioInv'
<1> USE DEF RefRadioInv, RefRadioType
<1>1. CASE Refresh!ChangeRadios(u)
  <2>1. /\ updater' = [updater EXCEPT ![u] = "changed"] /\ updater[u] = "idle"
        /\ radios' \in Radios /\ radios' # radios
        /\ returned' = (returned \/ radios' = radioSig)
        /\ UNCHANGED <<sig, radioSig, refreshPending, refreshStopped, wake, refresher,
                       refreshQuit, applied>>
    BY <1>1 DEF Refresh!ChangeRadios
  <2>2. RefRadioType' /\ RefStops' /\ RefWoken'
    BY <2>1 DEF RefStops, RefWoken, Refresh!NoRefreshAfterClose
  <2>3. RefComes(u)'
    BY <2>1 DEF RefComes
  <2>4. RefOwed'
    BY <2>1, <2>3 DEF RefOwed
  <2> QED BY <2>2, <2>4
<1>2. CASE Refresh!ReadSignature(u)
  <2>1. /\ updater' = [updater EXCEPT ![u] = "read"] /\ updater[u] = "changed"
        /\ sig' = [sig EXCEPT ![u] = radios]
        /\ UNCHANGED <<radios, radioSig, refreshPending, refreshStopped, wake, refresher,
                       refreshQuit, returned, applied>>
    BY <1>2 DEF Refresh!ReadSignature
  <2>2. RefRadioType' /\ RefStops' /\ RefWoken'
    BY <2>1 DEF RefStops, RefWoken, Refresh!NoRefreshAfterClose
  <2>3. \A v \in Updaters : RefComes(v) => RefComes(v)'
    BY <2>1 DEF RefComes
  <2>4. RefOwed'
    BY <2>1, <2>3 DEF RefOwed
  <2> QED BY <2>2, <2>4
<1>3. CASE Refresh!SwapSignature(u)
  <2>1. /\ updater' = [updater EXCEPT ![u] = IF sig[u] # radioSig THEN "enqueue" ELSE "idle"]
        /\ updater[u] = "read" /\ radioSig' = sig[u]
        /\ sig' = [sig EXCEPT ![u] = NoRadios] /\ NoRadios \in Radios
        /\ UNCHANGED <<radios, refreshPending, refreshStopped, wake, refresher,
                       refreshQuit, returned, applied>>
    BY <1>3, RefreshBounds DEF Refresh!SwapSignature, Refresh!Changed, Refresh!RefreshAssumption
  <2>2. RefRadioType' /\ RefStops' /\ RefWoken'
    BY <2>1 DEF RefStops, RefWoken, Refresh!NoRefreshAfterClose
  <2>3. CASE sig[u] # radioSig
    <3>1. updater'[u] = "enqueue"
      BY <2>1, <2>3
    <3>2. RefOwed'
      BY <3>1 DEF RefOwed
    <3> QED BY <2>2, <3>2
  <2>4. CASE sig[u] = radioSig
    <3>1. /\ radioSig' = radioSig
          /\ \A v \in Updaters \ {u} : updater'[v] = updater[v] /\ sig'[v] = sig[v]
      BY <2>1, <2>4
    <3>2. radios # radioSig => ~RefComes(u)
      BY <2>1, <2>4 DEF RefComes
    <3>3. \A v \in Updaters \ {u} : (RefComes(v) => RefComes(v)')
      BY <2>1, <3>1 DEF RefComes
    <3>4. RefOwed'
      BY <2>1, <3>1, <3>2, <3>3 DEF RefOwed
    <3> QED BY <2>2, <3>4
  <2> QED BY <2>3, <2>4
<1>4. CASE Refresh!Enqueue(u) \/ Refresh!Wake(u)
  <2>1. /\ updater[u] \in {"enqueue", "wake"}
        /\ \E at \in {"idle", "wake"} : updater' = [updater EXCEPT ![u] = at]
        /\ \/ updater[u] = "enqueue" /\ ~refreshStopped /\ refreshPending' = refreshPending + 1
              /\ updater'[u] = "wake" /\ UNCHANGED wake
           \/ updater[u] = "enqueue" /\ refreshStopped /\ UNCHANGED <<refreshPending, wake>>
           \/ updater[u] = "wake" /\ wake' = TRUE /\ UNCHANGED refreshPending
        /\ UNCHANGED <<radios, sig, radioSig, refreshStopped, refresher, refreshQuit, returned,
                       applied>>
    BY <1>4 DEF Refresh!Enqueue, Refresh!Wake
  <2>2. RefRadioType' /\ RefStops'
    BY <2>1 DEF RefStops, Refresh!NoRefreshAfterClose
  <2>3. RefWoken'
    BY <2>1 DEF RefWoken
  <2>4. \A v \in Updaters : RefComes(v) => RefComes(v)'
    BY <2>1 DEF RefComes
  <2>5. RefOwed'
    BY <2>1, <2>4 DEF RefOwed
  <2> QED BY <2>2, <2>3, <2>5
<1> QED BY <1>1, <1>2, <1>3, <1>4

\* The refresher looks for a job once more before it waits, and applies the
\* radios of the moment (keybindRefresher.loop, close).
LEMMA RefRefresher ==
  ASSUME RefRadioInv,
         \/ Refresh!RefresherWakes \/ Refresh!RefresherReturns \/ Refresh!TakeJob
         \/ Refresh!RefresherApplies \/ Refresh!RefresherEmits
         \/ Refresh!StopRefresher \/ Refresh!CloseHotkeys
  PROVE  RefRadioInv'
<1> USE DEF RefRadioInv, RefRadioType
<1>1. UNCHANGED <<radios, updater, sig, radioSig, returned>>
  BY DEF Refresh!RefresherWakes, Refresh!RefresherReturns, Refresh!TakeJob,
    Refresh!RefresherApplies, Refresh!RefresherEmits, Refresh!StopRefresher,
    Refresh!CloseHotkeys
<1>2. \A v \in Updaters : RefComes(v) => RefComes(v)'
  BY <1>1 DEF RefComes
<1>3. CASE Refresh!RefresherWakes \/ Refresh!RefresherReturns \/ Refresh!TakeJob
  <2>1. UNCHANGED <<applied, refreshStopped, refreshQuit>>
    BY <1>3 DEF Refresh!RefresherWakes, Refresh!RefresherReturns, Refresh!TakeJob
  <2> QED BY <1>1, <1>2, <1>3, <2>1 DEF Refresh!RefresherWakes, Refresh!RefresherReturns,
          Refresh!TakeJob, RefStops, Refresh!NoRefreshAfterClose, RefWoken, RefOwed
<1>4. CASE Refresh!RefresherApplies
  <2>1. applied'.radios = radios /\ refresher = "ready" /\ refresher' = "applied"
        /\ UNCHANGED <<refreshPending, refreshStopped, wake, refreshQuit>>
    BY <1>4 DEF Refresh!RefresherApplies, Refresh!Apply
  <2> QED BY <1>1, <1>2, <2>1 DEF RefStops, Refresh!NoRefreshAfterClose, RefWoken, RefOwed
<1>5. CASE Refresh!RefresherEmits
  <2>1. refresher = "applied" /\ refresher' = "check"
        /\ UNCHANGED <<refreshPending, refreshStopped, wake, refreshQuit, applied>>
    BY <1>5 DEF Refresh!RefresherEmits, Refresh!AfterJob
  <2> QED BY <1>1, <1>2, <2>1 DEF RefStops, Refresh!NoRefreshAfterClose, RefWoken, RefOwed
<1>6. CASE Refresh!StopRefresher
  <2>1. refreshQuit = "polls" /\ refreshQuit' = "stopping" /\ refreshStopped' = TRUE
        /\ refreshPending' = 0 /\ UNCHANGED <<wake, refresher, applied>>
    BY <1>6 DEF Refresh!StopRefresher
  <2> QED BY <1>1, <1>2, <2>1 DEF RefStops, Refresh!NoRefreshAfterClose, RefWoken, RefOwed
<1>7. CASE Refresh!CloseHotkeys
  <2>1. refreshQuit = "stopping" /\ refreshQuit' = "closed" /\ refresher = "returned"
        /\ UNCHANGED <<refreshPending, refreshStopped, wake, refresher, applied>>
    BY <1>7 DEF Refresh!CloseHotkeys, Refresh!Joined
  <2> QED BY <1>1, <1>2, <2>1 DEF RefStops, Refresh!NoRefreshAfterClose, RefWoken, RefOwed
<1> QED BY <1>3, <1>4, <1>5, <1>6, <1>7

\* The permission's polls, hooks and clicks touch the radios' side only by an
\* apply, which takes the radios of the moment (applyHotkeys).
LEMMA RefRadiosRest ==
  ASSUME RefRadioInv,
         UNCHANGED <<radios, updater, sig, radioSig, returned, refreshPending, refreshStopped,
                     wake, refresher>>,
         refreshQuit' = refreshQuit \/ (refreshQuit = "no" /\ refreshQuit' = "polls"),
         applied' = applied \/ applied'.radios = radios
  PROVE  RefRadioInv'
  BY DEF RefRadioInv, RefRadioType, RefStops, Refresh!NoRefreshAfterClose, RefWoken,
    RefComes, RefOwed

RefPermType ==
  /\ granted \in BOOLEAN /\ lastPerm \in BOOLEAN /\ applied.granted \in BOOLEAN
  /\ permPoll \in [Refresh!Polls -> {"none", "ticking", "found", "applied", "over"}]
  /\ hook \in [Hooks -> {"idle", "passed", "locked", "found", "applied"}]
  /\ clicks \in Nat /\ focuses \in Nat /\ clicks + focuses <= MaxAsks /\ rebuilt \in Nat

\* Whoever applies, or has looked for the grant under the lock, has writeMu.
RefHolder ==
  /\ \A h \in Hooks : hook[h] \in {"locked", "found", "applied"} => refreshMu = <<"hook", h>>
  /\ \A p \in Refresh!Polls : permPoll[p] = "applied" => refreshMu = <<"poll", p>>
  /\ click = "applied" => refreshMu = <<"click", 0>>
  /\ refresher = "applied" => refreshMu = <<"refresher", 0>>

\* A grant is for good: whoever has found it, it is there; none is given while
\* the click that asks for it is under way; and a poll that may still apply is
\* the newest, whose channel is open.
RefFound ==
  /\ lastPerm => granted
  /\ applied.granted => granted
  /\ click \in {"cancel", "ready", "applied"} => lastPerm
  /\ click = "arm" => ~granted /\ clicks \in Refresh!Polls
  /\ \A p \in Refresh!Polls : permPoll[p] \in {"found", "applied"} => lastPerm
  /\ \A p \in Refresh!Polls :
       permPoll[p] \in {"ticking", "found"} => p \in cancelled \/ p = permCancel
  /\ \A h \in Hooks : hook[h] \in {"found", "applied"} => lastPerm

\* Polls are numbered by the clicks that armed them.
RefNumbers ==
  \A p \in cancelled \cup {permCancel} :
    p \in Nat /\ p <= clicks /\ (click = "arm" => p < clicks)

\* While a superseded poll still ticks, so does the one that superseded it: the
\* deadlines come in the order of the clicks.
RefNewest ==
  refreshQuit = "no" /\ ~lastPerm
  /\ (\E p \in Refresh!Polls : permPoll[p] = "ticking" /\ p \in cancelled)
  => \E q \in Refresh!Polls : permPoll[q] = "ticking" /\ q \notin cancelled

\* Once the taps are rebuilt nobody is left who would do it again.
RefOnce ==
  /\ rebuilt <= 1
  /\ rebuilt > 0 =>
       /\ lastPerm
       /\ \A h \in Hooks : hook[h] \notin {"locked", "found"}
       /\ \A p \in Refresh!Polls : permPoll[p] \in {"ticking", "found"} => p \in cancelled

\* A grant that is shown is in the taps, or somebody is on the way to apply it
\* whom no cancellation stops.
RefEffect ==
  refreshQuit = "no" /\ lastPerm /\ ~peeked =>
    \/ applied.granted
    \/ click \in {"cancel", "ready"}
    \/ \E p \in Refresh!Polls : permPoll[p] \in {"ticking", "found"} /\ p \notin cancelled
    \/ \E h \in Hooks : hook[h] = "found"

RefPermInv ==
  RefPermType /\ RefHolder /\ RefFound /\ RefNumbers /\ RefNewest /\ RefOnce /\ RefEffect
RefInv == RefRadioInv /\ RefPermInv

\* SetSettingsBackend has applied the hotkeys once, and nothing is on its way.
LEMMA RefInitial == Refresh!Init => RefInv
<1> SUFFICES ASSUME Refresh!Init PROVE RefInv
  OBVIOUS
<1>1. RefRadioInv
  BY RefreshBounds DEF Refresh!Init, Refresh!RefreshAssumption, RefRadioInv, RefRadioType,
    RefStops, Refresh!NoRefreshAfterClose, RefWoken, RefOwed
<1>2. RefPermType
  <2>1. clicks = 0 /\ focuses = 0 /\ rebuilt = 0 /\ clicks + focuses <= MaxAsks
    BY RefreshBounds DEF Refresh!Init, Refresh!RefreshAssumption
  <2>2. permPoll = [p \in Refresh!Polls |-> "none"] /\ hook = [h \in Hooks |-> "idle"]
    BY DEF Refresh!Init
  <2>3. granted = FALSE /\ lastPerm = FALSE /\ applied.granted = FALSE
    BY DEF Refresh!Init
  <2> QED BY <2>1, <2>2, <2>3 DEF RefPermType
<1>3. RefHolder /\ RefFound /\ RefNumbers /\ RefNewest /\ RefOnce /\ RefEffect
  BY DEF Refresh!Init, RefHolder, RefFound, RefNumbers, RefNewest, RefOnce, RefEffect,
    Refresh!NoPoll
<1> QED BY <1>1, <1>2, <1>3 DEF RefInv, RefPermInv

\* The radios' side touches nothing of the permission's.
LEMMA RefPermRests ==
  ASSUME RefPermInv,
         UNCHANGED <<granted, lastPerm, permPoll, cancelled, permCancel, hook, click, clicks,
                     focuses, peeked, rebuilt, refreshMu, applied>>,
         refresher' = "applied" => refresher = "applied",
         refreshQuit' = "no" => refreshQuit = "no"
  PROVE  RefPermInv'
  BY DEF RefPermInv, RefPermType, RefHolder, RefFound, RefNumbers, RefNewest, RefOnce,
    RefEffect

\* The refresher applies under the grant of the moment and then looks at it.
LEMMA RefRefresherGrant ==
  ASSUME RefPermInv, Refresh!RefresherApplies \/ Refresh!RefresherEmits
  PROVE  RefPermInv'
<1> USE DEF RefPermInv, RefPermType
<1>1. UNCHANGED <<granted, permPoll, cancelled, permCancel, hook, click, clicks, focuses, rebuilt,
                  refreshQuit>>
  BY DEF Refresh!RefresherApplies, Refresh!RefresherEmits, Refresh!permVars
<1>2. CASE Refresh!RefresherApplies
  <2>1. /\ refresher' = "applied" /\ refreshMu = Refresh!Free /\ refreshMu' = <<"refresher", 0>>
        /\ applied'.granted = granted /\ UNCHANGED <<lastPerm, peeked>>
    BY <1>2 DEF Refresh!RefresherApplies, Refresh!Apply, Refresh!permVars
  <2>2. RefHolder'
    BY <1>1, <2>1 DEF RefHolder, Refresh!Free
  <2>3. RefPermType' /\ RefFound' /\ RefNumbers' /\ RefNewest' /\ RefOnce'
    BY <1>1, <2>1 DEF RefFound, RefNumbers, RefNewest, RefOnce
  <2>4. RefEffect'
    BY <1>1, <2>1 DEF RefFound, RefEffect
  <2> QED BY <2>2, <2>3, <2>4
<1>3. CASE Refresh!RefresherEmits
  <2>1. /\ refresher = "applied" /\ refresher' = "check" /\ refreshMu' = Refresh!Free
        /\ lastPerm' = granted /\ peeked' = (peeked \/ (granted /\ ~applied.granted))
        /\ UNCHANGED applied
    BY <1>3 DEF Refresh!RefresherEmits, Refresh!AfterJob, Refresh!Look, Refresh!Unlock
  <2>2. RefHolder'
    BY <1>1, <2>1 DEF RefHolder, Refresh!Free
  <2>3. RefPermType' /\ RefFound' /\ RefNumbers' /\ RefNewest' /\ RefOnce'
    BY <1>1, <2>1 DEF RefFound, RefNumbers, RefNewest, RefOnce
  <2>4. RefEffect'
    BY <1>1, <2>1 DEF RefFound, RefEffect
  <2> QED BY <2>2, <2>3, <2>4
<1> QED BY <1>2, <1>3

\* Cancelling the poll that is armed leaves none that is not cancelled.
LEMMA RefCancels ==
  ASSUME RefPermInv, permCancel' = Refresh!NoPoll,
         cancelled' = cancelled \cup ({permCancel} \ {Refresh!NoPoll}),
         UNCHANGED <<granted, lastPerm, permPoll, hook, clicks, applied>>,
         click' = click \/ (click = "cancel" /\ click' = "ready")
  PROVE  RefFound' /\ RefNumbers'
<1> USE DEF RefPermInv, RefPermType
<1>1. \A p \in Refresh!Polls : p # Refresh!NoPoll
  BY DEF Refresh!Polls, Refresh!NoPoll
<1>2. RefFound'
  BY <1>1 DEF RefFound
<1>3. click = "arm" => clicks > 0
  BY DEF RefFound, Refresh!Polls
<1>4. RefNumbers'
  BY <1>3 DEF RefNumbers, Refresh!NoPoll
<1> QED BY <1>2, <1>4

\* A view looks, the grant comes, a poll is stopped at quitting.
LEMMA RefGrants ==
  ASSUME RefPermInv, Refresh!Grant \/ Refresh!GetHotkeyState \/ Refresh!StopPolls
  PROVE  RefPermInv'
<1> USE DEF RefPermInv, RefPermType
<1>1. UNCHANGED <<permPoll, hook, click, clicks, focuses, rebuilt, refreshMu, refresher, applied>>
  BY DEF Refresh!Grant, Refresh!GetHotkeyState, Refresh!StopPolls, Refresh!radioVars
<1>2. CASE Refresh!Grant
  <2>1. /\ ~granted /\ granted' = TRUE /\ click # "arm"
        /\ UNCHANGED <<lastPerm, cancelled, permCancel, peeked, refreshQuit>>
    BY <1>2 DEF Refresh!Grant, Refresh!radioVars
  <2> QED BY <1>1, <2>1 DEF RefHolder, RefFound, RefNumbers, RefNewest, RefOnce, RefEffect
<1>3. CASE Refresh!GetHotkeyState
  <2>1. /\ lastPerm' = granted /\ peeked' = (peeked \/ (granted /\ ~applied.granted))
        /\ UNCHANGED <<granted, cancelled, permCancel, refreshQuit>>
    BY <1>3 DEF Refresh!GetHotkeyState, Refresh!Look, Refresh!radioVars
  <2> QED BY <1>1, <2>1 DEF RefHolder, RefFound, RefNumbers, RefNewest, RefOnce, RefEffect
<1>4. CASE Refresh!StopPolls
  <2>1. /\ refreshQuit' = "polls" /\ permCancel' = Refresh!NoPoll
        /\ cancelled' = cancelled \cup ({permCancel} \ {Refresh!NoPoll})
        /\ UNCHANGED <<granted, lastPerm, peeked>>
    BY <1>4 DEF Refresh!StopPolls, Refresh!cancelPermissionPoll
  <2>2. RefFound' /\ RefNumbers'
    BY <1>1, <2>1, RefCancels
  <2> QED BY <1>1, <2>1, <2>2 DEF RefHolder, RefNewest, RefOnce, RefEffect
<1> QED BY <1>2, <1>3, <1>4

\* The click arms the newest poll when there is no grant, and otherwise applies
\* itself after it has cancelled the poll (RequestHotkeyPermission).
LEMMA RefClicks ==
  ASSUME RefPermInv,
         \/ Refresh!Request \/ Refresh!ArmPoll
         \/ Refresh!ClickCancels \/ Refresh!ClickApplies \/ Refresh!ClickEmits
  PROVE  RefPermInv'
<1> USE DEF RefPermInv, RefPermType
<1>1. UNCHANGED <<granted, hook, focuses, rebuilt, refresher, refreshQuit, peeked>>
  BY DEF Refresh!Request, Refresh!ArmPoll, Refresh!ClickCancels, Refresh!ClickApplies,
    Refresh!ClickEmits, Refresh!radioVars, Refresh!See
<1>3. CASE Refresh!Request
  <2>1. /\ click = "idle" /\ clicks + focuses < MaxAsks /\ clicks' = clicks + 1
        /\ lastPerm' = granted /\ click' = (IF granted THEN "cancel" ELSE "arm")
        /\ UNCHANGED <<permPoll, cancelled, permCancel, refreshMu, applied>>
    BY <1>3 DEF Refresh!Request, Refresh!See
  <2>2. clicks' + focuses' <= MaxAsks /\ clicks' \in Refresh!Polls
    BY <1>1, <2>1, RefreshBounds DEF Refresh!RefreshAssumption, Refresh!Polls
  <2>3. RefPermType' /\ RefOnce' /\ RefHolder' /\ RefNewest'
    BY <1>1, <2>1, <2>2 DEF RefHolder, RefOnce, RefFound, RefNewest
  <2>4. RefFound' /\ RefEffect'
    BY <1>1, <2>1, <2>2 DEF RefFound, RefEffect
  <2>5. RefNumbers'
    BY <1>1, <2>1 DEF RefNumbers
  <2> QED BY <2>3, <2>4, <2>5
<1>4. CASE Refresh!ArmPoll
  <2>1. /\ click = "arm" /\ click' = "idle" /\ permCancel' = clicks
        /\ cancelled' = cancelled \cup ({permCancel} \ {Refresh!NoPoll})
        /\ permPoll' = [permPoll EXCEPT ![clicks] = "ticking"]
        /\ UNCHANGED <<lastPerm, clicks, refreshMu, applied>>
    BY <1>4 DEF Refresh!ArmPoll
  <2>2. ~granted /\ ~lastPerm /\ clicks \in Refresh!Polls
    BY <2>1 DEF RefFound
  <2>3. RefPermType' /\ RefHolder' /\ RefOnce' /\ RefEffect'
    BY <1>1, <2>1, <2>2 DEF RefHolder, RefOnce, RefEffect
  <2>4. RefFound'
    BY <1>1, <2>1, <2>2 DEF RefFound, Refresh!Polls, Refresh!NoPoll
  <2>5. RefNumbers'
    BY <1>1, <2>1 DEF RefNumbers
  <2>6. clicks \notin cancelled' /\ permPoll'[clicks] = "ticking"
    BY <2>1, <2>2 DEF RefNumbers
  <2>7. RefNewest'
    BY <2>2, <2>6 DEF RefNewest
  <2> QED BY <2>3, <2>4, <2>5, <2>7
<1>5. CASE Refresh!ClickCancels
  <2>1. /\ click = "cancel" /\ click' = "ready" /\ permCancel' = Refresh!NoPoll
        /\ cancelled' = cancelled \cup ({permCancel} \ {Refresh!NoPoll})
        /\ UNCHANGED <<lastPerm, permPoll, clicks, refreshMu, applied>>
    BY <1>5 DEF Refresh!ClickCancels, Refresh!cancelPermissionPoll
  <2>2. lastPerm
    BY <2>1 DEF RefFound
  <2>3. RefPermType' /\ RefHolder' /\ RefNewest' /\ RefOnce' /\ RefEffect'
    BY <1>1, <2>1, <2>2 DEF RefHolder, RefNewest, RefOnce, RefEffect
  <2>4. RefFound' /\ RefNumbers'
    BY <1>1, <2>1, <2>2, RefCancels
  <2> QED BY <2>3, <2>4
<1>6. CASE Refresh!ClickApplies
  <2>1. /\ click = "ready" /\ click' = "applied" /\ refreshMu = Refresh!Free
        /\ refreshMu' = <<"click", 0>> /\ applied'.granted = granted
        /\ UNCHANGED <<lastPerm, permPoll, cancelled, permCancel, clicks>>
    BY <1>6 DEF Refresh!ClickApplies, Refresh!Apply
  <2>2. RefHolder'
    BY <1>1, <2>1 DEF RefHolder, Refresh!Free
  <2>3. RefPermType' /\ RefOnce' /\ RefFound' /\ RefNumbers' /\ RefNewest' /\ RefEffect'
    BY <1>1, <2>1 DEF RefOnce, RefFound, RefNumbers, RefNewest, RefEffect
  <2> QED BY <2>2, <2>3
<1>7. CASE Refresh!ClickEmits
  <2>1. /\ click = "applied" /\ click' = "idle" /\ lastPerm' = granted
        /\ refreshMu' = Refresh!Free
        /\ UNCHANGED <<permPoll, cancelled, permCancel, clicks, applied>>
    BY <1>7 DEF Refresh!ClickEmits, Refresh!See, Refresh!Unlock
  <2>2. RefHolder'
    BY <1>1, <2>1 DEF RefHolder, Refresh!Free
  <2>3. RefPermType' /\ RefOnce' /\ RefFound' /\ RefNumbers' /\ RefNewest' /\ RefEffect'
    BY <1>1, <2>1 DEF RefOnce, RefFound, RefNumbers, RefNewest, RefEffect
  <2> QED BY <2>2, <2>3
<1> QED BY <1>3, <1>4, <1>5, <1>6, <1>7

\* A poll that finds the grant applies unless its channel is closed when it has
\* the lock (applyGrantedHotkeys).
LEMMA RefPolls ==
  ASSUME RefPermInv, NEW p \in Refresh!Polls,
         \/ Refresh!Tick(p) \/ Refresh!Superseded(p) \/ Refresh!Deadline(p)
         \/ Refresh!PollApplies(p) \/ Refresh!PollEmits(p)
  PROVE  RefPermInv'
<1> USE DEF RefPermInv, RefPermType
<1>1. UNCHANGED <<granted, hook, click, clicks, focuses, cancelled, permCancel, refresher,
                  refreshQuit, peeked>>
  BY DEF Refresh!Tick, Refresh!Superseded, Refresh!Deadline, Refresh!PollApplies,
    Refresh!PollEmits, Refresh!radioVars, Refresh!See
<1>2. RefNumbers'
  BY <1>1 DEF RefNumbers
<1>3. CASE Refresh!Tick(p)
  <2>1. /\ permPoll[p] = "ticking" /\ permPoll' = [permPoll EXCEPT ![p] = "found"]
        /\ granted /\ lastPerm' = granted /\ UNCHANGED <<rebuilt, refreshMu, applied>>
    BY <1>3 DEF Refresh!Tick, Refresh!See
  <2>2. RefPermType' /\ RefHolder' /\ RefOnce' /\ RefFound' /\ RefNewest'
    BY <1>1, <2>1 DEF RefHolder, RefOnce, RefFound, RefNewest
  <2>3. \A q \in Refresh!Polls :
          permPoll[q] \in {"ticking", "found"} => permPoll'[q] \in {"ticking", "found"}
    BY <2>1
  <2>4. RefEffect'
    BY <1>1, <2>1, <2>3 DEF RefEffect, RefNewest
  <2> QED BY <1>2, <2>2, <2>4
<1>4. CASE Refresh!Superseded(p) \/ Refresh!Deadline(p)
  <2>1. /\ permPoll[p] = "ticking" /\ permPoll' = [permPoll EXCEPT ![p] = "over"]
        /\ UNCHANGED <<lastPerm, rebuilt, refreshMu, applied>>
        /\ \/ p \in cancelled
           \/ p \notin cancelled /\ ~granted /\ \A q \in cancelled : permPoll[q] # "ticking"
    BY <1>4 DEF Refresh!Superseded, Refresh!Deadline
  <2>2. RefPermType' /\ RefHolder' /\ RefOnce' /\ RefFound'
    BY <1>1, <2>1 DEF RefHolder, RefOnce, RefFound
  <2>3. RefNewest'
    BY <1>1, <2>1 DEF RefNewest
  <2>4. RefEffect'
    BY <1>1, <2>1 DEF RefEffect, RefFound
  <2> QED BY <1>2, <2>2, <2>3, <2>4
<1>5. CASE Refresh!PollApplies(p)
  <2>1. permPoll[p] = "found" /\ refreshMu = Refresh!Free /\ UNCHANGED lastPerm
    BY <1>5 DEF Refresh!PollApplies, Refresh!Apply
  <2>2. lastPerm /\ granted
    BY <2>1 DEF RefFound
  <2>3. CASE p \notin cancelled
    <3>1. /\ permPoll' = [permPoll EXCEPT ![p] = "applied"] /\ rebuilt' = rebuilt + 1
          /\ refreshMu' = <<"poll", p>> /\ applied'.granted = granted
      BY <1>5, <2>3 DEF Refresh!PollApplies, Refresh!Apply, Refresh!StillWanted
    <3>2. RefHolder'
      BY <1>1, <2>1, <3>1 DEF RefHolder, Refresh!Free
    <3>3. p = permCancel /\ \A h \in Hooks : hook[h] \notin {"locked", "found"}
      BY <2>1, <2>3 DEF RefFound, RefHolder, Refresh!Free
    <3>4. rebuilt = 0
      BY <2>1, <2>3 DEF RefOnce
    <3>5. RefOnce'
      BY <1>1, <2>1, <2>2, <3>1, <3>3, <3>4 DEF RefOnce, RefFound
    <3>6. RefPermType' /\ RefFound' /\ RefNewest' /\ RefEffect'
      BY <1>1, <2>1, <2>2, <3>1 DEF RefFound, RefNewest, RefEffect
    <3> QED BY <1>2, <3>2, <3>5, <3>6
  <2>4. CASE p \in cancelled
    <3>1. /\ permPoll' = [permPoll EXCEPT ![p] = "over"]
          /\ UNCHANGED <<refreshMu, applied, rebuilt>>
      BY <1>5, <2>4 DEF Refresh!PollApplies, Refresh!StillWanted
    <3>2. RefPermType' /\ RefHolder' /\ RefOnce' /\ RefFound' /\ RefNewest'
      BY <1>1, <2>1, <2>2, <3>1 DEF RefHolder, RefOnce, RefFound, RefNewest
    <3>3. RefEffect'
      BY <1>1, <2>1, <2>4, <3>1 DEF RefEffect
    <3> QED BY <1>2, <3>2, <3>3
  <2> QED BY <2>3, <2>4
<1>6. CASE Refresh!PollEmits(p)
  <2>1. /\ permPoll[p] = "applied" /\ permPoll' = [permPoll EXCEPT ![p] = "over"]
        /\ lastPerm' = granted /\ refreshMu' = Refresh!Free /\ UNCHANGED <<rebuilt, applied>>
    BY <1>6 DEF Refresh!PollEmits, Refresh!See, Refresh!Unlock
  <2>2. lastPerm /\ granted
    BY <2>1 DEF RefFound
  <2>3. RefHolder'
    BY <1>1, <2>1 DEF RefHolder, Refresh!Free
  <2>4. RefPermType' /\ RefOnce' /\ RefFound' /\ RefNewest'
    BY <1>1, <2>1, <2>2 DEF RefOnce, RefFound, RefNewest
  <2>5. RefEffect'
    BY <1>1, <2>1, <2>2 DEF RefEffect
  <2> QED BY <1>2, <2>3, <2>4, <2>5
<1> QED BY <1>3, <1>4, <1>5, <1>6

\* A window hook looks before the lock and again under it, and cancels the poll
\* it has forestalled (RecheckHotkeyPermission).
LEMMA RefHooks ==
  ASSUME RefPermInv, NEW h \in Hooks,
         \/ Refresh!Focus(h) \/ Refresh!HookLocks(h) \/ Refresh!HookLooks(h)
         \/ Refresh!HookApplies(h) \/ Refresh!HookEmits(h)
  PROVE  RefPermInv'
<1> USE DEF RefPermInv, RefPermType
<1>1. UNCHANGED <<granted, permPoll, click, clicks, refresher, refreshQuit, peeked>>
  BY DEF Refresh!Focus, Refresh!HookLocks, Refresh!HookLooks, Refresh!HookApplies,
    Refresh!HookEmits, Refresh!radioVars, Refresh!See
<1>2. CASE Refresh!Focus(h)
  <2>1. /\ hook[h] = "idle" /\ clicks + focuses < MaxAsks /\ focuses' = focuses + 1
        /\ \E at \in {"idle", "passed"} : hook' = [hook EXCEPT ![h] = at]
        /\ UNCHANGED <<lastPerm, cancelled, permCancel, rebuilt, refreshMu, applied>>
    BY <1>2 DEF Refresh!Focus
  <2>2. RefPermType'
    BY <1>1, <2>1, RefreshBounds DEF Refresh!RefreshAssumption
  <2>3. RefHolder' /\ RefFound' /\ RefNumbers' /\ RefNewest' /\ RefOnce'
    BY <1>1, <2>1 DEF RefHolder, RefFound, RefNumbers, RefNewest, RefOnce
  <2>4. RefEffect'
    BY <1>1, <2>1 DEF RefEffect
  <2> QED BY <2>2, <2>3, <2>4
<1>3. CASE Refresh!HookLocks(h)
  <2>1. /\ hook[h] = "passed" /\ refreshMu = Refresh!Free
        /\ UNCHANGED <<lastPerm, cancelled, permCancel, focuses, rebuilt, applied>>
        /\ \/ /\ ~lastPerm /\ refreshMu' = <<"hook", h>>
              /\ hook' = [hook EXCEPT ![h] = "locked"]
           \/ UNCHANGED refreshMu /\ hook' = [hook EXCEPT ![h] = "idle"]
    BY <1>3 DEF Refresh!HookLocks, Refresh!NotYetFound
  <2>2. RefHolder'
    BY <1>1, <2>1 DEF RefHolder, Refresh!Free
  <2>3. RefPermType' /\ RefFound' /\ RefNumbers' /\ RefNewest' /\ RefOnce'
    BY <1>1, <2>1 DEF RefFound, RefNumbers, RefNewest, RefOnce
  <2>4. RefEffect'
    BY <1>1, <2>1 DEF RefEffect
  <2> QED BY <2>2, <2>3, <2>4
<1>4. CASE Refresh!HookLooks(h)
  <2>1. /\ hook[h] = "locked" /\ lastPerm' = granted
        /\ UNCHANGED <<cancelled, permCancel, focuses, rebuilt, applied>>
        /\ \/ granted /\ hook' = [hook EXCEPT ![h] = "found"] /\ UNCHANGED refreshMu
           \/ ~granted /\ hook' = [hook EXCEPT ![h] = "idle"] /\ refreshMu' = Refresh!Free
    BY <1>4 DEF Refresh!HookLooks, Refresh!See, Refresh!GrantedNow, Refresh!Unlock
  <2>2. RefHolder'
    BY <1>1, <2>1 DEF RefHolder, Refresh!Free
  <2>3. RefPermType' /\ RefFound' /\ RefNumbers' /\ RefNewest' /\ RefOnce'
    BY <1>1, <2>1 DEF RefFound, RefNumbers, RefNewest, RefOnce
  <2>4. RefEffect'
    BY <1>1, <2>1 DEF RefEffect, RefFound
  <2> QED BY <2>2, <2>3, <2>4
<1>5. CASE Refresh!HookApplies(h)
  <2>1. /\ hook[h] = "found" /\ hook' = [hook EXCEPT ![h] = "applied"]
        /\ permCancel' = Refresh!NoPoll
        /\ cancelled' = cancelled \cup ({permCancel} \ {Refresh!NoPoll})
        /\ applied'.granted = granted /\ rebuilt' = rebuilt + 1
        /\ UNCHANGED <<lastPerm, focuses, refreshMu>>
    BY <1>5 DEF Refresh!HookApplies, Refresh!cancelPermissionPoll
  <2>2. lastPerm /\ granted /\ rebuilt = 0
    BY <2>1 DEF RefFound, RefOnce
  <2>3. \A g \in Hooks : hook[g] \in {"locked", "found"} => g = h
    BY <2>1 DEF RefHolder
  <2>4. RefPermType' /\ RefHolder' /\ RefNewest' /\ RefEffect'
    BY <1>1, <2>1, <2>2 DEF RefHolder, RefNewest, RefEffect
  <2>5. RefOnce'
    BY <1>1, <2>1, <2>2, <2>3 DEF RefOnce, RefFound, Refresh!Polls, Refresh!NoPoll
  <2>6. RefFound'
    BY <1>1, <2>1, <2>2 DEF RefFound, Refresh!Polls, Refresh!NoPoll
  <2>7. RefNumbers'
    BY <1>1, <2>1 DEF RefNumbers, Refresh!NoPoll
  <2> QED BY <2>4, <2>5, <2>6, <2>7
<1>6. CASE Refresh!HookEmits(h)
  <2>1. /\ hook[h] = "applied" /\ hook' = [hook EXCEPT ![h] = "idle"]
        /\ lastPerm' = granted /\ refreshMu' = Refresh!Free
        /\ UNCHANGED <<cancelled, permCancel, focuses, rebuilt, applied>>
    BY <1>6 DEF Refresh!HookEmits, Refresh!See, Refresh!Unlock
  <2>2. lastPerm /\ granted
    BY <2>1 DEF RefFound
  <2>3. RefHolder'
    BY <1>1, <2>1 DEF RefHolder, Refresh!Free
  <2>4. RefPermType' /\ RefFound' /\ RefNumbers' /\ RefNewest' /\ RefOnce'
    BY <1>1, <2>1, <2>2 DEF RefFound, RefNumbers, RefNewest, RefOnce
  <2>5. RefEffect'
    BY <1>1, <2>1, <2>2 DEF RefEffect
  <2> QED BY <2>3, <2>4, <2>5
<1> QED BY <1>2, <1>3, <1>4, <1>5, <1>6

\* Every step of the updaters, the refresher, the polls, the hooks and the click
\* keeps the invariant.
LEMMA RefPreserved ==
  ASSUME RefInv, [Refresh!Next]_refreshVars
  PROVE  RefInv'
<1> USE DEF RefInv
<1>1. ASSUME NEW u \in Updaters,
             \/ Refresh!ChangeRadios(u) \/ Refresh!ReadSignature(u) \/ Refresh!SwapSignature(u)
             \/ Refresh!Enqueue(u) \/ Refresh!Wake(u)
      PROVE  RefInv'
  <2>1. UNCHANGED <<granted, lastPerm, permPoll, cancelled, permCancel, hook, click, clicks,
                    focuses, peeked, rebuilt, refreshMu, applied, refresher, refreshQuit>>
    BY <1>1 DEF Refresh!ChangeRadios, Refresh!ReadSignature, Refresh!SwapSignature,
      Refresh!Enqueue, Refresh!Wake, Refresh!permVars
  <2> QED BY <1>1, <2>1, RefUpdaters, RefPermRests
<1>2. ASSUME \/ Refresh!RefresherWakes \/ Refresh!RefresherReturns \/ Refresh!TakeJob
             \/ Refresh!StopRefresher \/ Refresh!CloseHotkeys
      PROVE  RefInv'
  <2>1. UNCHANGED <<granted, lastPerm, permPoll, cancelled, permCancel, hook, click, clicks,
                    focuses, peeked, rebuilt, refreshMu, applied>>
    BY <1>2 DEF Refresh!RefresherWakes, Refresh!RefresherReturns, Refresh!TakeJob,
      Refresh!StopRefresher, Refresh!CloseHotkeys, Refresh!permVars
  <2>2. /\ refresher' = "applied" => refresher = "applied"
        /\ refreshQuit' = "no" => refreshQuit = "no"
    BY <1>2 DEF Refresh!RefresherWakes, Refresh!RefresherReturns, Refresh!TakeJob,
      Refresh!StopRefresher, Refresh!CloseHotkeys
  <2> QED BY <1>2, <2>1, <2>2, RefRefresher, RefPermRests
<1>3. CASE Refresh!RefresherApplies \/ Refresh!RefresherEmits
  BY <1>3, RefRefresher, RefRefresherGrant
<1>4. ASSUME \/ Refresh!Grant \/ Refresh!GetHotkeyState \/ Refresh!StopPolls
             \/ Refresh!Request \/ Refresh!ArmPoll
             \/ Refresh!ClickCancels \/ Refresh!ClickApplies \/ Refresh!ClickEmits
      PROVE  RefInv'
  <2>1. UNCHANGED <<radios, updater, sig, radioSig, returned, refreshPending, refreshStopped,
                    wake, refresher>>
    BY <1>4 DEF Refresh!Grant, Refresh!GetHotkeyState, Refresh!StopPolls, Refresh!Request,
      Refresh!ArmPoll, Refresh!ClickCancels, Refresh!ClickApplies, Refresh!ClickEmits,
      Refresh!radioVars
  <2>2. refreshQuit' = refreshQuit \/ (refreshQuit = "no" /\ refreshQuit' = "polls")
    BY <1>4 DEF Refresh!Grant, Refresh!GetHotkeyState, Refresh!StopPolls, Refresh!Request,
      Refresh!ArmPoll, Refresh!ClickCancels, Refresh!ClickApplies, Refresh!ClickEmits,
      Refresh!radioVars
  <2>3. applied' = applied \/ applied'.radios = radios
    BY <1>4 DEF Refresh!Grant, Refresh!GetHotkeyState, Refresh!StopPolls, Refresh!Request,
      Refresh!ArmPoll, Refresh!ClickCancels, Refresh!ClickApplies, Refresh!ClickEmits,
      Refresh!Apply
  <2> QED BY <1>4, <2>1, <2>2, <2>3, RefRadiosRest, RefGrants, RefClicks
<1>5. ASSUME NEW p \in Refresh!Polls,
             \/ Refresh!Tick(p) \/ Refresh!Superseded(p) \/ Refresh!Deadline(p)
             \/ Refresh!PollApplies(p) \/ Refresh!PollEmits(p)
      PROVE  RefInv'
  <2>1. UNCHANGED <<radios, updater, sig, radioSig, returned, refreshPending, refreshStopped,
                    wake, refresher, refreshQuit>>
    BY <1>5 DEF Refresh!Tick, Refresh!Superseded, Refresh!Deadline, Refresh!PollApplies,
      Refresh!PollEmits, Refresh!radioVars
  <2>2. applied' = applied \/ applied'.radios = radios
    BY <1>5 DEF Refresh!Tick, Refresh!Superseded, Refresh!Deadline, Refresh!PollApplies,
      Refresh!PollEmits, Refresh!Apply
  <2> QED BY <1>5, <2>1, <2>2, RefRadiosRest, RefPolls
<1>6. ASSUME NEW h \in Hooks,
             \/ Refresh!Focus(h) \/ Refresh!HookLocks(h) \/ Refresh!HookLooks(h)
             \/ Refresh!HookApplies(h) \/ Refresh!HookEmits(h)
      PROVE  RefInv'
  <2>1. UNCHANGED <<radios, updater, sig, radioSig, returned, refreshPending, refreshStopped,
                    wake, refresher, refreshQuit>>
    BY <1>6 DEF Refresh!Focus, Refresh!HookLocks, Refresh!HookLooks, Refresh!HookApplies,
      Refresh!HookEmits, Refresh!radioVars
  <2>2. applied' = applied \/ applied'.radios = radios
    BY <1>6 DEF Refresh!Focus, Refresh!HookLocks, Refresh!HookLooks, Refresh!HookApplies,
      Refresh!HookEmits
  <2> QED BY <1>6, <2>1, <2>2, RefRadiosRest, RefHooks
<1>7. CASE UNCHANGED refreshVars
  BY <1>7, RefRadiosRest, RefPermRests DEF refreshVars
<1> QED BY <1>1, <1>2, <1>3, <1>4, <1>5, <1>6, <1>7 DEF Refresh!Next

\* The hotkeys in force are those of the radios and of the grant (applyHotkeys).
LEMMA RefInvImplies == RefInv => Refresh!HotkeysAreCurrent
<1> SUFFICES ASSUME RefInv PROVE Refresh!HotkeysAreCurrent
  OBVIOUS
<1> USE DEF RefInv, RefRadioInv, RefPermInv
<1>1. Refresh!HotkeysFollowRadios
  <2>1. SUFFICES ASSUME refreshQuit = "no", refresher = "wait", ~wake, ~returned,
                        \A u \in Updaters : updater[u] = "idle"
                 PROVE  refreshPending = 0 /\ applied.radios = radios
    BY DEF Refresh!HotkeysFollowRadios
  <2>2. ~refreshStopped
    BY <2>1 DEF RefStops
  <2>3. refreshPending = 0
    BY <2>1, <2>2 DEF RefWoken, RefRadioType
  <2>4. applied.radios = radios
    BY <2>1, <2>2, <2>3 DEF RefOwed, RefComes
  <2> QED BY <2>3, <2>4
<1>2. Refresh!GrantTakesEffect
  BY DEF Refresh!GrantTakesEffect, RefEffect
<1>3. Refresh!TapsAreBuiltOnce /\ Refresh!NoRefreshAfterClose
  BY DEF Refresh!TapsAreBuiltOnce, RefOnce, RefStops
<1> QED BY <1>1, <1>2, <1>3 DEF Refresh!HotkeysAreCurrent

(***************************************************************************)
(* The load generator                                                      *)
(***************************************************************************)

LoadPlaces ==
  {"read", "first", "ramp", "stop", "abort", "write", "holds", "hold", "adds", "settles",
   "shutdown", "gone"}
LoadCmds == [at : LoadPlaces, first : Nat, want : Nat, had : Nat, launched : Nat]
LoadFlying == {"control", "voice", "undo"}
LoadJoins == {"none", "slot", "failed", "dropped", "bot"} \cup LoadFlying
LoadLifes == {"none", "open", "closing", "ended", "closed"}
LoadFinds == {"none", "real", "own", "looked", "won", "over", "halted"}

LoadType ==
  /\ cmd \in LoadCmds /\ tally \in [joined : Nat, failed : Nat] /\ nextIdx \in Nat
  /\ join \in [Load!Bots -> LoadJoins] /\ life \in [Load!Bots -> LoadLifes]
  /\ bots \subseteq Load!Bots
  /\ ticker \in {"off", "on", "writes"}

\* The first index of which a command counts the joins.
LoadBase == IF cmd.had = 0 THEN 0 ELSE cmd.first

\* Indices are given in order and once; between commands no join is on its way
\* and none waits in its slot; a ramp launches what comes after its first.
LoadNames ==
  /\ nextIdx <= MaxBots
  /\ cmd.at \notin {"first", "ramp"} => \A i \in Load!Bots :
       /\ i >= nextIdx /\ cmd.at # "shutdown" /\ cmd.at # "gone" => join[i] = "none"
       /\ join[i] \notin LoadFlying \cup {"slot"}
  /\ cmd.at = "first" =>
       /\ nextIdx = 0 /\ cmd.first = 0 /\ cmd.had = 0 /\ cmd.launched = 0
       /\ 1 <= cmd.want /\ cmd.want <= MaxBots
       /\ join[0] # "none" /\ \A i \in Load!Bots : i > 0 => join[i] = "none"
  /\ cmd.at = "ramp" =>
       /\ cmd.launched <= cmd.want /\ cmd.first + cmd.want <= MaxBots
       /\ cmd.had = 0 => cmd.first = 1
       /\ \A i \in Load!Bots :
            /\ i >= cmd.first + cmd.launched => join[i] = "none"
            /\ i >= LoadBase /\ i < cmd.first + cmd.launched => join[i] # "none"
            /\ i < cmd.first => join[i] \notin LoadFlying \cup {"slot"}

\* The bots are those that joined, and the first of all is among them.
LoadBots ==
  cmd.at # "gone" =>
    /\ bots = {i \in Load!Bots : join[i] = "bot"}
    /\ bots = {} => nextIdx = 0 /\ cmd.at # "ramp"

\* Progress is written while a command joins.
LoadTicker == ticker # "off" => cmd.at \in {"ramp", "stop", "abort"}

\* What has not joined, or has failed to, has no connection left.
LoadLives ==
  /\ \A i \in Load!Bots : join[i] \in {"none", "control"} => life[i] = "none"
  /\ \A i \in Load!Bots : join[i] \in {"failed", "dropped"} => life[i] \in {"none", "closed"}
  /\ Load!AllClosed

LoadShape == LoadType /\ LoadNames /\ LoadBots /\ LoadTicker /\ LoadLives

LoadSettled == {i \in Load!Bots : i >= LoadBase /\ join[i] \in {"slot", "bot", "failed"}}

\* As long as the run is not cancelled every join has its place in the tally.
LoadTally ==
  ctx = "live" =>
    /\ \A i \in Load!Bots : join[i] # "dropped"
    /\ cmd.at \in {"first", "ramp"} =>
         /\ cmd.had + tally.joined = Cardinality(bots \cup Load!Slots)
         /\ tally.joined + tally.failed = Cardinality(LoadSettled)

\* A death is counted by the one who won it, and is our own doing once Close has
\* begun.
LoadDeaths ==
  /\ finds \in [Load!Bots -> [Load!Sources -> LoadFinds]]
  /\ counted \in [Load!Bots -> {0, 1}]
  /\ \A i \in Load!Bots, s \in Load!Sources :
       /\ finds[i][s] = "own" => Load!Closing(i)
       /\ finds[i][s] = "won" => i \in dead /\ counted[i] = 0
       /\ finds[i][s] = "won" => \A t \in Load!Sources : finds[i][t] = "won" => t = s
  /\ \A i \in Load!Bots : i \notin dead => counted[i] = 0
  /\ deadTotal \in Nat /\ deadSinceStep \in Nat /\ reported \in Nat
  /\ Load!DeathsAddUp

\* The deaths of a hold are those since it was reset, and among those since the
\* last report.
LoadHolds ==
  /\ deadInHold \in Nat /\ inHold \in Nat
  /\ loadPhase = "hold" => cmd.at \in {"hold", "adds", "settles"}
  /\ cmd.at = "holds" => deadInHold = 0
  /\ cmd.at \in {"hold", "adds"} => deadInHold = inHold /\ deadInHold <= deadSinceStep

LoadInv == LoadShape /\ LoadTally /\ LoadDeaths /\ LoadHolds /\ Load!NothingWrong

\* The bots are finitely many, and counted alike in both modules.
LEMMA LoadCount ==
  /\ \A S : Load!Cardinality(S) = Cardinality(S)
  /\ \A S : S \subseteq Load!Bots => /\ IsFiniteSet(S) /\ Cardinality(S) \in Nat
                                     /\ Cardinality(S) = 0 <=> S = {}
<1>1. \A S : Load!Cardinality(S) = Cardinality(S)
  BY Zenon DEF Load!Cardinality, Cardinality
<1>2. IsFiniteSet(Load!Bots)
  BY FS_Interval, LoadBounds DEF Load!Bots, Load!LoadAssumption
<1>3. ASSUME NEW S, S \subseteq Load!Bots
      PROVE  IsFiniteSet(S) /\ Cardinality(S) \in Nat /\ (Cardinality(S) = 0 <=> S = {})
  BY <1>2, <1>3, FS_Subset, FS_CardinalityType, FS_EmptySet
<1> QED BY <1>1, <1>3

\* Indices are numbers below MaxBots.
LEMMA LoadIndices ==
  /\ MaxBots \in Nat
  /\ \A i : i \in Load!Bots <=> i \in Nat /\ i < MaxBots
  BY LoadBounds DEF Load!Bots, Load!LoadAssumption

\* A generator that has just been started has no bot.
LEMMA LoadInitial == Load!Init => LoadInv
<1> SUFFICES ASSUME Load!Init PROVE LoadInv
  OBVIOUS
<1> USE DEF Load!Init
<1>1. cmd \in LoadCmds /\ cmd.at = "read"
  BY DEF LoadCmds, LoadPlaces, Load!Idle
<1>2. LoadType
  BY <1>1 DEF LoadType, LoadJoins, LoadLifes, Load!NoTally
<1>3. LoadNames /\ LoadBots /\ LoadTicker /\ LoadLives
  BY <1>1, LoadIndices DEF LoadNames, LoadBots, LoadTicker, LoadLives, Load!AllClosed, Load!At,
    LoadFlying
<1>4. LoadTally
  BY <1>1 DEF LoadTally
<1>5. {i \in Load!Bots : counted[i] > 0} = {}
  OBVIOUS
<1>6. LoadDeaths
  BY <1>5, LoadCount DEF LoadDeaths, Load!DeathsAddUp, LoadFinds
<1>7. LoadHolds /\ Load!NothingWrong
  BY <1>1 DEF LoadHolds, Load!NothingWrong
<1> QED BY <1>2, <1>3, <1>4, <1>6, <1>7 DEF LoadInv, LoadShape

\* A command takes the next indices and remembers how many bots there were
\* (setN, burst).
LEMMA LoadAsks ==
  ASSUME LoadShape,
         \E n \in 1 .. MaxBots : Load!SetN(n) \/ Load!Burst(n)
  PROVE  /\ cmd.at = "read" /\ tally' = Load!NoTally /\ UNCHANGED <<bots, nextIdx, life>>
         /\ cmd' \in LoadCmds /\ cmd'.first = nextIdx /\ cmd'.launched = 0
         /\ cmd'.had = Cardinality(bots) /\ (cmd'.had = 0 <=> bots = {})
         /\ 1 <= cmd'.want /\ nextIdx + cmd'.want <= MaxBots
         /\ \/ /\ bots = {} /\ cmd'.at = "first"
               /\ join' = [join EXCEPT ![0] = "control"] /\ UNCHANGED ticker
            \/ bots # {} /\ cmd'.at = "ramp" /\ UNCHANGED join /\ ticker' = "on"
<1> USE DEF LoadShape
<1>1. PICK n \in 1 .. MaxBots : Load!SetN(n) \/ Load!Burst(n)
  OBVIOUS
<1>2. /\ Load!Cardinality(bots) \in Nat /\ (Load!Cardinality(bots) = 0 <=> bots = {})
      /\ Load!Cardinality(bots) = Cardinality(bots)
  BY LoadCount DEF LoadType
<1>3. /\ cmd.at = "read" /\ tally' = Load!NoTally
      /\ UNCHANGED <<bots, nextIdx, life>>
  BY <1>1 DEF Load!SetN, Load!Burst, Load!conns, Load!At
<1>4. \E at \in {"first", "ramp"}, want \in Nat :
        /\ cmd' = Load!Asked(at, want) /\ 1 <= want /\ nextIdx + want <= MaxBots
        /\ \/ /\ bots = {} /\ at = "first"
              /\ join' = [join EXCEPT ![0] = "control"] /\ UNCHANGED ticker
           \/ bots # {} /\ at = "ramp" /\ UNCHANGED join /\ ticker' = "on"
  <2>1. CASE Load!SetN(n)
    <3>1. n - Load!Cardinality(bots) \in Nat /\ 1 <= n - Load!Cardinality(bots)
          /\ nextIdx + (n - Load!Cardinality(bots)) <= MaxBots
      BY <1>2, <2>1, LoadIndices DEF Load!SetN, LoadType
    <3>2. CASE bots = {}
      <4>1. cmd' = Load!Asked("first", n - Load!Cardinality(bots))
            /\ join' = [join EXCEPT ![0] = "control"] /\ UNCHANGED ticker
        BY <2>1, <3>2 DEF Load!SetN
      <4> QED BY <3>1, <3>2, <4>1
    <3>3. CASE bots # {}
      <4>1. cmd' = Load!Asked("ramp", n - Load!Cardinality(bots))
            /\ UNCHANGED join /\ ticker' = "on"
        BY <2>1, <3>3 DEF Load!SetN
      <4> QED BY <3>1, <3>3, <4>1
    <3> QED BY <3>2, <3>3
  <2>2. CASE Load!Burst(n)
    <3>1. n \in Nat /\ cmd' = Load!Asked("ramp", n) /\ 1 <= n /\ nextIdx + n <= MaxBots
          /\ bots # {} /\ UNCHANGED join /\ ticker' = "on"
      BY <2>2 DEF Load!Burst
    <3> QED BY <3>1
  <2> QED BY <1>1, <2>1, <2>2
<1>5. PICK at \in {"first", "ramp"}, want \in Nat :
        /\ cmd' = Load!Asked(at, want) /\ 1 <= want /\ nextIdx + want <= MaxBots
        /\ \/ /\ bots = {} /\ at = "first"
              /\ join' = [join EXCEPT ![0] = "control"] /\ UNCHANGED ticker
           \/ bots # {} /\ at = "ramp" /\ UNCHANGED join /\ ticker' = "on"
  BY <1>4
<1>6. /\ cmd' \in LoadCmds /\ cmd'.at = at /\ cmd'.first = nextIdx /\ cmd'.want = want
      /\ cmd'.launched = 0 /\ cmd'.had = Load!Cardinality(bots)
  <2>1. cmd' = [at |-> at, first |-> nextIdx, want |-> want, had |-> Load!Cardinality(bots),
                launched |-> 0]
    BY <1>5 DEF Load!Asked
  <2> QED BY <1>2, <2>1 DEF LoadCmds, LoadPlaces, LoadType
<1> QED BY <1>2, <1>3, <1>5, <1>6

\* What setN and burst leave is in order: before the first bot only index 0 is on
\* its way, and a ramp has launched nothing yet.
LEMMA LoadShapeAsked ==
  ASSUME LoadShape,
         \E n \in 1 .. MaxBots : Load!SetN(n) \/ Load!Burst(n)
  PROVE  LoadShape'
<1> USE DEF LoadShape
<1>1. /\ cmd.at = "read" /\ tally' = Load!NoTally /\ UNCHANGED <<bots, nextIdx, life>>
      /\ cmd' \in LoadCmds /\ cmd'.first = nextIdx /\ cmd'.launched = 0
      /\ (cmd'.had = 0 <=> bots = {})
      /\ 1 <= cmd'.want /\ nextIdx + cmd'.want <= MaxBots
  BY LoadAsks
<1>2. cmd'.want \in Nat /\ nextIdx \in Nat
  BY <1>1 DEF LoadCmds, LoadType
<1>3. CASE /\ bots = {} /\ cmd'.at = "first"
           /\ join' = [join EXCEPT ![0] = "control"] /\ UNCHANGED ticker
  <2>1. nextIdx = 0 /\ \A i \in Load!Bots : join[i] = "none"
    BY <1>1, <1>3, LoadIndices DEF LoadBots, LoadNames
  <2>2. 0 \in Load!Bots
    BY <1>1, <1>2, <2>1, LoadIndices
  <2>3. join'[0] = "control" /\ \A i \in Load!Bots : i # 0 => join'[i] = "none"
    BY <1>3, <2>1, <2>2 DEF LoadType
  <2>4. LoadType'
    <3>1. join' \in [Load!Bots -> LoadJoins]
      BY <1>3 DEF LoadType, LoadJoins, LoadFlying
    <3> QED BY <1>1, <1>3, <3>1 DEF LoadType, Load!NoTally
  <2>5. LoadNames'
    BY <1>1, <1>2, <1>3, <2>1, <2>3, LoadIndices DEF LoadNames
  <2>6. LoadBots' /\ LoadTicker'
    BY <1>1, <1>3, <2>1, <2>3 DEF LoadBots, LoadTicker
  <2>7. LoadLives'
    BY <1>1, <1>3, <2>1, <2>3 DEF LoadLives, Load!AllClosed, Load!At
  <2> QED BY <2>4, <2>5, <2>6, <2>7
<1>4. CASE bots # {} /\ cmd'.at = "ramp" /\ UNCHANGED join /\ ticker' = "on"
  <2>1. LoadType'
    BY <1>1, <1>4 DEF LoadType, Load!NoTally
  <2>2. LoadNames'
    BY <1>1, <1>2, <1>4, LoadIndices DEF LoadNames, LoadBase, LoadType
  <2>3. LoadBots' /\ LoadTicker'
    BY <1>1, <1>4 DEF LoadBots, LoadTicker
  <2>4. LoadLives'
    BY <1>1, <1>4 DEF LoadLives, Load!AllClosed, Load!At
  <2> QED BY <2>1, <2>2, <2>3, <2>4
<1> QED BY <1>3, <1>4, LoadAsks

\* Launch takes the next index, which no join has had.
LEMMA LoadLaunches ==
  ASSUME LoadShape, Load!Launch
  PROVE  /\ LoadShape'
         /\ cmd.first + cmd.launched \in Load!Bots /\ join[cmd.first + cmd.launched] = "none"
<1> USE DEF LoadShape
<1> DEFINE i == cmd.first + cmd.launched
<1>1. /\ cmd.at = "ramp" /\ cmd.launched < cmd.want
      /\ cmd' = [cmd EXCEPT !.launched = @ + 1] /\ join' = [join EXCEPT ![i] = "control"]
      /\ UNCHANGED <<bots, nextIdx, tally, ticker, life>>
  BY DEF Load!Launch, Load!At, Load!conns
<1>2. /\ cmd.first \in Nat /\ cmd.want \in Nat /\ cmd.launched \in Nat /\ cmd.had \in Nat
      /\ cmd' \in LoadCmds /\ cmd'.launched = cmd.launched + 1 /\ cmd'.at = "ramp"
      /\ cmd'.first = cmd.first /\ cmd'.want = cmd.want /\ cmd'.had = cmd.had
  BY <1>1 DEF LoadType, LoadCmds
<1>3. i \in Load!Bots /\ join[i] = "none"
  BY <1>1, <1>2, LoadIndices DEF LoadNames
<1>4. join'[i] = "control" /\ \A j \in Load!Bots : j # i => join'[j] = join[j]
  BY <1>1, <1>3 DEF LoadType
<1>5. LoadType'
  BY <1>1, <1>2, <1>3 DEF LoadType, LoadJoins, LoadFlying
<1>6. LoadNames'
  BY <1>1, <1>2, <1>3, <1>4, LoadIndices DEF LoadNames, LoadBase
<1>7. LoadBots' /\ LoadTicker' /\ LoadLives'
  BY <1>1, <1>2, <1>3, <1>4 DEF LoadBots, LoadTicker, LoadLives, Load!AllClosed, Load!At
<1> QED BY <1>3, <1>5, <1>6, <1>7

\* A join on its way is of the command that runs.
LEMMA LoadFlies ==
  ASSUME LoadShape, NEW i \in Load!Bots, join[i] \in LoadFlying
  PROVE  /\ cmd.at \in {"first", "ramp"} /\ i >= LoadBase /\ i \notin bots
         /\ cmd.at = "first" => i = 0
         /\ cmd.at = "ramp" => i < cmd.first + cmd.launched
<1> USE DEF LoadShape
<1>1. cmd.at \in {"first", "ramp"}
  BY DEF LoadNames
<1>2. /\ cmd.at = "first" => i = 0
      /\ cmd.at = "ramp" => i >= cmd.first /\ i < cmd.first + cmd.launched
  BY LoadIndices DEF LoadNames, LoadFlying, LoadType, LoadCmds
<1>3. i >= LoadBase
  BY <1>1, <1>2, LoadIndices DEF LoadNames, LoadBase
<1>4. i \notin bots
  BY <1>1 DEF LoadBots, LoadFlying
<1> QED BY <1>1, <1>2, <1>3, <1>4

\* A join goes on: what it leaves when it has failed is closed (joinOne).
LEMMA LoadShapeJoin ==
  ASSUME LoadShape, NEW i \in Load!Bots, join[i] \in LoadFlying,
         NEW x \in LoadJoins \ {"none", "control", "bot"}, join' = [join EXCEPT ![i] = x],
         NEW y \in LoadLifes, life' = [life EXCEPT ![i] = y],
         x \in {"failed", "dropped"} => y \in {"none", "closed"},
         UNCHANGED <<cmd, bots, nextIdx, ticker>>,
         tally' \in [joined : Nat, failed : Nat]
  PROVE  LoadShape'
<1> USE DEF LoadShape
<1>1. /\ join'[i] = x /\ \A j \in Load!Bots : j # i => join'[j] = join[j]
      /\ life'[i] = y /\ \A j \in Load!Bots : j # i => life'[j] = life[j]
  BY DEF LoadType
<1>2. LoadType'
  BY DEF LoadType
<1>3. cmd.at \in {"first", "ramp"} /\ i >= LoadBase /\ i \notin bots
      /\ (cmd.at = "first" => i = 0) /\ (cmd.at = "ramp" => i < cmd.first + cmd.launched)
  BY LoadFlies
<1>4. cmd.at = "ramp" => i >= cmd.first
  BY LoadIndices DEF LoadNames, LoadType, LoadCmds
<1>5. LoadNames'
  BY <1>1, <1>3, <1>4, LoadIndices DEF LoadNames, LoadBase, LoadType, LoadCmds
<1>6. LoadBots'
  BY <1>1, <1>3 DEF LoadBots
<1>7. LoadTicker'
  BY DEF LoadTicker
<1>8. LoadLives'
  BY <1>1, <1>3 DEF LoadLives, Load!AllClosed, Load!At
<1> QED BY <1>2, <1>5, <1>6, <1>7, <1>8

\* The steps of joinOne.
LEMMA LoadShapeJoins ==
  ASSUME LoadShape, NEW i \in Load!Bots,
         \/ Load!Connects(i) \/ Load!Refused(i) \/ Load!Joins(i) \/ Load!VoiceFails(i)
         \/ Load!Undone(i)
  PROVE  LoadShape'
<1>1. tally.joined \in Nat /\ tally.failed \in Nat /\ tally \in [joined : Nat, failed : Nat]
  BY DEF LoadShape, LoadType
<1>2. /\ [tally EXCEPT !.joined = @ + 1] \in [joined : Nat, failed : Nat]
      /\ [tally EXCEPT !.failed = @ + 1] \in [joined : Nat, failed : Nat]
  BY <1>1
<1>3. life = [life EXCEPT ![i] = life[i]] /\ life[i] \in LoadLifes
  BY DEF LoadShape, LoadType
<1>4. join[i] = "control" => life[i] = "none"
  BY DEF LoadShape, LoadLives
<1>0. \A x \in {"voice", "undo", "slot", "failed", "dropped"} :
        x \in LoadJoins \ {"none", "control", "bot"}
  BY DEF LoadJoins, LoadFlying
<1>5. UNCHANGED <<cmd, bots, nextIdx, ticker>>
  BY DEF Load!Connects, Load!Refused, Load!Joins, Load!VoiceFails, Load!Undone, Load!control
<1>6. CASE Load!Connects(i)
  <2>1. /\ join[i] = "control" /\ join' = [join EXCEPT ![i] = "voice"]
        /\ life' = [life EXCEPT ![i] = "open"] /\ UNCHANGED tally
    BY <1>6 DEF Load!Connects
  <2>2. join[i] \in LoadFlying /\ "open" \in LoadLifes
    BY <2>1 DEF LoadFlying, LoadLifes
  <2> QED BY <1>1, <1>5, <1>0, <2>1, <2>2, LoadShapeJoin
<1>7. CASE Load!Refused(i) \/ Load!Undone(i)
  <2>1. /\ join[i] \in LoadFlying /\ life' = life /\ life[i] \in {"none", "closed"}
        /\ \/ join' = [join EXCEPT ![i] = "dropped"] /\ UNCHANGED tally
           \/ join' = [join EXCEPT ![i] = "failed"] /\ tally' = [tally EXCEPT !.failed = @ + 1]
    BY <1>4, <1>7 DEF Load!Refused, Load!Undone, Load!Fails, Load!conns, LoadFlying
  <2> QED BY <1>1, <1>2, <1>3, <1>5, <1>0, <2>1, LoadShapeJoin
<1>8. CASE Load!Joins(i)
  <2>1. /\ join[i] = "voice" /\ join' = [join EXCEPT ![i] = "slot"] /\ life' = life
        /\ tally' = [tally EXCEPT !.joined = @ + 1]
    BY <1>8 DEF Load!Joins, Load!conns
  <2>2. join[i] \in LoadFlying
    BY <2>1 DEF LoadFlying
  <2>3. tally' \in [joined : Nat, failed : Nat] /\ life' = [life EXCEPT ![i] = life[i]]
    BY <1>2, <1>3, <2>1
  <2>4. "slot" \in LoadJoins \ {"none", "control", "bot"} /\ "slot" \notin {"failed", "dropped"}
    BY <1>0
  <2>5. life[i] \in LoadLifes
    BY <1>3
  <2> QED BY <1>5, <2>1, <2>2, <2>3, <2>4, <2>5, LoadShapeJoin
<1>9. CASE Load!VoiceFails(i)
  <2>1. /\ join[i] = "voice" /\ join' = [join EXCEPT ![i] = "undo"] /\ life' = life
        /\ UNCHANGED tally
    BY <1>9 DEF Load!VoiceFails, Load!ClosesFirst, Load!conns
  <2>2. join[i] \in LoadFlying
    BY <2>1 DEF LoadFlying
  <2> QED BY <1>1, <1>3, <1>5, <1>0, <2>1, <2>2, LoadShapeJoin
<1> QED BY <1>6, <1>7, <1>8, <1>9

\* setN goes on with the others once the first bot has joined, or the run ends.
LEMMA LoadShapeFirst ==
  ASSUME LoadShape, Load!FirstJoined
  PROVE  LoadShape'
<1> USE DEF LoadShape
<1>1. cmd.at = "first" /\ join[0] \in {"slot", "failed", "dropped"} /\ UNCHANGED <<tally, life>>
  BY DEF Load!FirstJoined, Load!At, Load!Ended, Load!conns
<1>2. /\ nextIdx = 0 /\ cmd.first = 0 /\ cmd.had = 0 /\ cmd.launched = 0 /\ bots = {}
      /\ 1 <= cmd.want /\ cmd.want <= MaxBots
      /\ \A i \in Load!Bots : i # 0 => join[i] = "none"
  BY <1>1, LoadIndices DEF LoadNames, LoadBots, LoadType
<1>3. cmd.want \in Nat /\ 0 \in Load!Bots
  BY <1>2, LoadIndices DEF LoadType, LoadCmds
<1>4. CASE join[0] = "slot"
  <2>1. /\ cmd' = [at |-> "ramp", first |-> 1, want |-> cmd.want - 1, had |-> cmd.had,
                   launched |-> cmd.launched]
        /\ join' = [join EXCEPT ![0] = "bot"] /\ bots' = {0} /\ nextIdx' = 1 /\ ticker' = "on"
    BY <1>4 DEF Load!FirstJoined
  <2>2. /\ cmd'.at = "ramp" /\ cmd'.first = 1 /\ cmd'.want = cmd.want - 1 /\ cmd'.had = 0
        /\ cmd'.launched = 0
    BY <1>2, <2>1
  <2>3. cmd' \in LoadCmds
    BY <1>2, <1>3, <2>1 DEF LoadCmds, LoadPlaces
  <2>4. join'[0] = "bot" /\ \A i \in Load!Bots : i # 0 => join'[i] = "none"
    BY <1>2, <1>3, <2>1 DEF LoadType
  <2>5. LoadType'
    BY <1>1, <1>3, <2>1, <2>3 DEF LoadType, LoadJoins
  <2>6. LoadNames'
    BY <1>2, <1>3, <2>1, <2>2, <2>4, LoadIndices DEF LoadNames, LoadBase, LoadFlying
  <2>7. LoadBots' /\ LoadTicker'
    BY <1>3, <2>1, <2>2, <2>4 DEF LoadBots, LoadTicker
  <2>8. LoadLives'
    BY <1>1, <1>2, <2>2, <2>4 DEF LoadLives, Load!AllClosed, Load!At
  <2> QED BY <2>5, <2>6, <2>7, <2>8
<1>5. CASE join[0] # "slot"
  <2>1. cmd' = [cmd EXCEPT !.at = "shutdown"] /\ UNCHANGED <<join, bots, nextIdx, ticker>>
    BY <1>5 DEF Load!FirstJoined, Load!Goes
  <2>2. cmd'.at = "shutdown" /\ cmd' \in LoadCmds
    BY <2>1 DEF LoadType, LoadCmds, LoadPlaces
  <2>3. LoadType'
    BY <1>1, <2>1, <2>2 DEF LoadType
  <2>4. LoadNames'
    BY <1>1, <1>2, <1>5, <2>1, <2>2 DEF LoadNames, LoadFlying
  <2>5. LoadBots' /\ LoadTicker' /\ LoadLives'
    BY <1>1, <2>1, <2>2 DEF LoadBots, LoadTicker, LoadLives, Load!AllClosed, Load!At
  <2> QED BY <2>3, <2>4, <2>5
<1> QED BY <1>4, <1>5

\* After wg.Wait what joined is a bot, and the next index is behind all that
\* were asked for (rampJoin).
LEMMA LoadShapeAllJoined ==
  ASSUME LoadShape, Load!AllJoined
  PROVE  LoadShape'
<1> USE DEF LoadShape
<1>1. /\ cmd.at = "ramp" /\ Load!InFlight = {}
      /\ bots' = bots \cup Load!Slots /\ nextIdx' = cmd.first + cmd.want
      /\ join' = [i \in Load!Bots |-> IF join[i] = "slot" THEN "bot" ELSE join[i]]
      /\ UNCHANGED <<tally, ticker, life>>
  BY DEF Load!AllJoined, Load!Kept, Load!AfterTheSlots, Load!At, Load!conns
<1>2. PICK at \in {"stop", "abort"} : cmd' = [cmd EXCEPT !.at = at]
  BY DEF Load!AllJoined, Load!Goes
<1>3. cmd' \in LoadCmds /\ cmd'.at = at
  BY <1>2 DEF LoadType, LoadCmds, LoadPlaces
<1>4. /\ cmd.first \in Nat /\ cmd.want \in Nat /\ cmd.launched \in Nat
      /\ cmd.launched <= cmd.want /\ cmd.first + cmd.want <= MaxBots
  BY <1>1 DEF LoadType, LoadCmds, LoadNames
<1>5. \A i \in Load!Bots : join[i] \notin LoadFlying
  BY <1>1 DEF Load!InFlight, LoadFlying
<1>6. LoadType'
  BY <1>1, <1>3, <1>4 DEF LoadType, LoadJoins, Load!Slots
<1>7. \A i \in Load!Bots : i >= nextIdx' => join[i] = "none"
  BY <1>1, <1>4, LoadIndices DEF LoadNames
<1>8. LoadNames'
  BY <1>1, <1>3, <1>4, <1>5, <1>7 DEF LoadNames, LoadFlying
<1>9. LoadBots' /\ LoadTicker'
  BY <1>1, <1>3 DEF LoadBots, LoadTicker, Load!Slots
<1>10. LoadLives'
  BY <1>1, <1>3 DEF LoadLives, Load!AllClosed, Load!At
<1> QED BY <1>6, <1>8, <1>9, <1>10

\* A step of the command that starts or ends no join.
LEMMA LoadShapeGoes ==
  ASSUME LoadShape, cmd' \in LoadCmds,
         cmd.at \notin {"first", "ramp", "shutdown", "gone"},
         cmd'.at \notin {"first", "ramp", "gone"},
         ticker' \in {"off", "on", "writes"},
         ticker' # "off" => cmd'.at \in {"stop", "abort"},
         tally' \in [joined : Nat, failed : Nat],
         UNCHANGED <<join, bots, nextIdx, life>>
  PROVE  LoadShape'
<1> USE DEF LoadShape
<1>1. LoadType'
  BY DEF LoadType
<1>2. LoadNames'
  BY DEF LoadNames
<1>3. LoadBots' /\ LoadTicker' /\ LoadLives'
  BY DEF LoadBots, LoadTicker, LoadLives, Load!AllClosed, Load!At
<1> QED BY <1>1, <1>2, <1>3

\* The command reads, holds, reports, stops its ticker or ends the run.
LEMMA LoadShapeCommand ==
  ASSUME LoadShape,
         \/ Load!Quit \/ Load!StopProgress \/ Load!WritesReport \/ Load!HoldResets
         \/ Load!HoldBegins \/ Load!HoldAdds \/ Load!HoldReports \/ Load!HoldEnds
  PROVE  LoadShape'
<1>1. \A x \in LoadPlaces : /\ [cmd EXCEPT !.at = x] \in LoadCmds
                            /\ [cmd EXCEPT !.at = x].at = x
                            /\ [Load!Idle EXCEPT !.at = x] \in LoadCmds
                            /\ [Load!Idle EXCEPT !.at = x].at = x
                            /\ Load!Idle \in LoadCmds /\ Load!Idle.at = "read"
  BY DEF LoadShape, LoadType, LoadCmds, Load!Idle, LoadPlaces
<1>2. UNCHANGED <<join, bots, nextIdx, life>>
  BY DEF Load!Quit, Load!StopProgress, Load!WritesReport, Load!HoldResets, Load!HoldBegins,
    Load!HoldAdds, Load!HoldReports, Load!HoldEnds, Load!joins, Load!conns
<1>3. /\ tally \in [joined : Nat, failed : Nat] /\ Load!NoTally \in [joined : Nat, failed : Nat]
      /\ ticker \in {"off", "on", "writes"} /\ (ticker # "off" => cmd.at \in {"ramp", "stop", "abort"})
  BY DEF LoadShape, LoadType, LoadTicker, Load!NoTally
<1>4. CASE Load!StopProgress
  <2>1. /\ cmd.at \in {"stop", "abort"} /\ ticker' = "off" /\ tally' = Load!NoTally
        /\ \E x \in {"write", "shutdown"} : cmd' = [Load!Idle EXCEPT !.at = x]
    BY <1>4 DEF Load!StopProgress, Load!At, Load!Awaited
  <2> QED BY <1>1, <1>2, <1>3, <2>1, LoadShapeGoes DEF LoadPlaces
<1>5. CASE Load!Quit
  <2>1. /\ cmd.at \in {"read", "hold"} /\ cmd' = [cmd EXCEPT !.at = "shutdown"]
        /\ UNCHANGED <<ticker, tally>>
    BY <1>5 DEF Load!Quit, Load!At, Load!Goes, Load!joins
  <2> QED BY <1>1, <1>2, <1>3, <2>1, LoadShapeGoes DEF LoadPlaces
<1>6. CASE Load!WritesReport \/ Load!HoldEnds
  <2>1. cmd.at \in {"write", "settles"} /\ cmd' = Load!Idle /\ UNCHANGED <<ticker, tally>>
    BY <1>6 DEF Load!WritesReport, Load!HoldEnds, Load!At, Load!joins
  <2> QED BY <1>1, <1>2, <1>3, <2>1, LoadShapeGoes DEF LoadPlaces
<1>7. CASE Load!HoldResets \/ Load!HoldBegins \/ Load!HoldAdds \/ Load!HoldReports
  <2>1. /\ cmd.at \in {"read", "holds", "hold", "adds"} /\ UNCHANGED <<ticker, tally>>
        /\ \E x \in {"holds", "hold", "adds", "settles"} : cmd' = [cmd EXCEPT !.at = x]
    BY <1>7 DEF Load!HoldResets, Load!HoldBegins, Load!HoldAdds, Load!HoldReports, Load!At,
      Load!Goes, Load!joins
  <2>2. cmd' \in LoadCmds /\ cmd'.at \in {"holds", "hold", "adds", "settles"} /\ ticker = "off"
    <3>1. PICK x \in {"holds", "hold", "adds", "settles"} : cmd' = [cmd EXCEPT !.at = x]
      BY <2>1
    <3>2. x \in LoadPlaces
      BY DEF LoadPlaces
    <3>3. ticker = "off"
      BY <1>3, <2>1
    <3> QED BY <1>1, <3>1, <3>2, <3>3
  <2> QED BY <1>2, <1>3, <2>1, <2>2, LoadShapeGoes
<1> QED BY <1>4, <1>5, <1>6, <1>7

\* The ticker writes, connections are closed, and the runner is gone when those
\* of all its bots are (startProgress, Close, shutdown).
LEMMA LoadShapeOthers ==
  ASSUME LoadShape,
         \/ Load!Tick \/ Load!Writes \/ Load!Gone
         \/ \E i \in Load!Bots : Load!CloseBegins(i) \/ Load!Disconnects(i) \/ Load!Closes(i)
  PROVE  LoadShape'
<1> USE DEF LoadShape
<1>1. CASE Load!Tick \/ Load!Writes
  <2>1. /\ ticker \in {"on", "writes"} /\ ticker' \in {"on", "writes"}
        /\ UNCHANGED <<cmd, join, bots, nextIdx, tally, life>>
    BY <1>1 DEF Load!Tick, Load!Writes, Load!control, Load!conns, LoadType
  <2> QED BY <2>1 DEF LoadType, LoadNames, LoadBase, LoadBots, LoadTicker, LoadLives,
          Load!AllClosed, Load!At
<1>2. CASE Load!Gone
  <2>1. /\ cmd.at = "shutdown" /\ cmd' = [cmd EXCEPT !.at = "gone"] /\ bots' = {}
        /\ \A i \in bots : life[i] = "closed"
        /\ UNCHANGED <<join, nextIdx, tally, ticker, life>>
    BY <1>2 DEF Load!Gone, Load!At, Load!Goes, Load!conns
  <2>2. cmd' \in LoadCmds /\ cmd'.at = "gone"
    BY <2>1 DEF LoadType, LoadCmds, LoadPlaces
  <2>3. ASSUME NEW i \in Load!Bots PROVE life[i] \in {"none", "closed"}
    <3>1. join[i] \in {"none", "failed", "dropped", "bot"}
      BY <2>1 DEF LoadNames, LoadType, LoadJoins, LoadFlying
    <3>2. join[i] = "bot" => i \in bots
      BY <2>1 DEF LoadBots
    <3> QED BY <2>1, <3>1, <3>2 DEF LoadLives
  <2>4. LoadType' /\ LoadNames' /\ LoadBots' /\ LoadTicker'
    BY <2>1, <2>2 DEF LoadType, LoadNames, LoadBots, LoadTicker
  <2>5. LoadLives'
    BY <2>1, <2>2, <2>3 DEF LoadLives, Load!AllClosed, Load!At
  <2> QED BY <2>4, <2>5
<1>3. ASSUME NEW i \in Load!Bots,
             Load!CloseBegins(i) \/ Load!Disconnects(i) \/ Load!Closes(i)
      PROVE  LoadShape'
  <2>1. PICK y \in LoadLifes :
          /\ life' = [life EXCEPT ![i] = y] /\ life[i] \notin {"none", "closed"}
          /\ UNCHANGED <<cmd, join, bots, nextIdx, tally, ticker>>
    BY <1>3 DEF Load!CloseBegins, Load!Disconnects, Load!Closes, Load!Lives, Load!control,
      Load!joins, LoadLifes
  <2>2. LoadType' /\ LoadNames' /\ LoadBots' /\ LoadTicker'
    BY <2>1 DEF LoadType, LoadNames, LoadBase, LoadBots, LoadTicker
  <2>3. LoadLives'
    BY <2>1 DEF LoadLives, Load!AllClosed, Load!At, LoadType
  <2> QED BY <2>2, <2>3
<1> QED BY <1>1, <1>2, <1>3

\* The tally of a command starts from nothing.
LEMMA LoadTallyAsked ==
  ASSUME LoadShape, LoadTally, UNCHANGED ctx,
         \E n \in 1 .. MaxBots : Load!SetN(n) \/ Load!Burst(n)
  PROVE  LoadTally'
<1> SUFFICES ASSUME ctx = "live"
             PROVE  /\ \A i \in Load!Bots : join'[i] # "dropped"
                    /\ cmd'.had + tally'.joined = Cardinality(bots' \cup Load!Slots')
                    /\ tally'.joined + tally'.failed = Cardinality(LoadSettled')
  BY DEF LoadTally
<1> USE DEF LoadShape
<1>1. /\ cmd.at = "read" /\ tally' = Load!NoTally /\ UNCHANGED <<bots, nextIdx>>
      /\ cmd'.had = Cardinality(bots) /\ (cmd'.had = 0 <=> bots = {}) /\ cmd'.first = nextIdx
      /\ \/ bots = {} /\ join' = [join EXCEPT ![0] = "control"]
         \/ bots # {} /\ UNCHANGED join
  BY LoadAsks
<1>2. \A i \in Load!Bots : join'[i] = join[i] \/ join'[i] = "control"
  BY <1>1 DEF LoadType
<1>3. \A i \in Load!Bots : join[i] # "slot" /\ (i >= nextIdx => join[i] = "none")
  BY <1>1 DEF LoadNames
<1>4. Load!Slots' = {} /\ bots' = bots
  BY <1>1, <1>2, <1>3 DEF Load!Slots
<1>5. LoadSettled' = {}
  <2>1. bots = {} => nextIdx = 0
    BY <1>1 DEF LoadBots
  <2>2. \A i \in Load!Bots : i >= LoadBase' => i >= nextIdx
    BY <1>1, <2>1 DEF LoadBase
  <2> QED BY <1>2, <1>3, <2>2 DEF LoadSettled
<1>6. Cardinality(bots) \in Nat /\ Cardinality({}) = 0
  BY LoadCount DEF LoadType
<1>7. tally'.joined = 0 /\ tally'.failed = 0
  BY <1>1 DEF Load!NoTally
<1>8. bots' \cup Load!Slots' = bots
  BY <1>4
<1>9. \A i \in Load!Bots : join'[i] # "dropped"
  BY <1>2 DEF LoadTally
<1>10. cmd'.had + tally'.joined = Cardinality(bots' \cup Load!Slots')
  BY <1>1, <1>6, <1>7, <1>8
<1>11. tally'.joined + tally'.failed = Cardinality(LoadSettled')
  BY <1>5, <1>6, <1>7
<1> QED BY <1>9, <1>10, <1>11

\* A join that is launched, or goes on, is in no count yet.
LEMMA LoadTallyGoesOn ==
  ASSUME LoadShape, LoadTally, UNCHANGED <<ctx, bots, tally>>,
         NEW i \in Load!Bots, join[i] \in LoadFlying \cup {"none"},
         NEW x \in LoadFlying, join' = [join EXCEPT ![i] = x],
         cmd'.had = cmd.had, cmd'.first = cmd.first, cmd'.at = cmd.at
  PROVE  LoadTally'
<1>1. /\ join'[i] = x /\ \A j \in Load!Bots : j # i => join'[j] = join[j]
      /\ x \notin {"slot", "bot", "failed", "dropped"}
      /\ join[i] \notin {"slot", "bot", "failed", "dropped"}
  BY DEF LoadShape, LoadType, LoadFlying
<1>2. Load!Slots' = Load!Slots
  BY <1>1 DEF Load!Slots
<1>3. LoadSettled' = LoadSettled
  BY <1>1 DEF LoadSettled, LoadBase
<1> QED BY <1>1, <1>2, <1>3 DEF LoadTally

\* A join that ends is counted, as joined or as failed.
LEMMA LoadTallyEnds ==
  ASSUME LoadShape, LoadTally, UNCHANGED <<cmd, ctx, bots>>,
         NEW i \in Load!Bots, join[i] \in LoadFlying,
         NEW x \in {"slot", "failed", "dropped"}, join' = [join EXCEPT ![i] = x],
         x = "slot" => tally' = [tally EXCEPT !.joined = @ + 1],
         x = "failed" => tally' = [tally EXCEPT !.failed = @ + 1],
         x = "dropped" => ctx # "live"
  PROVE  LoadTally'
<1> SUFFICES ASSUME ctx = "live"
             PROVE  /\ \A j \in Load!Bots : join'[j] # "dropped"
                    /\ cmd.had + tally'.joined = Cardinality(bots \cup Load!Slots')
                    /\ tally'.joined + tally'.failed = Cardinality(LoadSettled')
  BY DEF LoadTally
<1>1. /\ join'[i] = x /\ \A j \in Load!Bots : j # i => join'[j] = join[j]
      /\ join[i] \notin {"slot", "bot", "failed", "dropped"} /\ x # "dropped"
  BY DEF LoadShape, LoadType, LoadFlying
<1>2. cmd.at \in {"first", "ramp"} /\ i >= LoadBase /\ i \notin bots
  BY LoadFlies
<1>3. /\ cmd.had + tally.joined = Cardinality(bots \cup Load!Slots)
      /\ tally.joined + tally.failed = Cardinality(LoadSettled)
      /\ \A j \in Load!Bots : join[j] # "dropped"
  BY <1>2 DEF LoadTally
<1>4. LoadSettled' = LoadSettled \cup {i} /\ i \notin LoadSettled
  BY <1>1, <1>2 DEF LoadSettled, LoadBase
<1>5. IsFiniteSet(LoadSettled) /\ IsFiniteSet(bots \cup Load!Slots)
      /\ Cardinality(LoadSettled) \in Nat /\ Cardinality(bots \cup Load!Slots) \in Nat
  <2>1. LoadSettled \subseteq Load!Bots /\ bots \cup Load!Slots \subseteq Load!Bots
    BY DEF LoadSettled, Load!Slots, LoadShape, LoadType
  <2> QED BY <2>1, LoadCount
<1>6. Cardinality(LoadSettled') = Cardinality(LoadSettled) + 1
  BY <1>4, <1>5, FS_AddElement
<1>7. tally.joined \in Nat /\ tally.failed \in Nat /\ cmd.had \in Nat
      /\ tally \in [joined : Nat, failed : Nat]
  BY DEF LoadShape, LoadType, LoadCmds
<1>8. CASE x = "slot"
  <2>1. tally'.joined = tally.joined + 1 /\ tally'.failed = tally.failed
    BY <1>7, <1>8
  <2>2. bots \cup Load!Slots' = (bots \cup Load!Slots) \cup {i} /\ i \notin bots \cup Load!Slots
    BY <1>1, <1>2, <1>8 DEF Load!Slots
  <2>3. Cardinality(bots \cup Load!Slots') = Cardinality(bots \cup Load!Slots) + 1
    BY <1>5, <2>2, FS_AddElement
  <2> QED BY <1>1, <1>3, <1>6, <1>7, <2>1, <2>3
<1>9. CASE x = "failed"
  <2>1. tally'.joined = tally.joined /\ tally'.failed = tally.failed + 1
    BY <1>7, <1>9
  <2>2. Load!Slots' = Load!Slots
    BY <1>1, <1>9 DEF Load!Slots
  <2> QED BY <1>1, <1>3, <1>6, <1>7, <2>1, <2>2
<1> QED BY <1>1, <1>8, <1>9

\* joinOne keeps the tally.
LEMMA LoadTallyJoins ==
  ASSUME LoadShape, LoadTally, NEW i \in Load!Bots,
         \/ Load!Connects(i) \/ Load!Refused(i) \/ Load!Joins(i) \/ Load!VoiceFails(i)
         \/ Load!Undone(i)
  PROVE  LoadTally'
<1>1. UNCHANGED <<cmd, ctx, bots>>
  BY DEF Load!Connects, Load!Refused, Load!Joins, Load!VoiceFails, Load!Undone, Load!control
<1>2. CASE Load!Connects(i) \/ Load!VoiceFails(i)
  <2>1. join[i] \in LoadFlying /\ UNCHANGED tally
        /\ \E x \in LoadFlying : join' = [join EXCEPT ![i] = x]
    BY <1>2 DEF Load!Connects, Load!VoiceFails, Load!ClosesFirst, LoadFlying
  <2> QED BY <1>1, <2>1, LoadTallyGoesOn
<1>3. CASE Load!Joins(i)
  <2>1. join[i] \in LoadFlying /\ join' = [join EXCEPT ![i] = "slot"]
        /\ tally' = [tally EXCEPT !.joined = @ + 1]
    BY <1>3 DEF Load!Joins, LoadFlying
  <2> QED BY <1>1, <2>1, LoadTallyEnds
<1>4. CASE Load!Refused(i) \/ Load!Undone(i)
  <2>1. /\ join[i] \in LoadFlying
        /\ \/ join' = [join EXCEPT ![i] = "dropped"] /\ ctx = "done"
           \/ join' = [join EXCEPT ![i] = "failed"] /\ tally' = [tally EXCEPT !.failed = @ + 1]
    BY <1>4 DEF Load!Refused, Load!Undone, Load!Fails, LoadFlying
  <2> QED BY <1>1, <2>1, LoadTallyEnds
<1> QED BY <1>2, <1>3, <1>4

\* The first bot moves from its slot to the bots, and is counted once.
LEMMA LoadTallyFirst ==
  ASSUME LoadShape, LoadTally, Load!FirstJoined
  PROVE  LoadTally'
<1> USE DEF LoadShape
<1>1. cmd.at = "first" /\ join[0] \in {"slot", "failed", "dropped"} /\ UNCHANGED <<tally, ctx>>
  BY DEF Load!FirstJoined, Load!At, Load!Ended
<1>2. /\ cmd.had = 0 /\ bots = {} /\ 0 \in Load!Bots
      /\ \A i \in Load!Bots : i # 0 => join[i] = "none"
  BY <1>1, LoadIndices DEF LoadNames, LoadBots, LoadType, LoadCmds
<1>3. CASE join[0] = "slot"
  <2>1. cmd'.had = 0 /\ join' = [join EXCEPT ![0] = "bot"] /\ bots' = {0}
    BY <1>2, <1>3 DEF Load!FirstJoined
  <2>2. join'[0] = "bot" /\ \A i \in Load!Bots : i # 0 => join'[i] = "none"
    BY <1>2, <2>1 DEF LoadType
  <2>3. bots' \cup Load!Slots' = bots \cup Load!Slots
    BY <1>2, <1>3, <2>1, <2>2 DEF Load!Slots
  <2>4. LoadSettled' = LoadSettled
    BY <1>2, <1>3, <2>1, <2>2 DEF LoadSettled, LoadBase
  <2> QED BY <1>1, <1>2, <2>1, <2>2, <2>3, <2>4 DEF LoadTally
<1>4. CASE join[0] # "slot"
  <2>1. cmd' = [cmd EXCEPT !.at = "shutdown"] /\ UNCHANGED join
    BY <1>4 DEF Load!FirstJoined, Load!Goes
  <2>2. cmd'.at = "shutdown"
    BY <2>1 DEF LoadType, LoadCmds
  <2> QED BY <1>1, <2>1, <2>2 DEF LoadTally
<1> QED BY <1>3, <1>4

\* When all have been waited for, every index asked for has joined or failed
\* once, and what joined are the bots (rampJoin's report).
LEMMA LoadAllCounted ==
  ASSUME LoadShape, LoadTally, Load!AllJoined, ctx = "live"
  PROVE  /\ cmd.had + tally.joined = Load!Cardinality(bots')
         /\ tally.joined + tally.failed = cmd.want + (IF cmd.had = 0 THEN 1 ELSE 0)
<1> USE DEF LoadShape
<1>1. /\ cmd.at = "ramp" /\ cmd.launched = cmd.want /\ bots' = bots \cup Load!Slots
      /\ \A i \in Load!Bots : join[i] \notin LoadFlying
  BY DEF Load!AllJoined, Load!At, Load!Kept, Load!InFlight, LoadFlying
<1>2. /\ cmd.had + tally.joined = Cardinality(bots \cup Load!Slots)
      /\ tally.joined + tally.failed = Cardinality(LoadSettled)
      /\ \A i \in Load!Bots : join[i] # "dropped"
  BY <1>1 DEF LoadTally
<1>3. /\ cmd.first \in Nat /\ cmd.want \in Nat /\ cmd.had \in Nat
      /\ cmd.first + cmd.want <= MaxBots /\ (cmd.had = 0 => cmd.first = 1)
  BY <1>1 DEF LoadType, LoadCmds, LoadNames
<1>4. LoadSettled = LoadBase .. cmd.first + cmd.want - 1
  <2>1. ASSUME NEW i \in Load!Bots
        PROVE  i >= LoadBase /\ join[i] \in {"slot", "bot", "failed"}
               <=> i >= LoadBase /\ i < cmd.first + cmd.want
    BY <1>1, <1>2, <1>3, LoadIndices DEF LoadNames, LoadType, LoadJoins
  <2>2. LoadBase \in Nat
    BY <1>3 DEF LoadBase
  <2> QED BY <1>3, <2>1, <2>2, LoadIndices DEF LoadSettled
<1>5. Cardinality(LoadSettled) = cmd.want + (IF cmd.had = 0 THEN 1 ELSE 0)
  <2> DEFINE last == cmd.first + cmd.want - 1
  <2>1. LoadBase \in Int /\ last \in Int
    BY <1>3 DEF LoadBase
  <2>2. Cardinality(LoadBase .. last) = IF LoadBase > last THEN 0 ELSE last - LoadBase + 1
    BY <2>1, FS_Interval
  <2>3. (IF LoadBase > last THEN 0 ELSE last - LoadBase + 1)
          = cmd.want + (IF cmd.had = 0 THEN 1 ELSE 0)
    BY <1>3 DEF LoadBase
  <2> QED BY <1>4, <2>2, <2>3
<1> QED BY <1>1, <1>2, <1>5, LoadCount

\* No other step touches what a command counts.
LEMMA LoadTallyRests ==
  ASSUME LoadShape, LoadTally, ctx' = "live" => ctx = "live",
         ctx' = "live" => \A i \in Load!Bots : join'[i] = "dropped" => join[i] = "dropped",
         \/ cmd'.at \notin {"first", "ramp"}
         \/ UNCHANGED <<cmd, join, bots, tally>>
  PROVE  LoadTally'
<1>1. CASE cmd'.at \notin {"first", "ramp"}
  BY <1>1 DEF LoadTally
<1>2. CASE UNCHANGED <<cmd, join, bots, tally>>
  <2>1. LoadSettled' = LoadSettled /\ Load!Slots' = Load!Slots
    BY <1>2 DEF LoadSettled, LoadBase, Load!Slots
  <2> QED BY <1>2, <2>1 DEF LoadTally
<1> QED BY <1>1, <1>2

\* What is neither found, closed nor reported leaves the deaths as they are.
LEMMA LoadDeathsRest ==
  ASSUME LoadDeaths,
         UNCHANGED <<finds, counted, dead, deadTotal>>,
         \A i \in Load!Bots : Load!Closing(i) => Load!Closing(i)',
         deadSinceStep' \in Nat, reported' \in Nat,
         reported' + deadSinceStep' = reported + deadSinceStep
  PROVE  LoadDeaths'
  BY DEF LoadDeaths, Load!DeathsAddUp

\* The reader or the pinger finds the connection dead, looks whether it is being
\* closed, and swaps dead (receive, fireDead): one of them wins.
LEMMA LoadFindsDeath ==
  ASSUME LoadDeaths, NEW i \in Load!Bots, NEW s \in Load!Sources,
         Load!Perishes(i, s) \/ Load!Looks(i, s) \/ Load!Swaps(i, s)
  PROVE  LoadDeaths'
<1> USE DEF LoadDeaths
<1>1. UNCHANGED <<counted, deadTotal, deadSinceStep, reported, life>>
  BY DEF Load!Perishes, Load!Looks, Load!Swaps, Load!totals
<1>2. Load!DeathsAddUp'
  BY <1>1 DEF Load!DeathsAddUp
<1>3. ASSUME NEW x \in LoadFinds, Load!Finds(i, s, x)
      PROVE  /\ finds' \in [Load!Bots -> [Load!Sources -> LoadFinds]]
             /\ finds'[i][s] = x
             /\ \A j \in Load!Bots, t \in Load!Sources :
                  j # i \/ t # s => finds'[j][t] = finds[j][t]
  <2>1. finds' = [finds EXCEPT ![i] = [finds[i] EXCEPT ![s] = x]]
    BY <1>3 DEF Load!Finds
  <2>2. [finds[i] EXCEPT ![s] = x] \in [Load!Sources -> LoadFinds]
    OBVIOUS
  <2> QED BY <2>1, <2>2
<1>4. \A x \in {"real", "own", "looked", "over", "won"} : x \in LoadFinds
  BY DEF LoadFinds
<1>5. CASE Load!Perishes(i, s) \/ Load!Looks(i, s)
  <2>1. PICK x \in {"real", "own", "looked", "over"} :
          /\ Load!Finds(i, s, x) /\ UNCHANGED dead
          /\ x = "own" => Load!Closing(i)
    BY <1>5 DEF Load!Perishes, Load!Looks, Load!Closing
  <2>2. /\ finds' \in [Load!Bots -> [Load!Sources -> LoadFinds]]
        /\ finds'[i][s] = x
        /\ \A j \in Load!Bots, t \in Load!Sources :
             j # i \/ t # s => finds'[j][t] = finds[j][t]
    BY <1>3, <1>4, <2>1
  <2> QED BY <1>1, <1>2, <2>1, <2>2 DEF Load!Closing
<1>6. CASE Load!Swaps(i, s)
  <2>1. PICK x \in {"won", "over"} :
          /\ Load!Finds(i, s, x) /\ dead' = dead \cup {i} /\ (x = "won" => i \notin dead)
    BY <1>6 DEF Load!Swaps, Load!Wins
  <2>2. /\ finds' \in [Load!Bots -> [Load!Sources -> LoadFinds]]
        /\ finds'[i][s] = x
        /\ \A j \in Load!Bots, t \in Load!Sources :
             j # i \/ t # s => finds'[j][t] = finds[j][t]
    BY <1>3, <1>4, <2>1
  <2>3. x = "won" => counted[i] = 0 /\ \A t \in Load!Sources : finds[i][t] # "won"
    BY <2>1
  <2>4. ASSUME NEW j \in Load!Bots, NEW t \in Load!Sources
        PROVE  /\ finds'[j][t] = "own" => Load!Closing(j)'
               /\ finds'[j][t] = "won" => j \in dead' /\ counted'[j] = 0
               /\ finds'[j][t] = "won" => \A u \in Load!Sources : finds'[j][u] = "won" => u = t
    BY <1>1, <2>1, <2>2, <2>3 DEF Load!Closing
  <2> QED BY <1>1, <1>2, <2>1, <2>2, <2>4
<1> QED BY <1>5, <1>6

\* The one who won counts the death, once (onDead).
LEMMA LoadCountsDeath ==
  ASSUME LoadDeaths, NEW i \in Load!Bots, NEW s \in Load!Sources, Load!OnDead(i, s)
  PROVE  LoadDeaths'
<1> USE DEF LoadDeaths
<1> DEFINE mine == [t \in Load!Sources |->
                      IF t = s THEN "over"
                      ELSE IF t = "ping" /\ finds[i][t] = "none" THEN "halted" ELSE finds[i][t]]
<1>1. /\ finds[i][s] = "won" /\ finds' = [finds EXCEPT ![i] = mine]
      /\ deadTotal' = deadTotal + 1 /\ deadSinceStep' = deadSinceStep + 1
      /\ counted' = [counted EXCEPT ![i] = @ + 1]
      /\ UNCHANGED <<life, dead, reported>>
  BY DEF Load!OnDead
<1>2. counted[i] = 0 /\ i \in dead /\ \A t \in Load!Sources : finds[i][t] = "won" => t = s
  BY <1>1
<1>3. counted'[i] = 1 /\ counted' \in [Load!Bots -> {0, 1}]
      /\ \A j \in Load!Bots : j # i => counted'[j] = counted[j]
  BY <1>1, <1>2
<1>4. mine \in [Load!Sources -> LoadFinds]
  BY DEF LoadFinds
<1>5. /\ finds' \in [Load!Bots -> [Load!Sources -> LoadFinds]] /\ finds'[i] = mine
      /\ \A j \in Load!Bots : j # i => finds'[j] = finds[j]
  BY <1>1, <1>4
<1>6. ASSUME NEW t \in Load!Sources
      PROVE  mine[t] # "won" /\ (mine[t] = "own" => finds[i][t] = "own")
  BY <1>2, <1>6
<1>7. ASSUME NEW j \in Load!Bots, NEW t \in Load!Sources
      PROVE  /\ finds'[j][t] = "own" => Load!Closing(j)'
             /\ finds'[j][t] = "won" => j \in dead' /\ counted'[j] = 0
             /\ finds'[j][t] = "won" => \A u \in Load!Sources : finds'[j][u] = "won" => u = t
  <2>1. CASE j = i
    BY <1>1, <1>5, <1>6, <2>1 DEF Load!Closing
  <2>2. CASE j # i
    BY <1>1, <1>3, <1>5, <2>2 DEF Load!Closing
  <2> QED BY <2>1, <2>2
<1>8. Load!DeathsAddUp'
  <2> DEFINE Was == {j \in Load!Bots : counted[j] > 0}
  <2>1. {j \in Load!Bots : counted'[j] > 0} = Was \cup {i} /\ i \notin Was
    BY <1>2, <1>3
  <2>2. IsFiniteSet(Was)
    BY LoadCount
  <2>3. Cardinality(Was \cup {i}) = Cardinality(Was) + 1
    BY <2>1, <2>2, FS_AddElement
  <2>4. deadTotal = Cardinality(Was) /\ reported + deadSinceStep = deadTotal
    BY LoadCount DEF Load!DeathsAddUp
  <2>5. deadTotal' = Load!Cardinality({j \in Load!Bots : counted'[j] > 0})
    BY <1>1, <2>1, <2>3, <2>4, LoadCount
  <2>6. \A j \in Load!Bots : counted'[j] <= 1
    BY <1>3
  <2>7. reported' + deadSinceStep' = deadTotal'
    BY <1>1, <2>4
  <2> QED BY <2>5, <2>6, <2>7 DEF Load!DeathsAddUp
<1> QED BY <1>1, <1>2, <1>3, <1>5, <1>7, <1>8

\* A signal and what the readers and pingers of the bots do leave the command and
\* its joins alone.
LEMMA LoadShapeRests ==
  ASSUME LoadShape, UNCHANGED <<cmd, join, bots, nextIdx, tally, ticker, life>>
  PROVE  LoadShape'
<1> USE DEF LoadShape
<1>1. LoadType' /\ LoadBots' /\ LoadTicker'
  BY DEF LoadType, LoadBots, LoadTicker
<1>2. LoadNames'
  BY DEF LoadNames, LoadBase
<1>3. LoadLives'
  BY DEF LoadLives, Load!AllClosed, Load!At
<1> QED BY <1>1, <1>2, <1>3

\* Every step keeps the shape.
LEMMA LoadShapeNext ==
  ASSUME LoadShape, Load!Next
  PROVE  LoadShape'
<1>1. CASE Load!Cancel
  BY <1>1, LoadShapeRests DEF Load!Cancel, Load!joins, Load!conns
<1>2. CASE \E i \in Load!Bots, s \in Load!Sources :
             Load!Perishes(i, s) \/ Load!Looks(i, s) \/ Load!Swaps(i, s) \/ Load!OnDead(i, s)
  <2>1. UNCHANGED <<cmd, join, bots, nextIdx, tally, ticker, life>>
    BY <1>2 DEF Load!Perishes, Load!Looks, Load!Swaps, Load!OnDead, Load!control, Load!joins
  <2> QED BY <2>1, LoadShapeRests
<1> QED BY <1>1, <1>2, LoadLaunches, LoadShapeFirst, LoadShapeAllJoined, LoadShapeCommand,
        LoadShapeOthers, LoadShapeAsked, LoadShapeJoins DEF Load!Next

\* Every step keeps the tally.
LEMMA LoadTallyNext ==
  ASSUME LoadShape, LoadTally, Load!Next
  PROVE  LoadTally'
<1>1. CASE Load!Cancel
  BY <1>1, LoadTallyRests DEF Load!Cancel, Load!joins
<1>2. CASE \E n \in 1 .. MaxBots : Load!SetN(n) \/ Load!Burst(n)
  <2>1. UNCHANGED ctx
    BY <1>2 DEF Load!SetN, Load!Burst
  <2> QED BY <1>2, <2>1, LoadTallyAsked
<1>3. CASE Load!Launch
  <2>1. /\ join' = [join EXCEPT ![cmd.first + cmd.launched] = "control"]
        /\ cmd' = [cmd EXCEPT !.launched = @ + 1] /\ UNCHANGED <<ctx, bots, tally>>
    BY <1>3 DEF Load!Launch
  <2>2. cmd'.had = cmd.had /\ cmd'.first = cmd.first /\ cmd'.at = cmd.at
    BY <2>1 DEF LoadShape, LoadType, LoadCmds
  <2>3. /\ cmd.first + cmd.launched \in Load!Bots
        /\ join[cmd.first + cmd.launched] \in LoadFlying \cup {"none"}
    BY <1>3, LoadLaunches
  <2>4. "control" \in LoadFlying
    BY DEF LoadFlying
  <2> QED BY <2>1, <2>2, <2>3, <2>4, LoadTallyGoesOn
<1>4. CASE Load!AllJoined
  <2>1. /\ \E x \in {"stop", "abort"} : cmd' = [cmd EXCEPT !.at = x]
        /\ UNCHANGED ctx
        /\ join' = [i \in Load!Bots |-> IF join[i] = "slot" THEN "bot" ELSE join[i]]
    BY <1>4 DEF Load!AllJoined, Load!Goes
  <2>2. cmd'.at \notin {"first", "ramp"}
    BY <2>1 DEF LoadShape, LoadType, LoadCmds
  <2> QED BY <2>1, <2>2, LoadTallyRests
<1>5. CASE \/ Load!Quit \/ Load!StopProgress \/ Load!WritesReport \/ Load!HoldResets
           \/ Load!HoldBegins \/ Load!HoldAdds \/ Load!HoldReports \/ Load!HoldEnds
           \/ Load!Gone
  <2>1. /\ UNCHANGED <<ctx, join>>
        /\ \/ cmd' = Load!Idle
           \/ \E x \in {"shutdown", "holds", "hold", "adds", "settles", "gone", "write"} :
                cmd' = [cmd EXCEPT !.at = x] \/ cmd' = [Load!Idle EXCEPT !.at = x]
    <3>1. CASE Load!WritesReport \/ Load!HoldEnds
      BY <3>1 DEF Load!WritesReport, Load!HoldEnds, Load!joins
    <3>2. CASE Load!StopProgress
      BY <3>2 DEF Load!StopProgress
    <3>3. CASE Load!Quit \/ Load!Gone
      BY <3>3 DEF Load!Quit, Load!Gone, Load!Goes, Load!joins
    <3>4. CASE Load!HoldResets \/ Load!HoldBegins \/ Load!HoldAdds \/ Load!HoldReports
      BY <3>4 DEF Load!HoldResets, Load!HoldBegins, Load!HoldAdds, Load!HoldReports,
        Load!Goes, Load!joins
    <3> QED BY <1>5, <3>1, <3>2, <3>3, <3>4
  <2>2. cmd'.at \notin {"first", "ramp"}
    BY <2>1 DEF LoadShape, LoadType, LoadCmds, Load!Idle
  <2> QED BY <2>1, <2>2, LoadTallyRests
<1>6. CASE \/ Load!Tick \/ Load!Writes
           \/ \E i \in Load!Bots : Load!CloseBegins(i) \/ Load!Disconnects(i) \/ Load!Closes(i)
  <2>1. UNCHANGED <<cmd, ctx, join, bots, tally>>
    BY <1>6 DEF Load!Tick, Load!Writes, Load!CloseBegins, Load!Disconnects, Load!Closes,
      Load!Lives, Load!control, Load!joins
  <2> QED BY <2>1, LoadTallyRests
<1>7. CASE \E i \in Load!Bots, s \in Load!Sources :
             Load!Perishes(i, s) \/ Load!Looks(i, s) \/ Load!Swaps(i, s) \/ Load!OnDead(i, s)
  <2>1. UNCHANGED <<cmd, ctx, join, bots, tally>>
    BY <1>7 DEF Load!Perishes, Load!Looks, Load!Swaps, Load!OnDead, Load!control, Load!joins
  <2> QED BY <2>1, LoadTallyRests
<1> QED BY <1>1, <1>2, <1>3, <1>4, <1>5, <1>6, <1>7, LoadTallyFirst, LoadTallyJoins
        DEF Load!Next

\* A connection that is being closed stays so, and a hold moves the deaths since
\* the last report to its own.
LEMMA LoadDeathsNext ==
  ASSUME LoadShape, LoadDeaths, Load!Next
  PROVE  LoadDeaths'
<1>1. deadSinceStep \in Nat /\ reported \in Nat
  BY DEF LoadDeaths
<1>2. CASE Load!HoldReports
  <2>1. /\ reported' = reported + deadSinceStep /\ deadSinceStep' = 0
        /\ UNCHANGED <<finds, counted, dead, deadTotal, life>>
    BY <1>2 DEF Load!HoldReports, Load!ReadNow, Load!conns
  <2> QED BY <1>1, <2>1, LoadDeathsRest DEF Load!Closing
<1>3. CASE \/ Load!Cancel \/ Load!Quit \/ Load!Launch \/ Load!FirstJoined \/ Load!AllJoined
           \/ Load!Tick \/ Load!Writes \/ Load!StopProgress \/ Load!WritesReport
           \/ Load!HoldResets \/ Load!HoldBegins \/ Load!HoldAdds \/ Load!HoldEnds \/ Load!Gone
           \/ \E n \in 1 .. MaxBots : Load!SetN(n) \/ Load!Burst(n)
           \/ \E i \in Load!Bots :
                Load!Refused(i) \/ Load!Joins(i) \/ Load!VoiceFails(i) \/ Load!Undone(i)
  <2>1. UNCHANGED <<finds, counted, dead, deadTotal, deadSinceStep, reported, life>>
    BY <1>3 DEF Load!Cancel, Load!Quit, Load!Launch, Load!FirstJoined, Load!AllJoined,
      Load!Tick, Load!Writes, Load!StopProgress, Load!WritesReport, Load!HoldResets,
      Load!HoldBegins, Load!HoldAdds, Load!HoldEnds, Load!Gone, Load!SetN, Load!Burst,
      Load!Refused, Load!Joins, Load!VoiceFails, Load!Undone, Load!conns, Load!totals
  <2> QED BY <1>1, <2>1, LoadDeathsRest DEF Load!Closing
<1>4. CASE \E i \in Load!Bots :
             Load!Connects(i) \/ Load!CloseBegins(i) \/ Load!Disconnects(i) \/ Load!Closes(i)
  <2>1. /\ UNCHANGED <<finds, counted, dead, deadTotal, deadSinceStep, reported>>
        /\ \E i \in Load!Bots :
             \/ life[i] = "none" /\ life' = [life EXCEPT ![i] = "open"]
             \/ life[i] = "open" /\ life' = [life EXCEPT ![i] = "closing"]
             \/ life[i] = "closing" /\ life' = [life EXCEPT ![i] = "ended"]
             \/ life[i] = "ended" /\ life' = [life EXCEPT ![i] = "closed"]
    BY <1>4 DEF Load!Connects, Load!CloseBegins, Load!Disconnects, Load!Closes, Load!Lives,
      Load!totals
  <2>2. \A i \in Load!Bots : Load!Closing(i) => Load!Closing(i)'
    BY <2>1 DEF Load!Closing, LoadShape, LoadType
  <2> QED BY <1>1, <2>1, <2>2, LoadDeathsRest
<1> QED BY <1>2, <1>3, <1>4, LoadFindsDeath, LoadCountsDeath DEF Load!Next

\* Whoever neither holds nor counts a death leaves the numbers of the hold.
LEMMA LoadHoldsRest ==
  ASSUME LoadHolds, UNCHANGED <<deadInHold, inHold, deadSinceStep>>,
         \/ cmd'.at = cmd.at /\ UNCHANGED loadPhase
         \/ loadPhase' # "hold" /\ cmd'.at \notin {"holds", "hold", "adds"}
  PROVE  LoadHolds'
  BY DEF LoadHolds

\* A hold forgets the deaths of the one before; a death while it is on is among
\* its own and among those since the last report (hold, onDead).
LEMMA LoadHoldsNext ==
  ASSUME LoadShape, LoadDeaths, LoadHolds, Load!Next
  PROVE  LoadHolds'
<1>1. /\ deadInHold \in Nat /\ inHold \in Nat /\ deadSinceStep \in Nat
      /\ \A x \in LoadPlaces : [cmd EXCEPT !.at = x].at = x /\ [Load!Idle EXCEPT !.at = x].at = x
      /\ Load!Idle.at = "read"
  BY DEF LoadShape, LoadType, LoadCmds, LoadDeaths, LoadHolds, Load!Idle
<1>2. CASE \E n \in 1 .. MaxBots : Load!SetN(n) \/ Load!Burst(n)
  <2>1. /\ loadPhase' \in {"ramp", "burst"} /\ UNCHANGED <<deadInHold, inHold, deadSinceStep>>
    BY <1>2 DEF Load!SetN, Load!Burst, Load!totals
  <2>2. cmd'.at \in {"first", "ramp"}
    BY <1>2, LoadAsks
  <2> QED BY <2>1, <2>2, LoadHoldsRest
<1>3. CASE Load!FirstJoined \/ Load!AllJoined
  <2>1. /\ cmd.at \in {"first", "ramp"} /\ loadPhase' \in {loadPhase, "settle"}
        /\ UNCHANGED <<deadInHold, inHold, deadSinceStep>>
    BY <1>3 DEF Load!FirstJoined, Load!AllJoined, Load!At, Load!totals
  <2>2. cmd'.at \in {"ramp", "shutdown", "stop", "abort"}
    <3>1. CASE Load!AllJoined
      <4>1. \E x \in {"stop", "abort"} : cmd' = [cmd EXCEPT !.at = x]
        BY <3>1 DEF Load!AllJoined, Load!Goes
      <4> QED BY <1>1, <4>1 DEF LoadPlaces
    <3>2. CASE Load!FirstJoined
      <4>1. \/ cmd' = [cmd EXCEPT !.at = "shutdown"]
            \/ cmd'.at = "ramp"
        BY <3>2 DEF Load!FirstJoined, Load!Goes
      <4> QED BY <1>1, <4>1 DEF LoadPlaces
    <3> QED BY <1>3, <3>1, <3>2
  <2>3. loadPhase' # "hold"
    BY <2>1 DEF LoadHolds
  <2> QED BY <2>1, <2>2, <2>3, LoadHoldsRest
<1>4. CASE Load!Quit \/ Load!StopProgress \/ Load!WritesReport \/ Load!HoldEnds \/ Load!Gone
  <2>1. UNCHANGED <<deadInHold, inHold, deadSinceStep>>
    BY <1>4 DEF Load!Quit, Load!StopProgress, Load!WritesReport, Load!HoldEnds, Load!Gone,
      Load!totals
  <2>2. cmd'.at \in {"shutdown", "write", "read", "gone"}
    <3>1. CASE Load!WritesReport \/ Load!HoldEnds
      BY <1>1, <3>1 DEF Load!WritesReport, Load!HoldEnds
    <3>2. CASE Load!StopProgress
      BY <1>1, <3>2 DEF Load!StopProgress, LoadPlaces
    <3>3. CASE Load!Quit \/ Load!Gone
      BY <1>1, <3>3 DEF Load!Quit, Load!Gone, Load!Goes, LoadPlaces
    <3> QED BY <1>4, <3>1, <3>2, <3>3
  <2>3. \/ loadPhase' = "settle"
        \/ UNCHANGED loadPhase /\ cmd.at \in {"read", "stop", "abort", "write", "shutdown"}
    BY <1>4 DEF Load!Quit, Load!StopProgress, Load!WritesReport, Load!HoldEnds, Load!Gone,
      Load!At
  <2>4. loadPhase' # "hold"
    BY <2>3 DEF LoadHolds
  <2> QED BY <2>1, <2>2, <2>4, LoadHoldsRest
<1>5. CASE Load!HoldResets
  <2>1. /\ cmd.at = "read" /\ deadInHold' = 0 /\ UNCHANGED <<loadPhase, inHold>>
        /\ cmd'.at = "holds"
    BY <1>1, <1>5 DEF Load!HoldResets, Load!FromNothing, Load!Goes, Load!At, LoadPlaces
  <2> QED BY <2>1 DEF LoadHolds
<1>6. CASE Load!HoldBegins
  <2>1. /\ cmd.at = "holds" /\ inHold' = 0 /\ UNCHANGED <<deadInHold, deadSinceStep>>
        /\ cmd'.at = "hold"
    BY <1>1, <1>6 DEF Load!HoldBegins, Load!Goes, Load!At, LoadPlaces
  <2> QED BY <1>1, <2>1 DEF LoadHolds
<1>7. CASE Load!HoldAdds
  <2>1. /\ cmd.at = "hold" /\ UNCHANGED <<loadPhase, inHold, deadInHold, deadSinceStep>>
        /\ cmd'.at = "adds"
    BY <1>1, <1>7 DEF Load!HoldAdds, Load!Goes, Load!At, LoadPlaces
  <2> QED BY <2>1 DEF LoadHolds
<1>8. CASE Load!HoldReports
  <2>1. UNCHANGED <<inHold, deadInHold>> /\ cmd'.at = "settles"
    BY <1>1, <1>8 DEF Load!HoldReports, Load!Goes, LoadPlaces
  <2> QED BY <2>1 DEF LoadHolds
<1>9. CASE \E i \in Load!Bots, s \in Load!Sources : Load!OnDead(i, s)
  <2>1. /\ UNCHANGED <<cmd, loadPhase>> /\ deadSinceStep' = deadSinceStep + 1
        /\ \/ /\ loadPhase = "hold" /\ deadInHold' = deadInHold + 1 /\ inHold' = inHold + 1
           \/ loadPhase # "hold" /\ UNCHANGED <<deadInHold, inHold>>
    BY <1>9 DEF Load!OnDead, Load!control
  <2> QED BY <1>1, <2>1 DEF LoadHolds
<1>10. CASE Load!Launch
  <2>1. /\ cmd' = [cmd EXCEPT !.launched = @ + 1]
        /\ UNCHANGED <<loadPhase, deadInHold, inHold, deadSinceStep>>
    BY <1>10 DEF Load!Launch, Load!totals
  <2>2. cmd'.at = cmd.at
    BY <2>1 DEF LoadShape, LoadType, LoadCmds
  <2> QED BY <2>1, <2>2, LoadHoldsRest
<1>11. CASE \/ Load!Cancel \/ Load!Tick \/ Load!Writes
            \/ \E i \in Load!Bots :
                 \/ Load!Connects(i) \/ Load!Refused(i) \/ Load!Joins(i) \/ Load!VoiceFails(i)
                 \/ Load!Undone(i) \/ Load!CloseBegins(i) \/ Load!Disconnects(i)
                 \/ Load!Closes(i)
            \/ \E i \in Load!Bots, s \in Load!Sources :
                 Load!Perishes(i, s) \/ Load!Looks(i, s) \/ Load!Swaps(i, s)
  <2>1. UNCHANGED <<cmd, loadPhase, deadInHold, inHold, deadSinceStep>>
    BY <1>11 DEF Load!Cancel, Load!Tick, Load!Writes, Load!Connects, Load!Refused, Load!Joins,
      Load!VoiceFails, Load!Undone, Load!CloseBegins, Load!Disconnects, Load!Closes,
      Load!Lives, Load!Perishes, Load!Looks, Load!Swaps, Load!control, Load!totals
  <2> QED BY <2>1, LoadHoldsRest
<1> QED BY <1>2, <1>3, <1>4, <1>5, <1>6, <1>7, <1>8, <1>9, <1>10, <1>11 DEF Load!Next

\* No step breaks a promise: Launch takes a new name, the report has every join,
\* no line follows it, a hold reports its own deaths, and nobody takes a
\* connection that is not being closed for one that is.
LEMMA LoadNothingBreaks ==
  ASSUME LoadInv, Load!Next
  PROVE  Load!NothingWrong'
<1> USE DEF LoadInv, Load!NothingWrong
<1>1. CASE Load!Launch
  <2>1. Load!Breaks("a name twice", join[cmd.first + cmd.launched] # "none")
    BY <1>1 DEF Load!Launch
  <2>2. join[cmd.first + cmd.launched] = "none"
    BY <1>1, LoadLaunches
  <2> QED BY <2>1, <2>2 DEF Load!Breaks
<1>2. CASE Load!AllJoined
  <2>1. Load!Breaks("a join uncounted", ctx = "live" /\
          ~(/\ cmd.had + tally.joined = Load!Cardinality(bots')
            /\ tally.joined + tally.failed = cmd.want + (IF cmd.had = 0 THEN 1 ELSE 0)))
    BY <1>2 DEF Load!AllJoined
  <2>2. ctx = "live" =>
          /\ cmd.had + tally.joined = Load!Cardinality(bots')
          /\ tally.joined + tally.failed = cmd.want + (IF cmd.had = 0 THEN 1 ELSE 0)
    BY <1>2, LoadAllCounted
  <2> QED BY <2>1, <2>2 DEF Load!Breaks
<1>3. CASE Load!Writes
  <2>1. cmd.at \in {"ramp", "stop", "abort"}
        /\ Load!Breaks("progress after the report",
                       cmd.at \notin {"ramp", "stop", "abort", "write"})
    BY <1>3 DEF Load!Writes, LoadShape, LoadTicker
  <2> QED BY <2>1 DEF Load!Breaks
<1>4. CASE Load!HoldReports
  <2>1. cmd.at = "adds"
        /\ Load!Breaks("a death in hold", deadInHold # inHold \/ deadInHold > deadSinceStep)
    BY <1>4 DEF Load!HoldReports, Load!ReadNow, Load!At
  <2>2. deadInHold = inHold /\ deadInHold <= deadSinceStep /\ deadInHold \in Nat
    BY <2>1 DEF LoadHolds
  <2>3. deadSinceStep \in Nat
    BY DEF LoadDeaths
  <2>4. ~(deadInHold # inHold \/ deadInHold > deadSinceStep)
    BY <2>2, <2>3
  <2> QED BY <2>1, <2>4 DEF Load!Breaks
<1>5. ASSUME NEW i \in Load!Bots, NEW s \in Load!Sources, Load!Looks(i, s)
      PROVE  Load!NothingWrong'
  <2>1. Load!Breaks("our own doing", finds[i][s] = "own" /\ ~Load!Closing(i))
    BY <1>5 DEF Load!Looks
  <2>2. finds[i][s] = "own" => Load!Closing(i)
    BY DEF LoadDeaths
  <2> QED BY <2>1, <2>2 DEF Load!Breaks
<1>6. CASE \/ Load!Cancel \/ Load!Quit \/ Load!FirstJoined
           \/ Load!Tick \/ Load!StopProgress \/ Load!WritesReport
           \/ Load!HoldResets \/ Load!HoldBegins \/ Load!HoldAdds \/ Load!HoldEnds \/ Load!Gone
           \/ \E n \in 1 .. MaxBots : Load!SetN(n) \/ Load!Burst(n)
  BY <1>6 DEF Load!Cancel, Load!Quit, Load!FirstJoined, Load!Tick, Load!StopProgress,
    Load!WritesReport, Load!HoldResets, Load!HoldBegins, Load!HoldAdds, Load!HoldEnds,
    Load!Gone, Load!SetN, Load!Burst
<1>7. CASE \/ \E i \in Load!Bots :
                \/ Load!Connects(i) \/ Load!Refused(i) \/ Load!Joins(i) \/ Load!VoiceFails(i)
                \/ Load!Undone(i) \/ Load!CloseBegins(i) \/ Load!Disconnects(i)
                \/ Load!Closes(i)
           \/ \E i \in Load!Bots, s \in Load!Sources :
                Load!Perishes(i, s) \/ Load!Swaps(i, s) \/ Load!OnDead(i, s)
  BY <1>7 DEF Load!Connects, Load!Refused, Load!Joins, Load!VoiceFails, Load!Undone,
    Load!CloseBegins, Load!Disconnects, Load!Closes, Load!Lives, Load!Perishes, Load!Swaps,
    Load!OnDead
<1> QED BY <1>1, <1>2, <1>3, <1>4, <1>5, <1>6, <1>7 DEF Load!Next

\* Every step of the load generator keeps its invariant.
LEMMA LoadPreserved ==
  ASSUME LoadInv, [Load!Next]_loadVars
  PROVE  LoadInv'
<1>1. CASE Load!Next
  BY <1>1, LoadShapeNext, LoadTallyNext, LoadDeathsNext, LoadHoldsNext, LoadNothingBreaks
     DEF LoadInv
<1>2. CASE UNCHANGED loadVars
  <2> USE <1>2 DEF loadVars
  <2>1. LoadShape'
    BY LoadShapeRests DEF LoadInv
  <2>2. LoadTally'
    BY LoadTallyRests DEF LoadInv
  <2>3. deadSinceStep \in Nat /\ reported \in Nat
    BY DEF LoadInv, LoadDeaths
  <2>4. LoadDeaths'
    BY <2>3, LoadDeathsRest DEF LoadInv, Load!Closing
  <2>5. LoadHolds'
    BY LoadHoldsRest DEF LoadInv
  <2>6. Load!NothingWrong'
    BY DEF LoadInv, Load!NothingWrong
  <2> QED BY <2>1, <2>2, <2>4, <2>5, <2>6 DEF LoadInv
<1> QED BY <1>1, <1>2

\* The invariant says that nothing is wrong, that the deaths add up, and that
\* every connection is closed when the runner is gone.
LEMMA LoadInvImplies == LoadInv => Load!LoadIsAccounted
  BY DEF LoadInv, LoadShape, LoadLives, LoadDeaths, Load!LoadIsAccounted

(***************************************************************************)
(* The configuration                                                       *)
(***************************************************************************)

SetValues == [Settings!Fields -> Nat]
SetTxs ==
  [by : {"keys", "select", "flush", "other"}, field : Settings!Fields, val : Nat,
   next : SetValues, at : {"saving", "saved", "failed"}]
SetType ==
  /\ cfg \in SetValues /\ settingsFile \in SetValues
  /\ layoutPending \in BOOLEAN
  /\ kb \in Nat /\ keys \in Nat /\ selects \in Nat /\ edits \in Nat /\ others \in Nat
  /\ tx \in SetTxs \/ tx = Settings!NoTx

\* Whose write it is, and the lock it is made under.
SetWriter ==
  tx \in SetTxs =>
    /\ tx.by = "keys" => tx.field = "keybinds" /\ writeMu = "keys" /\ tx.val = kb
    /\ tx.by = "select" => tx.field = "selected" /\ writeMu = "select" /\ tx.val >= persistedSeq
    /\ tx.by = "flush" => tx.field = "layout" /\ writeMu = "flush"
    /\ tx.by = "other" => tx.field = "other"

\* What is written is what is in memory and the change, but for a layout edited
\* since, which is still to be flushed.
SetWrites ==
  tx \in SetTxs =>
    /\ tx.next["layout"] = cfg["layout"] \/ layoutPending
    /\ \A f \in Settings!Fields \ {"layout"} :
         tx.next[f] = IF f = tx.field THEN tx.val ELSE cfg[f]
    /\ tx.at = "saved" => settingsFile = tx.next
    /\ tx.at # "saved" =>
         /\ \A f \in Settings!Fields \ {"layout"} : settingsFile[f] = cfg[f]
         /\ tx.by # "flush" => settingsFile["layout"] = cfg["layout"] \/ layoutPending

SetQuiet ==
  tx = Settings!NoTx =>
    \A f \in Settings!Fields :
      cfg[f] # settingsFile[f] => f = "layout" /\ layoutPending

\* The store and the newest selection follow the configuration in memory.
SetMemory ==
  /\ cfg["layout"] = edits /\ persistedSeq = cfg["selected"]
  /\ writeMu # "keys" => kb = cfg["keybinds"]
  /\ \A seq \in 1 .. selects :
       \/ seq \in queued \cup lost \/ seq <= cfg["selected"]
       \/ tx \in SetTxs /\ tx.by = "select" /\ tx.val = seq

SetInv == SetType /\ SetWriter /\ SetWrites /\ SetQuiet /\ SetMemory

\* A write that runs is told from none.
LEMMA SetTxIsNone == \A t \in SetTxs : t # Settings!NoTx /\ t.by # "none"
<1> SUFFICES ASSUME NEW t \in SetTxs PROVE t # Settings!NoTx /\ t.by # "none"
  OBVIOUS
<1>1. t.by \in {"keys", "select", "flush", "other"}
  BY DEF SetTxs
<1>2. Settings!NoTx.by = "none"
  BY DEF Settings!NoTx
<1> QED BY <1>1, <1>2

\* A configuration from the factory is on file.
LEMMA SetInitial == Settings!Init => SetInv
<1> SUFFICES ASSUME Settings!Init PROVE SetInv
  OBVIOUS
<1>1. tx = Settings!NoTx /\ tx \notin SetTxs
  BY SetTxIsNone DEF Settings!Init
<1>2. cfg = settingsFile /\ cfg \in SetValues /\ \A f \in Settings!Fields : cfg[f] = 0
  BY DEF Settings!Init, Settings!Factory, SetValues
<1>3. "layout" \in Settings!Fields /\ "selected" \in Settings!Fields /\ "keybinds" \in Settings!Fields
  BY DEF Settings!Fields
<1>4. /\ layoutPending = FALSE /\ persistedSeq = 0 /\ kb = 0 /\ keys = 0 /\ selects = 0
      /\ edits = 0 /\ others = 0
  BY DEF Settings!Init
<1>5. SetType
  BY <1>1, <1>2, <1>4 DEF SetType
<1>6. SetMemory
  BY <1>2, <1>3, <1>4 DEF SetMemory
<1> QED BY <1>1, <1>2, <1>5, <1>6 DEF SetInv, SetWriter, SetWrites, SetQuiet

\* The layout is edited in the middle of any write, and is to be flushed; a radio
\* is selected; the store is changed under writeMu (SetCommsLayout, SelectRadio,
\* AddTrigger).
LEMMA SetRequests ==
  ASSUME SetInv, Settings!EditLayout \/ Settings!SelectRadio \/ Settings!ChangeKeys
  PROVE  SetInv'
<1> USE DEF SetInv
<1>1. "layout" \in Settings!Fields /\ "selected" \in Settings!Fields /\ "keybinds" \in Settings!Fields
  BY DEF Settings!Fields
<1>2. CASE Settings!EditLayout
  <2>1. /\ edits' = edits + 1 /\ cfg' = [cfg EXCEPT !["layout"] = edits + 1]
        /\ layoutPending' = TRUE
        /\ UNCHANGED <<persistedSeq, settingsFile, kb, writeMu, tx, keys, selects, others,
                       queued, lost>>
    BY <1>2 DEF Settings!EditLayout
  <2>2. /\ cfg' \in SetValues /\ cfg'["layout"] = edits + 1
        /\ \A f \in Settings!Fields : f # "layout" => cfg'[f] = cfg[f]
    BY <1>1, <2>1 DEF SetType, SetValues
  <2>3. SetType'
    BY <2>1, <2>2 DEF SetType
  <2>4. SetWriter' /\ SetWrites' /\ SetQuiet'
    BY <2>1, <2>2 DEF SetWriter, SetWrites, SetQuiet
  <2>5. SetMemory'
    BY <1>1, <2>1, <2>2 DEF SetMemory
  <2> QED BY <2>3, <2>4, <2>5
<1>3. CASE Settings!SelectRadio
  <2>1. /\ selects' = selects + 1 /\ queued' = queued \cup {selects + 1}
        /\ UNCHANGED <<cfg, layoutPending, persistedSeq, settingsFile, kb, writeMu, tx, keys,
                       edits, others, lost>>
    BY <1>3 DEF Settings!SelectRadio, Settings!config
  <2>2. SetType' /\ SetWriter' /\ SetWrites' /\ SetQuiet'
    BY <2>1 DEF SetType, SetWriter, SetWrites, SetQuiet
  <2>3. selects \in Nat
    BY DEF SetType
  <2>4. SetMemory'
    BY <2>1, <2>3 DEF SetMemory
  <2> QED BY <2>2, <2>4
<1>4. CASE Settings!ChangeKeys
  <2>1. /\ writeMu = "free" /\ writeMu' = "keys" /\ keys' = keys + 1 /\ kb' = keys + 1
        /\ UNCHANGED <<cfg, layoutPending, persistedSeq, settingsFile, tx, selects,
                       edits, others, queued, lost>>
    BY <1>4 DEF Settings!ChangeKeys, Settings!config
  <2>2. SetType' /\ SetWriter' /\ SetWrites' /\ SetQuiet'
    BY <2>1 DEF SetType, SetWriter, SetWrites, SetQuiet
  <2>3. SetMemory'
    BY <2>1 DEF SetMemory
  <2> QED BY <2>2, <2>3
<1> QED BY <1>2, <1>3, <1>4

\* saveMu is taken: what will be written is what is in memory and the change.
LEMMA SetSnapshot ==
  ASSUME SetInv, NEW by \in {"keys", "select", "flush", "other"}, NEW f \in Settings!Fields,
         NEW v \in Nat, Settings!Snapshot(by, f, v),
         by = "keys" => f = "keybinds" /\ writeMu' = "keys" /\ v = kb,
         by = "select" => f = "selected" /\ writeMu' = "select" /\ v >= persistedSeq,
         by = "flush" => f = "layout" /\ writeMu' = "flush" /\ v = cfg["layout"],
         by = "other" => f = "other",
         by # "flush" => UNCHANGED layoutPending,
         layoutPending' \in BOOLEAN,
         UNCHANGED <<cfg, persistedSeq, settingsFile, kb>>
  PROVE  /\ tx = Settings!NoTx /\ tx' \in SetTxs /\ tx'.by = by /\ tx'.val = v
         /\ SetWriter' /\ SetWrites' /\ SetQuiet'
<1> USE DEF SetInv
<1>1. /\ tx = Settings!NoTx
      /\ tx' = [by |-> by, field |-> f, val |-> v, next |-> [cfg EXCEPT ![f] = v],
                at |-> "saving"]
  BY DEF Settings!Snapshot, Settings!Begun
<1>2. /\ [cfg EXCEPT ![f] = v] \in SetValues
      /\ \A g \in Settings!Fields : [cfg EXCEPT ![f] = v][g] = IF g = f THEN v ELSE cfg[g]
  BY DEF SetType, SetValues
<1>3. tx' \in SetTxs
  BY <1>1, <1>2 DEF SetTxs
<1>4. /\ tx'.by = by /\ tx'.field = f /\ tx'.val = v /\ tx'.at = "saving"
      /\ \A g \in Settings!Fields : tx'.next[g] = IF g = f THEN v ELSE cfg[g]
  BY <1>1, <1>2
<1>5. "layout" \in Settings!Fields
  BY DEF Settings!Fields
<1>6. \A g \in Settings!Fields : cfg[g] # settingsFile[g] => g = "layout" /\ layoutPending
  BY <1>1 DEF SetQuiet
<1>7. SetWriter'
  BY <1>4 DEF SetWriter
<1>8. SetWrites'
  BY <1>4, <1>5, <1>6 DEF SetWrites
<1>9. SetQuiet'
  BY <1>3, SetTxIsNone DEF SetQuiet
<1> QED BY <1>1, <1>3, <1>4, <1>7, <1>8, <1>9

\* A write begins: of the keybindings, of another field, of the newest selection,
\* or of the layout at shutdown (persistKeybinds, persistSelectedRadioSeq,
\* flushConfig).
LEMMA SetBegins ==
  ASSUME SetInv,
         \/ Settings!PersistKeys \/ Settings!PersistOther \/ Settings!FlushSnapshots
         \/ \E seq \in 1 .. MaxSelects : Settings!PersistSelected(seq)
  PROVE  SetInv'
<1> USE DEF SetInv
<1>1. "layout" \in Settings!Fields /\ "selected" \in Settings!Fields
      /\ "keybinds" \in Settings!Fields /\ "other" \in Settings!Fields
  BY DEF Settings!Fields
<1>2. /\ kb \in Nat /\ others \in Nat /\ cfg["layout"] \in Nat
      /\ persistedSeq = cfg["selected"] /\ cfg["selected"] \in Nat
  BY <1>1 DEF SetType, SetValues, SetMemory
<1>3. ASSUME tx' \in SetTxs, UNCHANGED <<cfg, settingsFile, kb, keys, selects, edits>>,
             layoutPending' \in BOOLEAN, others' \in Nat
      PROVE  SetType'
  BY <1>3 DEF SetType
<1>4. CASE Settings!PersistKeys
  <2>1. /\ writeMu = "keys" /\ Settings!Snapshot("keys", "keybinds", kb)
        /\ UNCHANGED <<cfg, layoutPending, persistedSeq, settingsFile, kb, writeMu, keys,
                       selects, edits, others, queued, lost>>
    BY <1>4 DEF Settings!PersistKeys, Settings!config, Settings!user
  <2>2. layoutPending' \in BOOLEAN
    BY <2>1 DEF SetType
  <2>3. tx = Settings!NoTx /\ tx' \in SetTxs /\ SetWriter' /\ SetWrites' /\ SetQuiet'
    BY <1>1, <1>2, <2>1, <2>2, SetSnapshot
  <2>4. SetMemory'
    BY <2>1, <2>3, SetTxIsNone DEF SetMemory
  <2> QED BY <1>2, <1>3, <2>1, <2>2, <2>3, <2>4
<1>5. CASE Settings!PersistOther
  <2>1. /\ others' = others + 1 /\ Settings!Snapshot("other", "other", others + 1)
        /\ UNCHANGED <<cfg, layoutPending, persistedSeq, settingsFile, kb, writeMu, keys,
                       selects, edits, queued, lost>>
    BY <1>5 DEF Settings!PersistOther, Settings!config
  <2>2. layoutPending' \in BOOLEAN /\ others + 1 \in Nat
    BY <1>2, <2>1 DEF SetType
  <2>3. tx = Settings!NoTx /\ tx' \in SetTxs /\ SetWriter' /\ SetWrites' /\ SetQuiet'
    BY <1>1, <2>1, <2>2, SetSnapshot
  <2>4. SetMemory'
    BY <2>1, <2>3, SetTxIsNone DEF SetMemory
  <2> QED BY <1>3, <2>1, <2>2, <2>3, <2>4
<1>6. CASE Settings!FlushSnapshots
  <2>1. /\ writeMu = "free" /\ Settings!Snapshot("flush", "layout", cfg["layout"])
        /\ layoutPending' = FALSE /\ writeMu' = "flush"
        /\ UNCHANGED <<cfg, persistedSeq, settingsFile, kb, keys, selects, edits, others,
                       queued, lost>>
    BY <1>6 DEF Settings!FlushSnapshots, Settings!user
  <2>2. tx = Settings!NoTx /\ tx' \in SetTxs /\ SetWriter' /\ SetWrites' /\ SetQuiet'
    BY <1>1, <1>2, <2>1, SetSnapshot
  <2>3. SetMemory'
    BY <2>1, <2>2, SetTxIsNone DEF SetMemory
  <2>4. layoutPending' \in BOOLEAN /\ others' \in Nat
    BY <1>2, <2>1
  <2> QED BY <1>3, <2>1, <2>2, <2>3, <2>4
<1>7. ASSUME NEW seq \in 1 .. MaxSelects, Settings!PersistSelected(seq)
      PROVE  SetInv'
  <2>1. /\ tx = Settings!NoTx /\ writeMu = "free" /\ queued' = queued \ {seq}
        /\ UNCHANGED <<cfg, layoutPending, persistedSeq, settingsFile, kb, keys, selects,
                       edits, others, lost>>
    BY <1>7 DEF Settings!PersistSelected, Settings!config, Settings!user
  <2>2. seq \in Nat
    OBVIOUS
  <2>3. tx \notin SetTxs
    BY <2>1, SetTxIsNone
  <2>4. layoutPending' \in BOOLEAN /\ others' \in Nat
    BY <1>2, <2>1 DEF SetType
  <2>5. CASE seq >= persistedSeq /\ Settings!Snapshot("select", "selected", seq) /\ writeMu' = "select"
    <3>1. /\ tx' \in SetTxs /\ tx'.by = "select" /\ tx'.val = seq
          /\ SetWriter' /\ SetWrites' /\ SetQuiet'
      BY <1>1, <2>1, <2>2, <2>4, <2>5, SetSnapshot
    <3>2. SetMemory'
      BY <2>1, <2>3, <2>5, <3>1 DEF SetMemory
    <3> QED BY <1>3, <2>1, <2>4, <3>1, <3>2
  <2>6. CASE ~(seq >= persistedSeq) /\ UNCHANGED <<tx, writeMu>>
    <3>1. seq <= cfg["selected"]
      BY <1>2, <2>2, <2>6
    <3>2. SetType' /\ SetWriter' /\ SetWrites' /\ SetQuiet'
      BY <2>1, <2>6 DEF SetType, SetWriter, SetWrites, SetQuiet
    <3>3. SetMemory'
      BY <2>1, <2>3, <2>6, <3>1 DEF SetMemory
    <3> QED BY <3>2, <3>3
  <2> QED BY <1>7, <2>5, <2>6 DEF Settings!PersistSelected, Settings!IsNewest
<1> QED BY <1>4, <1>5, <1>6, <1>7

\* The file is written, or it is not (config.Save).
LEMMA SetSaves ==
  ASSUME SetInv, Settings!Saves
  PROVE  SetInv'
<1> USE DEF SetInv
<1>1. /\ tx \in SetTxs /\ tx.at = "saving"
      /\ \/ settingsFile' = tx.next /\ tx' = [tx EXCEPT !.at = "saved"]
         \/ tx' = [tx EXCEPT !.at = "failed"] /\ UNCHANGED settingsFile
      /\ UNCHANGED <<cfg, layoutPending, persistedSeq, kb, writeMu, keys, selects, edits, others,
                     queued, lost>>
  BY DEF Settings!Saves, Settings!config, Settings!user, SetType
<1>2. /\ tx' \in SetTxs /\ tx'.by = tx.by /\ tx'.field = tx.field /\ tx'.val = tx.val
      /\ tx'.next = tx.next /\ tx.next \in SetValues
      /\ \/ tx'.at = "saved" /\ settingsFile' = tx.next
         \/ tx'.at = "failed" /\ UNCHANGED settingsFile
  BY <1>1 DEF SetTxs
<1>3. SetType'
  BY <1>1, <1>2 DEF SetType
<1>4. SetWriter' /\ SetWrites'
  BY <1>1, <1>2 DEF SetWriter, SetWrites
<1>5. SetQuiet'
  BY <1>2, SetTxIsNone DEF SetQuiet
<1>6. SetMemory'
  BY <1>1, <1>2 DEF SetMemory
<1> QED BY <1>3, <1>4, <1>5, <1>6

\* The change is made once more to the configuration as it is now (persistCfg), or
\* the store takes its change back (AddTrigger's rollback).
LEMMA SetEnds ==
  ASSUME SetInv, Settings!Commits \/ Settings!GivesUp
  PROVE  SetInv'
<1> USE DEF SetInv
<1>1. /\ tx \in SetTxs /\ tx.by # "flush" /\ tx' = Settings!NoTx /\ tx' \notin SetTxs
      /\ writeMu' = (IF tx.by = "other" THEN writeMu ELSE "free")
      /\ UNCHANGED <<layoutPending, settingsFile, keys, selects, edits, others, queued>>
  BY SetTxIsNone DEF Settings!Commits, Settings!GivesUp, Settings!Release, SetType,
    Settings!config, Settings!user
<1>2. tx.field \in Settings!Fields /\ tx.val \in Nat /\ tx.by \in {"keys", "select", "other"}
      /\ tx.next \in SetValues
  BY <1>1 DEF SetTxs
<1>3. tx.field # "layout"
  BY <1>1, <1>2 DEF SetWriter
<1>4. "layout" \in Settings!Fields /\ "selected" \in Settings!Fields /\ "keybinds" \in Settings!Fields
  BY DEF Settings!Fields
<1>5. SetWriter' /\ SetWrites'
  BY <1>1 DEF SetWriter, SetWrites
<1>6. /\ kb \in Nat /\ cfg \in SetValues /\ cfg["keybinds"] \in Nat /\ selects \in Nat
      /\ cfg["selected"] \in Nat
  BY <1>4 DEF SetType, SetValues
<1>7. CASE Settings!Commits
  <2>1. /\ tx.at = "saved" /\ cfg' = [cfg EXCEPT ![tx.field] = tx.val]
        /\ persistedSeq' = (IF tx.by = "select" THEN tx.val ELSE persistedSeq)
        /\ UNCHANGED <<kb, lost>>
    BY <1>7 DEF Settings!Commits, Settings!Reapplies
  <2>2. /\ cfg' \in SetValues
        /\ \A f \in Settings!Fields : cfg'[f] = IF f = tx.field THEN tx.val ELSE cfg[f]
    BY <1>2, <1>6, <2>1 DEF SetValues
  <2>3. SetType'
    BY <1>1, <2>1, <2>2 DEF SetType
  <2>4. SetQuiet'
    BY <1>1, <1>3, <2>1, <2>2 DEF SetQuiet, SetWrites
  <2>5. /\ cfg'["layout"] = edits' /\ persistedSeq' = cfg'["selected"]
        /\ (writeMu' # "keys" => kb' = cfg'["keybinds"])
    BY <1>1, <1>2, <1>3, <1>4, <2>1, <2>2 DEF SetMemory, SetWriter
  <2>6. ASSUME NEW seq \in 1 .. selects
        PROVE  seq \in queued \cup lost \/ seq <= cfg'["selected"]
    <3>1. tx.by = "select" => cfg'["selected"] = tx.val /\ tx.val >= cfg["selected"]
      BY <1>1, <1>4, <2>2 DEF SetMemory, SetWriter
    <3>2. tx.by # "select" => cfg'["selected"] = cfg["selected"]
      BY <1>1, <1>2, <1>4, <2>2 DEF SetWriter
    <3>3. \/ seq \in queued \cup lost \/ seq <= cfg["selected"]
          \/ tx.by = "select" /\ tx.val = seq
      BY DEF SetMemory
    <3> QED BY <1>2, <1>6, <3>1, <3>2, <3>3
  <2> QED BY <1>1, <1>5, <2>1, <2>3, <2>4, <2>5, <2>6 DEF SetMemory
<1>8. CASE Settings!GivesUp
  <2>1. /\ tx.at = "failed" /\ kb' = (IF tx.by = "keys" THEN cfg["keybinds"] ELSE kb)
        /\ lost' = (IF tx.by = "select" THEN lost \cup {tx.val} ELSE lost)
        /\ UNCHANGED <<cfg, persistedSeq>>
    BY <1>8 DEF Settings!GivesUp, Settings!RollsBack, Settings!config
  <2>2. SetType'
    BY <1>1, <1>6, <2>1 DEF SetType
  <2>3. SetQuiet'
    BY <1>1, <2>1 DEF SetQuiet, SetWrites
  <2>4. SetMemory'
    BY <1>1, <1>2, <2>1 DEF SetMemory, SetWriter
  <2> QED BY <1>5, <2>2, <2>3, <2>4
<1> QED BY <1>7, <1>8

\* A flush that failed leaves the layout to be flushed (flushConfig).
LEMMA SetFlushes ==
  ASSUME SetInv, Settings!FlushLooks \/ Settings!FlushEnds
  PROVE  SetInv'
<1> USE DEF SetInv
<1>1. CASE Settings!FlushLooks
  <2>1. UNCHANGED <<cfg, layoutPending, persistedSeq, settingsFile, kb, writeMu, tx, keys,
                    selects, edits, others, queued, lost>>
    BY <1>1 DEF Settings!FlushLooks, Settings!config, Settings!user
  <2> QED BY <2>1 DEF SetType, SetWriter, SetWrites, SetQuiet, SetMemory
<1>2. CASE Settings!FlushEnds
  <2>1. /\ tx \in SetTxs /\ tx.by = "flush" /\ tx.at # "saving"
        /\ layoutPending' = (tx.at = "failed" \/ layoutPending)
        /\ tx' = Settings!NoTx /\ tx' \notin SetTxs /\ writeMu' = "free"
        /\ UNCHANGED <<cfg, persistedSeq, settingsFile, kb, keys, selects, edits, others,
                       queued, lost>>
    BY <1>2, SetTxIsNone DEF Settings!FlushEnds, Settings!Restores, Settings!Release, SetType,
      Settings!user
  <2>2. tx.field = "layout" /\ writeMu = "flush" /\ tx.at \in {"saved", "failed"}
        /\ layoutPending \in BOOLEAN
    BY <2>1 DEF SetWriter, SetTxs, SetType
  <2>3. SetType'
    BY <2>1, <2>2 DEF SetType
  <2>4. SetQuiet'
    BY <2>1, <2>2 DEF SetQuiet, SetWrites
  <2>5. SetMemory'
    BY <2>1, <2>2 DEF SetMemory
  <2> QED BY <2>1, <2>3, <2>4, <2>5 DEF SetWriter, SetWrites
<1> QED BY <1>1, <1>2

\* Every step of the configuration keeps the invariant.
LEMMA SetPreserved ==
  ASSUME SetInv, [Settings!Next]_settingsVars
  PROVE  SetInv'
<1>1. CASE UNCHANGED settingsVars
  BY <1>1 DEF settingsVars, SetInv, SetType, SetWriter, SetWrites, SetQuiet, SetMemory
<1> QED BY <1>1, SetRequests, SetBegins, SetSaves, SetEnds, SetFlushes DEF Settings!Next

\* Between two writes memory, disk and store agree, and the newest selection is on
\* file.
LEMMA SetInvImplies == SetInv => Settings!SettingsAreKept
<1> SUFFICES ASSUME SetInv PROVE Settings!SettingsAreKept
  OBVIOUS
<1> USE DEF SetInv
<1>1. tx = Settings!NoTx => tx \notin SetTxs
  BY SetTxIsNone
<1>2. "layout" \in Settings!Fields /\ "selected" \in Settings!Fields /\ "keybinds" \in Settings!Fields
  BY DEF Settings!Fields
<1>3. tx = Settings!NoTx =>
        cfg["selected"] = settingsFile["selected"] /\ cfg["keybinds"] = settingsFile["keybinds"]
  BY <1>2 DEF SetQuiet
<1>4. Settings!FileFollowsMemory
  BY <1>3 DEF Settings!FileFollowsMemory, SetMemory, SetQuiet
<1>5. Settings!NewestSelectionIsKept
  BY <1>1, <1>3 DEF Settings!NewestSelectionIsKept, SetMemory
<1> QED BY <1>4, <1>5 DEF Settings!SettingsAreKept

(***************************************************************************)
(* The windows                                                             *)
(***************************************************************************)

WinReads == [id : WindowIds, of : Nat \ {0}, g : Nat]
WinType ==
  /\ handles \in Nat /\ moves \in Nat /\ windowsOwed \in Nat
  /\ open \in [WindowIds -> Nat]
  /\ wplace \in [WindowIds -> Nat] /\ geom \in [WindowIds -> Nat]
  /\ settling \subseteq WinReads /\ closing \subseteq WinReads /\ placing \subseteq WinReads

\* Handles are given in order, one to one window.
WinHandles ==
  /\ \A i \in WindowIds : open[i] <= handles
  /\ \A i, j \in WindowIds : open[i] = open[j] /\ open[i] # 0 => i = j
  /\ \A s \in settling \cup placing : s.of <= handles
  /\ \A t \in timers : t \in Nat \ {0} /\ t <= handles

\* One copy is written at a time; what is not on file is still to be written.
WinFile ==
  /\ \A m, n \in clones : m = n
  /\ clones = {} => windowsFile = geom \/ windowsOwed > 0 \/ placing # {} \/ unsaved
  /\ \A m \in clones : m = geom \/ windowsOwed > 0 \/ placing # {}

\* What the last settle of an open window has read is where it is.
WinRead ==
  \A s \in settling :
    /\ s.of = open[s.id] /\ s.of \notin timers => s.g = wplace[s.id]
    /\ \A t \in settling : t.id = s.id /\ t.of = s.of => t = s

\* What a Close has read is where the window is, and what nobody has still to read
\* or to move is recorded.
WinPlaced(i) ==
  /\ \A c \in closing : c.id = i =>
       /\ open[i] = 0 /\ c.g = wplace[i]
       /\ \A d \in closing : d.id = i => d = c
  /\ \/ geom[i] = wplace[i]
     \/ open[i] \in timers
     \/ \E s \in settling \cup placing : s.id = i /\ s.of = open[i]
     \/ \E c \in closing : c.id = i
WinPlace == \A i \in WindowIds \ overtaken : WinPlaced(i)

WinInv == WinType /\ WinHandles /\ WinFile /\ WinRead /\ WinPlace

\* At the start every window is closed and where windows.json says.
LEMMA WinInitial == Windows!Init => WinInv
  BY DEF Windows!Init, Windows!Closed, WinInv, WinType, WinHandles, WinFile, WinRead,
     WinPlace, WinPlaced

\* A window is opened at its recorded place, under a handle of its own (Open).
LEMMA WinOpens ==
  ASSUME WinInv, NEW i \in WindowIds, Windows!Open(i)
  PROVE  WinInv'
<1> USE DEF WinInv
<1>1. /\ open[i] = 0 /\ handles' = handles + 1
      /\ open' = [open EXCEPT ![i] = handles + 1]
      /\ wplace' = [wplace EXCEPT ![i] = geom[i]]
      /\ overtaken' = (IF Windows!Closing(i) THEN overtaken \cup {i} ELSE overtaken)
      /\ UNCHANGED <<geom, windowsFile, timers, settling, closing, placing, windowsOwed, clones,
                     moves, unsaved>>
  BY DEF Windows!Open, Windows!Closed, Windows!Overtakes
<1>2. /\ open'[i] = handles + 1 /\ wplace'[i] = geom[i]
      /\ \A j \in WindowIds : j # i => open'[j] = open[j] /\ wplace'[j] = wplace[j]
  BY <1>1 DEF WinType
<1>3. WinType'
  BY <1>1 DEF WinType
<1>4. WinHandles'
  <2>1. handles \in Nat /\ (\A j \in WindowIds : open[j] \in Nat)
        /\ \A s \in settling \cup placing : s.of \in Nat
    BY DEF WinType, WinReads
  <2> QED BY <1>1, <1>2, <2>1 DEF WinHandles
<1>5. WinFile'
  BY <1>1 DEF WinFile
<1>6. WinRead'
  <2>1. \A s \in settling : s.id \in WindowIds /\ s.of \in Nat /\ s.of <= handles
    BY DEF WinType, WinReads, WinHandles
  <2> QED BY <1>1, <1>2, <2>1 DEF WinRead, WinType
<1>7. ASSUME NEW j \in WindowIds \ overtaken'
      PROVE  WinPlaced(j)'
  <2>1. CASE j = i
    <3>1. \A c \in closing : c.id # i
      BY <1>1, <1>7, <2>1 DEF Windows!Closing
    <3> QED BY <1>1, <1>2, <2>1, <3>1 DEF WinPlaced
  <2>2. CASE j # i
    <3>1. j \in WindowIds \ overtaken
      BY <1>1, <1>7
    <3> QED BY <1>1, <1>2, <2>2, <3>1 DEF WinPlace, WinPlaced
  <2> QED BY <2>1, <2>2
<1>8. WinPlace'
  BY <1>7 DEF WinPlace
<1> QED BY <1>3, <1>4, <1>5, <1>6, <1>8

\* A move of the user arms the timer of an open window (UserMoves).
LEMMA WinMoves ==
  ASSUME WinInv, NEW i \in WindowIds, Windows!UserMoves(i)
  PROVE  WinInv'
<1> USE DEF WinInv
<1>1. /\ open[i] # 0 /\ wplace' = [wplace EXCEPT ![i] = moves + 1]
      /\ moves' = moves + 1 /\ timers' = timers \cup {open[i]}
      /\ UNCHANGED <<open, handles, geom, windowsFile, settling, closing, placing, windowsOwed,
                     clones, unsaved, overtaken>>
  BY DEF Windows!UserMoves, Windows!Closed
<1>2. /\ moves \in Nat /\ open[i] \in Nat
      /\ \A j \in WindowIds : j # i => wplace'[j] = wplace[j]
  BY <1>1 DEF WinType
<1>3. WinType' /\ WinHandles' /\ WinFile'
  BY <1>1, <1>2 DEF WinType, WinHandles, WinFile
<1>4. WinRead'
  <2>1. \A s \in settling : s.id \in WindowIds
    BY DEF WinType, WinReads
  <2> QED BY <1>1, <1>2, <2>1 DEF WinRead
<1>5. ASSUME NEW j \in WindowIds \ overtaken
      PROVE  WinPlaced(j)'
  <2>1. CASE j = i
    BY <1>1, <1>5, <2>1 DEF WinPlace, WinPlaced
  <2>2. CASE j # i
    BY <1>1, <1>2, <1>5, <2>2 DEF WinPlace, WinPlaced
  <2> QED BY <2>1, <2>2
<1>6. WinPlace'
  BY <1>1, <1>5 DEF WinPlace
<1> QED BY <1>3, <1>4, <1>6

\* A profile records the place, and the place of an open window is still to be
\* taken up (SetGeometry).
LEMMA WinPlaces ==
  ASSUME WinInv, NEW i \in WindowIds, Windows!SetGeometry(i)
  PROVE  WinInv'
<1> USE DEF WinInv
<1> DEFINE placed == [id |-> i, of |-> open[i], g |-> moves + 1]
<1>1. /\ moves' = moves + 1 /\ geom' = [geom EXCEPT ![i] = moves + 1]
      /\ overtaken' = (IF Windows!Closing(i) THEN overtaken \cup {i} ELSE overtaken)
      /\ UNCHANGED <<open, handles, windowsFile, timers, settling, closing, clones, unsaved>>
      /\ \/ /\ open[i] = 0 /\ wplace' = [wplace EXCEPT ![i] = moves + 1]
            /\ windowsOwed' = windowsOwed + 1 /\ UNCHANGED placing
         \/ open[i] # 0 /\ placing' = placing \cup {placed} /\ UNCHANGED <<wplace, windowsOwed>>
  BY DEF Windows!SetGeometry, Windows!Closed, Windows!Overtakes
<1>2. /\ moves \in Nat /\ windowsOwed \in Nat /\ open[i] \in Nat
      /\ geom'[i] = moves + 1 /\ \A j \in WindowIds : j # i => geom'[j] = geom[j]
      /\ \A j \in WindowIds : j # i => wplace'[j] = wplace[j]
  BY <1>1 DEF WinType
<1>3. WinType'
  <2>1. open[i] # 0 => placed \in WinReads
    BY <1>2 DEF WinReads
  <2> QED BY <1>1, <1>2, <2>1 DEF WinType
<1>4. WinHandles'
  BY <1>1 DEF WinHandles
<1>5. WinFile'
  <2> HIDE DEF placed
  <2>1. windowsOwed' = windowsOwed + 1 \/ placed \in placing'
    BY <1>1
  <2>2. windowsOwed' > 0 \/ placing' # {}
    BY <1>2, <2>1
  <2> QED BY <1>1, <2>2 DEF WinFile
<1>6. WinRead'
  <2>1. \A s \in settling : s.id \in WindowIds /\ s.of # 0
    BY DEF WinType, WinReads
  <2> QED BY <1>1, <1>2, <2>1 DEF WinRead
<1>7. ASSUME NEW j \in WindowIds \ overtaken'
      PROVE  WinPlaced(j)'
  <2>1. j \in WindowIds \ overtaken
    BY <1>1, <1>7
  <2>2. CASE j = i
    <3>1. \A c \in closing : c.id # i
      BY <1>1, <1>7, <2>2 DEF Windows!Closing
    <3>2. CASE open[i] = 0
      BY <1>1, <1>2, <2>2, <3>1, <3>2 DEF WinPlaced, WinType
    <3>3. CASE open[i] # 0
      <4>1. placed \in placing' /\ placed.id = i /\ placed.of = open[i]
        BY <1>1, <3>3
      <4> QED BY <1>1, <2>2, <3>1, <4>1 DEF WinPlaced
    <3> QED BY <3>2, <3>3
  <2>3. CASE j # i
    <3>1. placing \subseteq placing'
      BY <1>1
    <3> QED BY <1>1, <1>2, <2>1, <2>3, <3>1 DEF WinPlace, WinPlaced
  <2> QED BY <2>2, <2>3
<1>8. WinPlace'
  BY <1>7 DEF WinPlace
<1> QED BY <1>3, <1>4, <1>5, <1>6, <1>8

\* A window that is still the one that was found is moved there and reports it;
\* another is left where it is (SetGeometry).
LEMMA WinSets ==
  ASSUME WinInv, NEW p \in placing, Windows!SetsBounds(p)
  PROVE  WinInv'
<1> USE DEF WinInv
<1>1. /\ placing' = placing \ {p} /\ windowsOwed' = windowsOwed + 1
      /\ UNCHANGED <<open, handles, geom, windowsFile, settling, closing, clones, moves, unsaved,
                     overtaken>>
      /\ IF open[p.id] = p.of
           THEN wplace' = [wplace EXCEPT ![p.id] = p.g] /\ timers' = timers \cup {p.of}
           ELSE UNCHANGED <<wplace, timers>>
  BY DEF Windows!SetsBounds
<1>2. /\ p.id \in WindowIds /\ p.of \in Nat \ {0} /\ p.g \in Nat /\ p.of <= handles
      /\ windowsOwed \in Nat /\ \A j \in WindowIds : j # p.id => wplace'[j] = wplace[j]
  BY <1>1 DEF WinType, WinReads, WinHandles
<1>3. WinType' /\ WinHandles' /\ WinFile'
  BY <1>1, <1>2 DEF WinType, WinHandles, WinFile
<1>4. WinRead'
  <2>1. \A s \in settling : s.id \in WindowIds
    BY DEF WinType, WinReads
  <2>2. \A s \in settling : s.of = open[s.id] /\ s.of \notin timers' =>
          s.of \notin timers /\ wplace'[s.id] = wplace[s.id]
    BY <1>1, <1>2, <2>1
  <2> QED BY <1>1, <2>2 DEF WinRead
<1>5. ASSUME NEW j \in WindowIds \ overtaken
      PROVE  WinPlaced(j)'
  <2>1. CASE j = p.id /\ open[j] = p.of
    <3>1. open[j] # 0 /\ open[j] \in timers'
      BY <1>1, <1>2, <2>1
    <3>2. \A c \in closing : c.id # j
      BY <1>5, <3>1 DEF WinPlace, WinPlaced
    <3> QED BY <1>1, <3>1, <3>2 DEF WinPlaced
  <2>2. CASE ~(j = p.id /\ open[j] = p.of)
    <3>1. wplace'[j] = wplace[j] /\ timers \subseteq timers'
      BY <1>1, <1>2, <1>5, <2>2
    <3>2. \A s \in settling \cup placing : s.id = j /\ s.of = open[j] => s \in settling' \cup placing'
      BY <1>1, <2>2
    <3> QED BY <1>1, <1>5, <3>1, <3>2 DEF WinPlace, WinPlaced
  <2> QED BY <2>1, <2>2
<1>6. WinPlace'
  BY <1>1, <1>5 DEF WinPlace
<1> QED BY <1>3, <1>4, <1>6

\* The timer or Close reads where the window is, before mu is taken; Close has
\* unregistered it (settleBounds, Close).
LEMMA WinReadsPlace ==
  ASSUME WinInv, NEW i \in WindowIds, Windows!ReadsBounds(i) \/ Windows!Unregisters(i)
  PROVE  WinInv'
<1> USE DEF WinInv
<1> DEFINE read == [id |-> i, of |-> open[i], g |-> wplace[i]]
<1>1. /\ timers' = timers \ {open[i]} /\ open[i] # 0
      /\ UNCHANGED <<wplace, handles, geom, windowsFile, placing, windowsOwed, clones, moves,
                     unsaved, overtaken>>
      /\ \/ /\ settling' = settling \cup {read} /\ UNCHANGED <<open, closing>>
            /\ \A s \in settling : ~(s.id = i /\ s.of = open[i])
         \/ /\ closing' = closing \cup {read} /\ UNCHANGED settling
            /\ open' = [open EXCEPT ![i] = 0]
  <2>1. open[i] \in timers => open[i] # 0
    BY DEF WinHandles
  <2> QED BY <2>1 DEF Windows!ReadsBounds, Windows!Unregisters, Windows!Closed, Windows!Settling,
            Windows!windows
<1>2. read \in WinReads /\ read.id = i /\ read.of = open[i] /\ read.g = wplace[i]
      /\ open[i] \in Nat
  BY <1>1 DEF WinType, WinReads
<1>3. \A j \in WindowIds : j # i => open'[j] = open[j] /\ (open[j] \in timers' <=> open[j] \in timers)
  BY <1>1 DEF WinHandles, WinType
<1>4. WinType'
  BY <1>1, <1>2 DEF WinType
<1>5. WinFile'
  BY <1>1 DEF WinFile
<1>6. CASE /\ settling' = settling \cup {read} /\ UNCHANGED <<open, closing>>
           /\ \A s \in settling : ~(s.id = i /\ s.of = open[i])
  <2>1. WinHandles'
    BY <1>1, <1>2, <1>6 DEF WinHandles
  <2>2. WinRead'
    <3>1. ASSUME NEW s \in settling'
          PROVE  /\ s.of = open[s.id] /\ s.of \notin timers' => s.g = wplace[s.id]
                 /\ \A t \in settling' : t.id = s.id /\ t.of = s.of => t = s
      <4>1. CASE s = read
        BY <1>2, <1>6, <4>1
      <4>2. CASE s # read
        <5>1. s \in settling /\ s.id \in WindowIds /\ ~(s.id = i /\ s.of = open[i])
          BY <1>6, <3>1, <4>2 DEF WinType, WinReads
        <5>2. s.of = open[s.id] /\ s.of \notin timers' => s.of \notin timers
          BY <1>3, <5>1
        <5> QED BY <1>2, <1>6, <5>1, <5>2 DEF WinRead
      <4> QED BY <4>1, <4>2
    <3> QED BY <1>1, <1>6, <3>1 DEF WinRead
  <2>3. ASSUME NEW j \in WindowIds \ overtaken
        PROVE  WinPlaced(j)'
    <3>1. CASE j = i
      <4>1. \E s \in settling' : s.id = i /\ s.of = open[i]
        BY <1>2, <1>6
      <4> QED BY <1>1, <1>6, <2>3, <3>1, <4>1 DEF WinPlace, WinPlaced
    <3>2. CASE j # i
      BY <1>1, <1>2, <1>3, <1>6, <2>3, <3>2 DEF WinPlace, WinPlaced
    <3> QED BY <3>1, <3>2
  <2>4. WinPlace'
    BY <1>1, <2>3 DEF WinPlace
  <2> QED BY <1>4, <1>5, <2>1, <2>2, <2>4
<1>7. CASE /\ closing' = closing \cup {read} /\ UNCHANGED settling
           /\ open' = [open EXCEPT ![i] = 0]
  <2>1. open'[i] = 0
    BY <1>7 DEF WinType
  <2>2. WinHandles'
    BY <1>1, <1>3, <1>7, <2>1 DEF WinHandles, WinType
  <2>3. WinRead'
    <3>1. \A s \in settling : s.id \in WindowIds /\ s.of # 0
      BY DEF WinType, WinReads
    <3>2. \A s \in settling : s.of = open'[s.id] /\ s.of \notin timers' =>
            s.of = open[s.id] /\ s.of \notin timers
      BY <1>3, <2>1, <3>1
    <3> QED BY <1>1, <1>7, <3>2 DEF WinRead
  <2>4. ASSUME NEW j \in WindowIds \ overtaken
        PROVE  WinPlaced(j)'
    <3>1. CASE j = i
      <4>1. \A c \in closing : c.id # i
        BY <1>1, <2>4, <3>1 DEF WinPlace, WinPlaced
      <4>2. read \in closing' /\ \A c \in closing' : c.id = i => c = read
        BY <1>7, <4>1
      <4> QED BY <1>1, <1>2, <2>1, <3>1, <4>2 DEF WinPlaced
    <3>2. CASE j # i
      <4>1. \A c \in closing' : c.id = j => c \in closing
        BY <1>2, <1>7, <3>2
      <4> QED BY <1>1, <1>3, <1>7, <2>4, <3>2, <4>1 DEF WinPlace, WinPlaced
    <3> QED BY <3>1, <3>2
  <2>5. WinPlace'
    BY <1>1, <2>4 DEF WinPlace
  <2> QED BY <1>4, <1>5, <2>2, <2>3, <2>5
<1> QED BY <1>1, <1>6, <1>7

\* What was read is recorded, unless the handle has been closed (settleBounds'
\* look at it under mu).
LEMMA WinSettles ==
  ASSUME WinInv, NEW s \in settling, Windows!Settles(s)
  PROVE  WinInv'
<1> USE DEF WinInv
<1>1. /\ settling' = settling \ {s}
      /\ UNCHANGED <<open, wplace, handles, windowsFile, timers, closing, placing, clones, moves,
                     unsaved>>
      /\ \/ /\ open[s.id] = s.of /\ geom' = [geom EXCEPT ![s.id] = s.g]
            /\ windowsOwed' = windowsOwed + 1
            /\ overtaken' = (IF Windows!Closing(s.id) THEN overtaken ELSE overtaken \ {s.id})
         \/ open[s.id] # s.of /\ UNCHANGED <<geom, windowsOwed, overtaken>>
  BY DEF Windows!Settles, Windows!IsOpenHandle, Windows!windows
<1>2. s.id \in WindowIds /\ s.g \in Nat /\ s.of # 0 /\ windowsOwed \in Nat
  BY DEF WinType, WinReads
<1>3. \A j \in WindowIds : j # s.id => geom'[j] = geom[j]
  BY <1>1 DEF WinType
<1>4. open[s.id] = s.of => geom'[s.id] = s.g
  BY <1>1, <1>2 DEF WinType
<1>5. WinType'
  BY <1>1, <1>2 DEF WinType
<1>6. WinHandles' /\ WinFile'
  BY <1>1, <1>2 DEF WinHandles, WinFile
<1>7. WinRead'
  BY <1>1 DEF WinRead
<1>8. ASSUME NEW j \in WindowIds \ overtaken'
      PROVE  WinPlaced(j)'
  <2>1. CASE j = s.id /\ open[j] = s.of
    <3>1. s.of \in timers \/ geom'[j] = wplace[j]
      BY <1>4, <2>1 DEF WinRead
    <3>2. \A c \in closing : c.id # j
      <4>1. CASE j \in overtaken
        BY <1>1, <1>8, <2>1, <4>1 DEF Windows!Closing
      <4>2. CASE j \notin overtaken
        BY <1>2, <1>8, <2>1, <4>2 DEF WinPlace, WinPlaced
      <4> QED BY <4>1, <4>2
    <3> QED BY <1>1, <2>1, <3>1, <3>2 DEF WinPlaced
  <2>2. CASE j # s.id \/ open[j] # s.of
    <3>1. geom'[j] = geom[j] /\ j \notin overtaken
      BY <1>1, <1>3, <1>8, <2>2
    <3>2. \A t \in settling : t.id = j /\ t.of = open[j] => t \in settling'
      BY <1>1, <2>2
    <3> QED BY <1>1, <1>8, <3>1, <3>2 DEF WinPlace, WinPlaced
  <2> QED BY <2>1, <2>2
<1>9. WinPlace'
  BY <1>8 DEF WinPlace
<1> QED BY <1>5, <1>6, <1>7, <1>9

\* Close records what it has read (Close).
LEMMA WinRecords ==
  ASSUME WinInv, NEW c \in closing, Windows!Records(c)
  PROVE  WinInv'
<1> USE DEF WinInv
<1>1. /\ closing' = closing \ {c} /\ geom' = [geom EXCEPT ![c.id] = c.g]
      /\ windowsOwed' = windowsOwed + 1
      /\ UNCHANGED <<open, wplace, handles, windowsFile, timers, settling, placing, clones, moves,
                     unsaved, overtaken>>
  BY DEF Windows!Records, Windows!windows
<1>2. c.id \in WindowIds /\ c.g \in Nat /\ windowsOwed \in Nat
  BY DEF WinType, WinReads
<1>3. geom'[c.id] = c.g /\ \A j \in WindowIds : j # c.id => geom'[j] = geom[j]
  BY <1>1, <1>2 DEF WinType
<1>4. WinType'
  BY <1>1, <1>2 DEF WinType
<1>5. WinHandles' /\ WinFile'
  BY <1>1, <1>2 DEF WinHandles, WinFile
<1>6. WinRead'
  BY <1>1 DEF WinRead
<1>7. ASSUME NEW j \in WindowIds \ overtaken
      PROVE  WinPlaced(j)'
  <2>1. CASE j = c.id
    <3>1. c.g = wplace[j]
      BY <1>7, <2>1 DEF WinPlace, WinPlaced
    <3> QED BY <1>1, <1>3, <1>7, <2>1, <3>1 DEF WinPlace, WinPlaced
  <2>2. CASE j # c.id
    BY <1>1, <1>3, <1>7, <2>2 DEF WinPlace, WinPlaced
  <2> QED BY <2>1, <2>2
<1>8. WinPlace'
  BY <1>1, <1>7 DEF WinPlace
<1> QED BY <1>4, <1>5, <1>6, <1>8

\* One copy of the places is made and written at a time (persist).
LEMMA WinPersists ==
  ASSUME WinInv, Windows!Clones \/ \E m \in clones : Windows!Writes(m)
  PROVE  WinInv'
<1> USE DEF WinInv
<1>1. UNCHANGED <<open, wplace, handles, geom, timers, settling, closing, placing, moves,
                  overtaken>>
  BY DEF Windows!Clones, Windows!Writes, Windows!windows
<1>2. windowsOwed \in Nat
  BY DEF WinType
<1>3. WinHandles' /\ WinRead' /\ WinPlace'
  BY <1>1 DEF WinHandles, WinRead, WinPlace, WinPlaced
<1>4. CASE Windows!Clones
  <2>1. /\ windowsOwed > 0 /\ clones = {} /\ windowsOwed' = windowsOwed - 1
        /\ clones' = clones \cup {geom}
    BY <1>4 DEF Windows!Clones, Windows!SaveMuFree
  <2> QED BY <1>1, <1>2, <1>3, <2>1 DEF WinType, WinFile
<1>5. ASSUME NEW m \in clones, Windows!Writes(m)
      PROVE  WinInv'
  <2>1. /\ clones' = clones \ {m} /\ UNCHANGED windowsOwed
        /\ (windowsFile' = m \/ unsaved' = TRUE)
    BY <1>5 DEF Windows!Writes
  <2> QED BY <1>1, <1>2, <1>3, <2>1 DEF WinType, WinFile
<1> QED BY <1>4, <1>5

\* Every step of the windows keeps the invariant.
LEMMA WinPreserved ==
  ASSUME WinInv, [Windows!Next]_windowsVars
  PROVE  WinInv'
<1>1. CASE UNCHANGED windowsVars
  BY <1>1 DEF windowsVars, WinInv, WinType, WinHandles, WinFile, WinRead,
     WinPlace, WinPlaced
<1> QED BY <1>1, WinOpens, WinMoves, WinPlaces, WinSets, WinReadsPlace, WinSettles, WinRecords, WinPersists
        DEF Windows!Next

\* Where nothing is under way any more, the file has the place of the window.
LEMMA WinInvImplies == WinInv => Windows!PlaceIsKept
<1> SUFFICES ASSUME WinInv, NEW i \in WindowIds, Windows!Settled(i), i \notin overtaken
             PROVE  windowsFile[i] = wplace[i]
  BY DEF Windows!PlaceIsKept
<1>1. windowsFile = geom
  BY DEF WinInv, WinFile, Windows!Settled
<1>2. geom[i] = wplace[i]
  BY DEF WinInv, WinPlace, WinPlaced, Windows!Settled, Windows!Closing
<1> QED BY <1>1, <1>2

(***************************************************************************)
(* The shipped profiles                                                    *)
(***************************************************************************)

BuiltBodies == 0 .. LastVersion + 1
BuiltType ==
  /\ shipped \in 1 .. LastVersion /\ next \in Nat
  /\ profileFile \in [Builtin!Profiles -> BuiltBodies]
  /\ recorded \in [Builtin!Profiles -> 0 .. LastVersion]
  /\ results \in [Builtin!Profiles -> 0 .. LastVersion]
  /\ users \in [Builtin!Profiles -> 0 .. LastVersion + 2]
  /\ wrote \in [Builtin!Profiles -> SUBSET (1 .. LastVersion)]
  /\ seedPhase \in {"down", "seeding", "recording", "up"}

\* Results come with a start, one profile after the other, and go into the record.
BuiltResults ==
  /\ seedPhase = "down" => \A p \in Builtin!Profiles : results[p] = 0
  /\ seedPhase = "seeding" => \A p \in Builtin!Profiles : p >= next => results[p] = 0
  /\ seedPhase = "up" => Builtin!Written = {}

\* What a start has written is shipped, and nobody's but the client's.
BuiltWritten ==
  \A p \in Builtin!Written :
    results[p] = shipped /\ profileFile[p] = shipped /\ users[p] = Builtin!Nobody
    /\ shipped \in wrote[p]

\* What is the user's is not what is recorded.
BuiltUsers ==
  \A p \in Builtin!Profiles :
    users[p] # Builtin!Nobody /\ recorded[p] # 0 => users[p] # recorded[p]

\* What is nobody's is recorded, or is about to be.
BuiltClean ==
  \A p \in Builtin!Profiles \ unsure :
    users[p] = Builtin!Nobody => profileFile[p] = recorded[p] \/ p \in Builtin!Written

\* A start leaves what is nobody's current behind it.
BuiltCurrent ==
  \A p \in Builtin!Profiles \ (unsure \cup spared) :
    /\ seedPhase \in {"recording", "up"} \/ (seedPhase = "seeding" /\ p < next)
    /\ users[p] = Builtin!Nobody
    => profileFile[p] = shipped

BuiltInv ==
  /\ BuiltType /\ BuiltResults /\ BuiltWritten /\ BuiltUsers /\ BuiltClean /\ BuiltCurrent
  /\ Builtin!UserIsRespected /\ Builtin!RecordIsProof

\* The first start finds the folder as the user left it.
LEMMA BuiltInitial == Builtin!Init => BuiltInv
<1> SUFFICES ASSUME Builtin!Init PROVE BuiltInv
  OBVIOUS
<1> USE DEF Builtin!Init
<1>1. LastVersion \in Nat \ {0}
  BY BuiltinBounds DEF Builtin!BuiltinsAssumption
<1>2. \A p \in Builtin!Profiles : recorded[p] = 0 /\ results[p] = 0 /\ wrote[p] = {}
        /\ profileFile[p] \in {0, LastVersion + 1}
        /\ users[p] = IF profileFile[p] = LastVersion + 1 THEN LastVersion + 1 ELSE LastVersion + 2
  BY <1>1 DEF Builtin!NoResults, Builtin!NoRecord, Builtin!Missing, Builtin!Own, Builtin!Nobody
<1>3. BuiltType
  BY <1>1 DEF BuiltType, BuiltBodies, Builtin!NoResults, Builtin!NoRecord, Builtin!Missing,
    Builtin!Own, Builtin!Nobody
<1>4. Builtin!Written = {}
  BY <1>2 DEF Builtin!Written
<1>5. BuiltResults /\ BuiltWritten /\ BuiltUsers /\ BuiltCurrent
  BY <1>2, <1>4 DEF BuiltResults, BuiltWritten, BuiltUsers, BuiltCurrent
<1>6. BuiltClean
  BY <1>1, <1>2 DEF BuiltClean, Builtin!Nobody, Builtin!Own
<1>7. Builtin!UserIsRespected
  BY <1>1, <1>2 DEF Builtin!UserIsRespected, Builtin!Nobody, Builtin!Own, Builtin!Forgotten,
    Builtin!NoRecord, Builtin!Missing
<1>8. Builtin!RecordIsProof
  BY <1>2 DEF Builtin!RecordIsProof, Builtin!NoRecord
<1> QED BY <1>3, <1>5, <1>6, <1>7, <1>8 DEF BuiltInv

\* What the user makes of a file between two starts is his, unless he puts back
\* what is recorded.
LEMMA BuiltUserLeaves ==
  ASSUME BuiltInv, NEW p \in Builtin!Profiles,
         Builtin!Delete(p) \/ \E c \in Builtin!Bodies : Builtin!Edit(p, c)
  PROVE  BuiltInv'
<1> USE DEF BuiltInv
<1>1. LastVersion \in Nat \ {0}
  BY BuiltinBounds DEF Builtin!BuiltinsAssumption
<1>2. PICK c \in BuiltBodies : Builtin!Leaves(p, c) /\ seedPhase \in {"down", "up"}
  BY <1>1 DEF Builtin!Delete, Builtin!Edit, Builtin!Bodies, BuiltBodies, Builtin!Missing,
    Builtin!Own, Builtin!Quiet
<1>3. /\ profileFile' = [profileFile EXCEPT ![p] = c]
      /\ users' = [users EXCEPT ![p] = IF c # 0 /\ c = recorded[p] THEN LastVersion + 2 ELSE c]
      /\ spared' = spared \cup {p}
      /\ UNCHANGED <<recorded, seedPhase, next, results, shipped, wrote, unsure>>
  BY <1>1, <1>2 DEF Builtin!Leaves, Builtin!Missing, Builtin!Nobody, Builtin!Own
<1>4. Builtin!Written = {}
  BY <1>2 DEF BuiltResults, Builtin!Written, Builtin!NoRecord
<1>5. Builtin!Written' = {}
  BY <1>3, <1>4 DEF Builtin!Written
<1>6. /\ profileFile'[p] = c
      /\ users'[p] = IF c # 0 /\ c = recorded[p] THEN LastVersion + 2 ELSE c
      /\ \A q \in Builtin!Profiles : q # p =>
           profileFile'[q] = profileFile[q] /\ users'[q] = users[q]
  BY <1>3 DEF BuiltType
<1>7. BuiltType'
  BY <1>1, <1>3 DEF BuiltType, BuiltBodies
<1>8. BuiltResults' /\ BuiltWritten' /\ Builtin!RecordIsProof'
  BY <1>3, <1>5 DEF BuiltResults, BuiltWritten, Builtin!RecordIsProof
<1>9. BuiltUsers' /\ BuiltClean' /\ BuiltCurrent'
  BY <1>1, <1>3, <1>4, <1>5, <1>6 DEF BuiltUsers, BuiltClean, BuiltCurrent, BuiltBodies,
    Builtin!Nobody, Builtin!Own
<1>10. Builtin!UserIsRespected'
  <2>1. Builtin!Nobody = LastVersion + 2
    BY <1>1 DEF Builtin!Nobody, Builtin!Own
  <2>2. \A q \in Builtin!Profiles : q # p =>
          (Builtin!Forgotten(q) => users'[q] = 0 /\ recorded'[q] = 0)
    BY <1>3, <1>6 DEF Builtin!Forgotten, Builtin!NoRecord, Builtin!Missing
  <2> QED BY <1>3, <1>6, <2>1, <2>2 DEF Builtin!UserIsRespected, Builtin!Forgotten,
          Builtin!NoRecord, Builtin!Missing
<1> QED BY <1>7, <1>8, <1>9, <1>10

\* A start leaves a file alone that is the user's, current, or cannot be read or
\* written (Seed).
LEMMA BuiltSeedPasses ==
  ASSUME BuiltInv, Builtin!SeedLeaves \/ Builtin!SeedFails
  PROVE  BuiltInv'
<1> USE DEF BuiltInv
<1>1. /\ seedPhase = "seeding" /\ next \in Builtin!Profiles /\ next' = next + 1
      /\ UNCHANGED <<recorded, seedPhase, shipped, unsure, profileFile, users, wrote>>
  BY DEF Builtin!SeedLeaves, Builtin!SeedFails, Builtin!Moved
<1>2. /\ next \in Nat /\ results[next] = 0
      /\ recorded[next] \in Nat
  BY <1>1 DEF BuiltResults, BuiltType
<1>3. \/ results' = [results EXCEPT ![next] = recorded[next]] \/ UNCHANGED results
  BY DEF Builtin!SeedLeaves, Builtin!SeedFails
<1>4. \A p \in Builtin!Profiles : p # next => results'[p] = results[p]
  BY <1>3 DEF BuiltType
<1>5. results'[next] \in {0, recorded[next]}
  BY <1>1, <1>2, <1>3 DEF BuiltType
<1>6. Builtin!Written' = Builtin!Written /\ next \notin Builtin!Written
  BY <1>1, <1>2, <1>4, <1>5 DEF Builtin!Written, Builtin!NoRecord
<1>7. BuiltType'
  BY <1>1, <1>2, <1>3 DEF BuiltType
<1>8. BuiltResults'
  BY <1>1, <1>2, <1>4 DEF BuiltResults, Builtin!Profiles
<1>9. BuiltWritten'
  <2>1. \A p \in Builtin!Written : p \in Builtin!Profiles /\ p # next
    BY <1>6 DEF Builtin!Written
  <2> QED BY <1>1, <1>4, <1>6, <2>1 DEF BuiltWritten, Builtin!Nobody
<1>10. BuiltUsers' /\ BuiltClean' /\ Builtin!RecordIsProof'
  BY <1>1, <1>6 DEF BuiltUsers, BuiltClean, Builtin!RecordIsProof
<1>11. Builtin!UserIsRespected'
  BY <1>1 DEF Builtin!UserIsRespected, Builtin!Forgotten
<1>12. CASE Builtin!SeedFails
  <2>1. spared' = spared \cup {next}
    BY <1>12 DEF Builtin!SeedFails
  <2>2. BuiltCurrent'
    BY <1>1, <1>2, <2>1 DEF BuiltCurrent, Builtin!Profiles
  <2> QED BY <1>7, <1>8, <1>9, <1>10, <1>11, <2>2
<1>13. CASE Builtin!SeedLeaves
  <2>1. ~Builtin!Writes(next) /\ UNCHANGED spared
    BY <1>13 DEF Builtin!SeedLeaves
  <2>2. next \notin unsure /\ users[next] = Builtin!Nobody => profileFile[next] = shipped
    BY <1>1, <1>6, <2>1 DEF BuiltClean, Builtin!Writes, Builtin!NoRecord, Builtin!Missing
  <2>3. BuiltCurrent'
    BY <1>1, <1>2, <2>1, <2>2 DEF BuiltCurrent, Builtin!Profiles
  <2> QED BY <1>7, <1>8, <1>9, <1>10, <1>11, <2>3
<1> QED BY <1>12, <1>13

\* A start writes what nobody has touched, or nobody has yet seen (Seed).
LEMMA BuiltSeedWrites ==
  ASSUME BuiltInv, Builtin!SeedWrites
  PROVE  BuiltInv'
<1> USE DEF BuiltInv
<1>1. /\ seedPhase = "seeding" /\ next \in Builtin!Profiles /\ next' = next + 1
      /\ Builtin!Writes(next)
      /\ profileFile' = [profileFile EXCEPT ![next] = shipped]
      /\ wrote' = [wrote EXCEPT ![next] = @ \cup {shipped}]
      /\ results' = [results EXCEPT ![next] = shipped]
      /\ users' = [users EXCEPT ![next] = IF Builtin!Forgotten(next) THEN Builtin!Nobody ELSE @]
      /\ UNCHANGED <<recorded, seedPhase, shipped, unsure, spared>>
  BY DEF Builtin!SeedWrites, Builtin!Moved
<1>2. /\ next \in Nat /\ results[next] = 0 /\ shipped \in 1 .. LastVersion
      /\ LastVersion \in Nat \ {0}
  BY <1>1, BuiltinBounds DEF BuiltResults, BuiltType, Builtin!BuiltinsAssumption
<1>3. \A p \in Builtin!Profiles : p # next =>
        /\ results'[p] = results[p] /\ profileFile'[p] = profileFile[p]
        /\ wrote'[p] = wrote[p] /\ users'[p] = users[p]
  BY <1>1 DEF BuiltType
<1>4. /\ results'[next] = shipped /\ profileFile'[next] = shipped
      /\ wrote'[next] = wrote[next] \cup {shipped}
  BY <1>1 DEF BuiltType
<1>5. users[next] = Builtin!Nobody \/ Builtin!Forgotten(next)
  BY <1>1 DEF Builtin!UserIsRespected, Builtin!Writes, BuiltUsers, Builtin!NoRecord,
    Builtin!Missing, Builtin!Forgotten
<1>6. users'[next] = Builtin!Nobody
  BY <1>1, <1>5 DEF BuiltType
<1>7. recorded[next] # shipped
  BY <1>1, <1>2 DEF Builtin!Writes, Builtin!NoRecord
<1>8. Builtin!Written' = Builtin!Written \cup {next}
  BY <1>1, <1>2, <1>3, <1>4, <1>7 DEF Builtin!Written, Builtin!NoRecord
<1>9. BuiltType'
  BY <1>1, <1>2 DEF BuiltType, BuiltBodies, Builtin!Nobody, Builtin!Own
<1>10. BuiltResults'
  BY <1>1, <1>2, <1>3 DEF BuiltResults, Builtin!Profiles
<1>11. BuiltWritten'
  <2>1. Builtin!Nobody' = Builtin!Nobody
    BY DEF Builtin!Nobody
  <2>2. \A p \in Builtin!Written' : p \in Builtin!Profiles /\ (p # next => p \in Builtin!Written)
    BY <1>1, <1>8 DEF Builtin!Written
  <2> QED BY <1>1, <1>3, <1>4, <1>6, <2>1, <2>2 DEF BuiltWritten
<1>12. BuiltUsers' /\ BuiltClean' /\ BuiltCurrent'
  BY <1>1, <1>2, <1>3, <1>4, <1>6, <1>8 DEF BuiltUsers, BuiltClean, BuiltCurrent,
    Builtin!Profiles
<1>13. Builtin!UserIsRespected'
  BY <1>1, <1>3, <1>6 DEF Builtin!UserIsRespected, Builtin!Forgotten
<1>14. Builtin!RecordIsProof'
  BY <1>1, <1>3, <1>4 DEF Builtin!RecordIsProof
<1> QED BY <1>9, <1>10, <1>11, <1>12, <1>13, <1>14

\* A start begins, has been through the profiles, and keeps its record or loses it
\* (SeedBuiltinProfiles).
LEMMA BuiltStarts ==
  ASSUME BuiltInv,
         \/ Builtin!Upgrade \/ Builtin!Start \/ Builtin!Seeded \/ Builtin!RecordFails
         \/ Builtin!Stops
  PROVE  BuiltInv'
<1> USE DEF BuiltInv
<1>1. UNCHANGED <<profileFile, users, wrote, recorded>>
  BY DEF Builtin!Upgrade, Builtin!Start, Builtin!Seeded, Builtin!RecordFails, Builtin!Stops,
    Builtin!Over, Builtin!user
<1>2. LastVersion \in Nat \ {0} /\ MaxProfile \in Nat
  BY BuiltinBounds DEF Builtin!BuiltinsAssumption
<1>3. BuiltUsers' /\ Builtin!RecordIsProof' /\ Builtin!UserIsRespected'
  BY <1>1 DEF BuiltUsers, Builtin!RecordIsProof, Builtin!UserIsRespected, Builtin!Forgotten
<1>4. Builtin!NoResults \in [Builtin!Profiles -> 0 .. LastVersion]
      /\ \A p \in Builtin!Profiles : Builtin!NoResults[p] = 0
  BY <1>2 DEF Builtin!NoResults, Builtin!NoRecord
<1>5. CASE Builtin!Upgrade
  <2>1. /\ seedPhase = "down" /\ shipped < LastVersion /\ shipped' = shipped + 1
        /\ UNCHANGED <<seedPhase, next, results, unsure, spared>>
    BY <1>5 DEF Builtin!Upgrade
  <2>2. BuiltType'
    BY <1>1, <1>2, <2>1 DEF BuiltType
  <2>3. Builtin!Written' = {} /\ Builtin!Written = {}
    BY <2>1 DEF Builtin!Written, BuiltResults, Builtin!NoRecord
  <2> QED BY <1>1, <1>3, <2>1, <2>2, <2>3 DEF BuiltResults, BuiltWritten, BuiltClean, BuiltCurrent
<1>6. CASE Builtin!Start
  <2>1. /\ seedPhase = "down" /\ seedPhase' = "seeding" /\ next' = 1
        /\ results' = Builtin!NoResults /\ UNCHANGED <<shipped, unsure>>
    BY <1>6 DEF Builtin!Start, Builtin!user
  <2>2. BuiltType'
    BY <1>1, <1>4, <2>1 DEF BuiltType
  <2>3. Builtin!Written' = {} /\ Builtin!Written = {}
    BY <1>4, <2>1 DEF Builtin!Written, BuiltResults, Builtin!NoRecord
  <2>4. BuiltCurrent'
    BY <2>1 DEF BuiltCurrent, Builtin!Profiles
  <2>5. BuiltResults'
    BY <1>4, <2>1 DEF BuiltResults
  <2> QED BY <1>1, <1>3, <2>1, <2>2, <2>3, <2>4, <2>5 DEF BuiltWritten, BuiltClean
<1>7. CASE Builtin!Seeded
  <2>1. /\ seedPhase = "seeding" /\ next = MaxProfile + 1
        /\ seedPhase' = (IF Builtin!Updated = recorded THEN "up" ELSE "recording")
        /\ UNCHANGED <<next, results, shipped, unsure, spared>>
    BY <1>7 DEF Builtin!Seeded, Builtin!user
  <2>2. BuiltType'
    BY <1>1, <2>1 DEF BuiltType
  <2>3. Builtin!Written' = Builtin!Written
    BY <1>1, <2>1 DEF Builtin!Written
  <2>4. Builtin!Updated = recorded => Builtin!Written = {}
    BY DEF Builtin!Updated, Builtin!Written
  <2>5. BuiltResults'
    BY <2>1, <2>3, <2>4 DEF BuiltResults
  <2>6. BuiltCurrent'
    BY <1>1, <1>2, <2>1 DEF BuiltCurrent, Builtin!Profiles
  <2> QED BY <1>1, <1>3, <2>1, <2>2, <2>3, <2>5, <2>6 DEF BuiltWritten, BuiltClean
<1>8. CASE Builtin!RecordFails \/ Builtin!Stops
  <2>1. /\ seedPhase' \in {"up", "down"} /\ results' = Builtin!NoResults /\ next' = 1
        /\ unsure' = unsure \cup Builtin!Written /\ UNCHANGED <<shipped, spared>>
        /\ seedPhase' = "up" => seedPhase = "recording"
    BY <1>8 DEF Builtin!RecordFails, Builtin!Stops, Builtin!Over, Builtin!user
  <2>2. BuiltType'
    BY <1>1, <1>4, <2>1 DEF BuiltType
  <2>3. Builtin!Written' = {}
    BY <1>4, <2>1 DEF Builtin!Written, Builtin!NoRecord
  <2>4. BuiltResults'
    BY <1>4, <2>1, <2>3 DEF BuiltResults
  <2>5. BuiltClean' /\ BuiltCurrent'
    BY <1>1, <2>1 DEF BuiltClean, BuiltCurrent
  <2> QED BY <1>1, <1>3, <2>1, <2>2, <2>3, <2>4, <2>5 DEF BuiltWritten
<1> QED BY <1>5, <1>6, <1>7, <1>8

\* The results go over into the record.
LEMMA BuiltRecords ==
  ASSUME BuiltInv, Builtin!Records
  PROVE  BuiltInv'
<1> USE DEF BuiltInv
<1>1. /\ seedPhase = "recording" /\ seedPhase' = "up" /\ recorded' = Builtin!Updated
      /\ results' = Builtin!NoResults /\ next' = 1
      /\ UNCHANGED <<profileFile, users, wrote, shipped, unsure, spared>>
  BY DEF Builtin!Records, Builtin!Over, Builtin!user
<1>2. LastVersion \in Nat \ {0}
  BY BuiltinBounds DEF Builtin!BuiltinsAssumption
<1>3. \A p \in Builtin!Profiles :
        /\ results'[p] = 0
        /\ p \in Builtin!Written => recorded'[p] = results[p]
        /\ p \notin Builtin!Written => recorded'[p] = recorded[p]
  BY <1>1 DEF Builtin!NoResults, Builtin!NoRecord, Builtin!Updated, Builtin!Written, BuiltType
<1>4. BuiltType'
  BY <1>1, <1>2 DEF BuiltType, Builtin!NoResults, Builtin!NoRecord, Builtin!Updated
<1>5. Builtin!Written' = {}
  BY <1>3 DEF Builtin!Written, Builtin!NoRecord
<1>6. BuiltResults' /\ BuiltWritten'
  BY <1>1, <1>3, <1>5 DEF BuiltResults, BuiltWritten
<1>7. BuiltUsers' /\ BuiltClean' /\ BuiltCurrent'
  BY <1>1, <1>3 DEF BuiltUsers, BuiltClean, BuiltCurrent, BuiltWritten
<1>8. Builtin!UserIsRespected'
  BY <1>1, <1>3 DEF Builtin!UserIsRespected, Builtin!Forgotten, BuiltWritten
<1>9. Builtin!RecordIsProof'
  BY <1>1, <1>3 DEF Builtin!RecordIsProof, BuiltWritten
<1> QED BY <1>4, <1>6, <1>7, <1>8, <1>9

\* Every step of the user and of a start keeps the invariant.
LEMMA BuiltPreserved ==
  ASSUME BuiltInv, [Builtin!Next]_builtinsVars
  PROVE  BuiltInv'
<1>1. CASE UNCHANGED builtinsVars
  <2> USE <1>1 DEF builtinsVars, BuiltInv
  <2>1. BuiltType' /\ BuiltUsers' /\ BuiltCurrent' /\ Builtin!RecordIsProof'
    BY DEF BuiltType, BuiltUsers, BuiltCurrent, Builtin!RecordIsProof
  <2>2. Builtin!Written' = Builtin!Written
    BY DEF Builtin!Written
  <2>3. BuiltResults' /\ BuiltWritten' /\ BuiltClean'
    BY <2>2 DEF BuiltResults, BuiltWritten, BuiltClean
  <2>4. Builtin!UserIsRespected'
    BY DEF Builtin!UserIsRespected, Builtin!Forgotten
  <2> QED BY <2>1, <2>3, <2>4
<1> QED BY <1>1, BuiltUserLeaves, BuiltSeedPasses, BuiltSeedWrites, BuiltStarts, BuiltRecords
        DEF Builtin!Next

\* What the user made of a file is respected, the record proves that a file was
\* written, and what nobody touched is current.
LEMMA BuiltInvImplies == BuiltInv => Builtin!BuiltinsRespectUser
  BY DEF BuiltInv, BuiltCurrent, Builtin!BuiltinsRespectUser, Builtin!UntouchedIsCurrent

(***************************************************************************)
(* The comms profiles                                                      *)
(***************************************************************************)

\* Every set of numbers has a least one.
LEMMA ProfLeast ==
  ASSUME NEW T \in SUBSET Nat, T # {}
  PROVE  \E x \in T : \A y \in T : x <= y
<1> DEFINE R == OpToRel(<, Nat)
<1>1. IsWellFoundedOn(R, Nat)
  BY Zenon, NatLessThanWellFounded
<1>2. \A x, y \in Nat : y < x => <<y, x>> \in R
  BY DEF OpToRel
<1> HIDE DEF R
<1>3. PICK x \in T : \A y \in T : ~ (<<y, x>> \in R)
  BY Zenon, <1>1, WFMin
<1>4. \A y \in T : ~ (y < x)
  BY Zenon, <1>2, <1>3
<1> QED BY <1>4

ProfRising(s, m) == \A i, j \in 1 .. m : i < j => s[i] < s[j]
ProfOrdered(n) ==
  \A K \in SUBSET (1 .. n) :
    \E s \in [1 .. Cardinality(K) -> K] : ProfRising(s, Cardinality(K))

\* Places of a sequence have an order with the lower ones first.
LEMMA ProfOrder == \A n \in Nat : ProfOrdered(n)
<1> DEFINE T == {n \in Nat : ~ProfOrdered(n)}
<1> SUFFICES ASSUME T # {} PROVE FALSE
  OBVIOUS
<1>1. PICK n \in T : \A y \in T : n <= y
  BY ProfLeast
<1>2. n \in Nat /\ ~ProfOrdered(n)
  BY <1>1
<1>3. PICK K \in SUBSET (1 .. n) :
        ~ \E s \in [1 .. Cardinality(K) -> K] : ProfRising(s, Cardinality(K))
  BY <1>2 DEF ProfOrdered
<1>4. IsFiniteSet(K) /\ Cardinality(K) \in Nat
  <2>1. 1 \in Int /\ n \in Int
    BY <1>2
  <2>2. IsFiniteSet(1 .. n)
    BY <2>1, FS_Interval
  <2>3. IsFiniteSet(K)
    BY <2>2, FS_Subset
  <2> QED BY <2>3, FS_CardinalityType
<1>5. K # {}
  <2> SUFFICES ASSUME K = {} PROVE FALSE
    OBVIOUS
  <2>1. Cardinality(K) = 0
    BY FS_EmptySet
  <2>2. [i \in 1 .. 0 |-> i] \in [1 .. Cardinality(K) -> K]
    BY <2>1
  <2>3. ProfRising([i \in 1 .. 0 |-> i], Cardinality(K))
    BY <2>1 DEF ProfRising
  <2> QED BY <1>3, <2>2, <2>3
<1>6. n # 0
  <2>1. 1 .. 0 = {}
    OBVIOUS
  <2> QED BY <1>5, <2>1
<1>7. n - 1 \in Nat /\ ProfOrdered(n - 1)
  <2>1. n - 1 \in Nat
    BY <1>2, <1>6
  <2>2. n - 1 \notin T
    BY <1>1, <1>2, <2>1
  <2> QED BY <2>1, <2>2
<1>8. n \in K
  <2> SUFFICES ASSUME n \notin K PROVE FALSE
    OBVIOUS
  <2>1. K \in SUBSET (1 .. n - 1)
    BY <1>2, <1>7
  <2> QED BY <1>3, <1>7, <2>1 DEF ProfOrdered
<1> DEFINE L == K \ {n}
<1>9. L \in SUBSET (1 .. n - 1)
  BY <1>2, <1>7
<1>10. Cardinality(L) \in Nat /\ Cardinality(K) = Cardinality(L) + 1
  <2>1. IsFiniteSet(L) /\ Cardinality(L) = Cardinality(K) - 1
    BY <1>4, <1>8, FS_RemoveElement
  <2>2. Cardinality(L) \in Nat
    BY <2>1, FS_CardinalityType
  <2> QED BY <1>4, <2>1, <2>2
<1>11. PICK t \in [1 .. Cardinality(L) -> L] : ProfRising(t, Cardinality(L))
  BY <1>7, <1>9 DEF ProfOrdered
<1> DEFINE m == Cardinality(L)
<1> DEFINE s == [i \in 1 .. m + 1 |-> IF i = m + 1 THEN n ELSE t[i]]
<1>12. m \in Nat /\ Cardinality(K) = m + 1
  BY <1>10
<1>13. t \in [1 .. m -> L]
  BY <1>11
<1>14. \A i, j \in 1 .. m : i < j => t[i] < t[j]
  BY <1>11 DEF ProfRising
<1> HIDE DEF m
<1>15. \A i \in 1 .. m : t[i] \in K /\ t[i] < n /\ t[i] \in Nat
  <2> TAKE i \in 1 .. m
  <2>1. t[i] \in L
    BY <1>13
  <2>2. t[i] \in K /\ t[i] \in 1 .. n - 1
    BY <1>9, <2>1
  <2> QED BY <1>2, <2>2
<1>16. s \in [1 .. Cardinality(K) -> K]
  <2>1. \A i \in 1 .. m + 1 : s[i] \in K
    <3> TAKE i \in 1 .. m + 1
    <3>1. CASE i = m + 1
      BY <1>8, <3>1
    <3>2. CASE i # m + 1
      <4>1. i \in 1 .. m
        BY <1>12, <3>2
      <4> QED BY <1>15, <3>2, <4>1
    <3> QED BY <3>1, <3>2
  <2> QED BY <1>12, <2>1
<1>17. \A i, j \in 1 .. m + 1 : i < j => s[i] < s[j]
  <2> TAKE i, j \in 1 .. m + 1
  <2> HAVE i < j
  <2>1. i \in 1 .. m /\ i # m + 1 /\ s[i] = t[i]
    BY <1>12
  <2>2. CASE j = m + 1
    <3>1. s[j] = n
      BY <2>2
    <3> QED BY <1>15, <2>1, <3>1
  <2>3. CASE j # m + 1
    <3>1. j \in 1 .. m /\ s[j] = t[j]
      BY <1>12, <2>3
    <3> QED BY <1>14, <2>1, <3>1
  <2> QED BY <2>2, <2>3
<1>18. ProfRising(s, Cardinality(K))
  BY <1>12, <1>17 DEF ProfRising
<1> QED BY <1>3, <1>16, <1>18

\* What stays of the blocks stays in its order (Reconcile).
LEMMA ProfInOrder ==
  ASSUME NEW n \in Nat, NEW K \in SUBSET (1 .. n)
  PROVE  /\ Profile!Cardinality(K) = Cardinality(K) /\ Cardinality(K) \in Nat
         /\ Profile!InOrder(K) \in [1 .. Cardinality(K) -> K]
         /\ \A i, j \in 1 .. Cardinality(K) : i < j => Profile!InOrder(K)[i] < Profile!InOrder(K)[j]
         /\ \A k \in K : \E i \in 1 .. Cardinality(K) : Profile!InOrder(K)[i] = k
<1>1. Profile!Cardinality(K) = Cardinality(K)
  BY Zenon DEF Cardinality, Profile!Cardinality
<1>2. IsFiniteSet(K) /\ Cardinality(K) \in Nat
  <2>1. 1 \in Int /\ n \in Int
    OBVIOUS
  <2>2. IsFiniteSet(1 .. n)
    BY <2>1, FS_Interval
  <2>3. IsFiniteSet(K)
    BY <2>2, FS_Subset
  <2> QED BY <2>3, FS_CardinalityType
<1> DEFINE m == Cardinality(K)
<1> DEFINE s == Profile!InOrder(K)
<1>3. \E t \in [1 .. m -> K] : \A i, j \in DOMAIN t : i < j => t[i] < t[j]
  <2>1. PICK t \in [1 .. m -> K] : ProfRising(t, m)
    BY ProfOrder DEF ProfOrdered
  <2>2. DOMAIN t = 1 .. m
    OBVIOUS
  <2> QED BY <2>1, <2>2 DEF ProfRising
<1>4. s = CHOOSE t \in [1 .. m -> K] : \A i, j \in DOMAIN t : i < j => t[i] < t[j]
  BY <1>1 DEF Profile!InOrder
<1>5. s \in [1 .. m -> K] /\ \A i, j \in DOMAIN s : i < j => s[i] < s[j]
  BY <1>3, <1>4
<1>6. \A i, j \in 1 .. m : i < j => s[i] < s[j]
  BY <1>5
<1> HIDE DEF s
<1>7. \A i \in 1 .. m : s[i] \in Nat
  <2> TAKE i \in 1 .. m
  <2>1. s[i] \in K
    BY <1>5
  <2>2. s[i] \in 1 .. n
    BY <2>1
  <2> QED BY <2>2
<1>8. s \in Injection(1 .. m, K)
  <2>1. \A i, j \in 1 .. m : s[i] = s[j] => i = j
    BY <1>2, <1>6, <1>7
  <2> QED BY <1>5, <2>1 DEF Injection, IsInjective
<1>9. IsFiniteSet(1 .. m) /\ Cardinality(1 .. m) = m
  <2>1. 1 \in Int /\ m \in Int
    BY <1>2
  <2> QED BY <1>2, <2>1, FS_Interval
<1>10. s \in Surjection(1 .. m, K)
  BY <1>2, <1>8, <1>9, FS_Injection
<1>11. \A k \in K : \E i \in 1 .. m : s[i] = k
  BY <1>10 DEF Surjection
<1> QED BY <1>1, <1>2, <1>5, <1>6, <1>11 DEF s

\* Of all the places of a sequence the order is the sequence's.
LEMMA ProfAllInOrder ==
  ASSUME NEW n \in Nat
  PROVE  /\ Cardinality(1 .. n) = n /\ Profile!Cardinality(1 .. n) = n
         /\ \A i \in 1 .. n : Profile!InOrder(1 .. n)[i] = i
<1> DEFINE s == Profile!InOrder(1 .. n)
<1>1. Cardinality(1 .. n) = n
  <2>1. 1 \in Int /\ n \in Int
    OBVIOUS
  <2> QED BY <2>1, FS_Interval
<1>2. /\ Profile!Cardinality(1 .. n) = n
      /\ s \in [1 .. n -> 1 .. n]
      /\ \A i, j \in 1 .. n : i < j => s[i] < s[j]
      /\ \A k \in 1 .. n : \E i \in 1 .. n : s[i] = k
  <2>1. (1 .. n) \in SUBSET (1 .. n)
    OBVIOUS
  <2> QED BY <1>1, <2>1, ProfInOrder
<1> HIDE DEF s
<1>3. \A i \in 1 .. n : s[i] = i
  <2> DEFINE T == {i \in 1 .. n : s[i] # i}
  <2> SUFFICES ASSUME T # {} PROVE FALSE
    OBVIOUS
  <2>1. T \in SUBSET Nat
    OBVIOUS
  <2>2. PICK i \in T : \A y \in T : i <= y
    BY <2>1, ProfLeast
  <2>3. i \in 1 .. n /\ s[i] # i /\ s[i] \in 1 .. n
    BY <1>2
  <2>4. \A j \in 1 .. n : j < i => s[j] = j
    BY <2>2, <2>3
  <2>5. PICK k \in 1 .. n : s[k] = i
    BY <1>2, <2>3
  <2>6. k > i
    BY <2>3, <2>4, <2>5
  <2>7. s[i] < i
    BY <1>2, <2>3, <2>5, <2>6
  <2>8. s[s[i]] = s[i]
    BY <2>3, <2>4, <2>7
  <2>9. s[s[i]] < s[i]
    BY <1>2, <2>3, <2>7
  <2> QED BY <2>3, <2>8, <2>9
<1> QED BY <1>1, <1>2, <1>3 DEF s

\* One block for each radio, and a variant in every one.
ProfGood(rads, bs) ==
  /\ bs \in Seq(Profile!Block)
  /\ \A i \in 1 .. Len(bs) :
       bs[i].variant # "" /\ \E m \in 1 .. Len(rads) : bs[i].radio = rads[m].id
  /\ \A i, j \in 1 .. Len(bs) : bs[i].radio = bs[j].radio => i = j
  /\ \A m \in 1 .. Len(rads) : \E i \in 1 .. Len(bs) : bs[i].radio = rads[m].id

\* A set of rads names none twice (Validate).
LEMMA ProfRadios ==
  ASSUME NEW rads, Profile!AreRadios(rads)
  PROVE  /\ rads \in Seq(Profile!Radio) /\ Len(rads) \in Nat
         /\ DOMAIN rads = 1 .. Len(rads)
         /\ \A m \in 1 .. Len(rads) : rads[m].id \in Nat
         /\ \A m, n \in 1 .. Len(rads) : rads[m].id = rads[n].id => m = n
<1>1. rads \in Seq(Profile!Radio)
  BY DEF Profile!AreRadios
<1>2. Len(rads) \in Nat /\ DOMAIN rads = 1 .. Len(rads)
  BY <1>1, LenProperties
<1>3. \A m \in 1 .. Len(rads) : rads[m] \in Profile!Radio
  BY <1>1, <1>2, ElementOfSeq
<1>4. \A m \in 1 .. Len(rads) : rads[m].id \in Nat
  BY <1>3 DEF Profile!Radio
<1>5. \A m, n \in 1 .. Len(rads) : rads[m].id = rads[n].id => m = n
  BY <1>2 DEF Profile!AreRadios
<1> QED BY <1>1, <1>2, <1>4, <1>5

\* A block is mended without losing its radio (Reconcile).
LEMMA ProfNamed ==
  ASSUME NEW b \in Profile!Block
  PROVE  /\ Profile!Named(b) \in Profile!Block /\ Profile!Named(b).radio = b.radio
         /\ Profile!Named(b).variant # "" /\ (b.variant # "" => Profile!Named(b) = b)
<1>1. b.radio \in Nat /\ b.variant \in Variants
  BY DEF Profile!Block
<1>2. CASE b.variant = ""
  <2>1. Profile!Named(b) = [radio |-> b.radio, variant |-> "vertical"]
    BY <1>2 DEF Profile!Named, Profile!BlockOf, Profile!DefaultVariant
  <2>2. "vertical" \in Variants /\ "vertical" # ""
    BY ProfileBounds DEF Profile!ProfilesAssumption, Profile!DefaultVariant
  <2>3. Profile!Named(b) \in Profile!Block
    BY <1>1, <2>1, <2>2 DEF Profile!Block
  <2>4. Profile!Named(b).radio = b.radio /\ Profile!Named(b).variant = "vertical"
    BY <2>1
  <2> QED BY <1>2, <2>2, <2>3, <2>4
<1>3. CASE b.variant # ""
  <2>1. Profile!Named(b) = b
    BY <1>3 DEF Profile!Named
  <2> QED BY <1>3, <2>1
<1> QED BY <1>2, <1>3

\* The block a radio gets that has none (Reconcile).
LEMMA ProfBlockOf ==
  ASSUME NEW r \in Nat
  PROVE  /\ Profile!BlockOf(r) \in Profile!Block /\ Profile!BlockOf(r).radio = r
         /\ Profile!BlockOf(r).variant # ""
<1>1. Profile!BlockOf(r) = [radio |-> r, variant |-> "vertical"]
  BY DEF Profile!BlockOf, Profile!DefaultVariant
<1>2. "vertical" \in Variants /\ "vertical" # ""
  BY ProfileBounds DEF Profile!ProfilesAssumption, Profile!DefaultVariant
<1>3. Profile!BlockOf(r) \in Profile!Block
  BY <1>1, <1>2 DEF Profile!Block
<1>4. Profile!BlockOf(r).radio = r /\ Profile!BlockOf(r).variant = "vertical"
  BY <1>1
<1> QED BY <1>2, <1>3, <1>4

\* What is read has one block for each radio, whatever the blocks were
\* (Reconcile).
LEMMA ProfMended ==
  ASSUME NEW rads, Profile!AreRadios(rads), NEW blocks \in Seq(Profile!Block)
  PROVE  ProfGood(rads, Profile!ReconcileBlocks(rads, blocks))
<1> DEFINE R == Len(rads)
<1> DEFINE B == Len(blocks)
<1> DEFINE K == {n \in Profile!WithRadio(rads, blocks) : Profile!IsFirst(blocks, n)}
<1> DEFINE L == Profile!Lacking(rads, blocks)
<1> DEFINE s == Profile!InOrder(K)
<1> DEFINE t == Profile!InOrder(L)
<1> DEFINE k == Cardinality(K)
<1> DEFINE l == Cardinality(L)
<1> DEFINE stays == [n \in 1 .. k |-> Profile!Named(blocks[s[n]])]
<1> DEFINE added == [n \in 1 .. l |-> Profile!BlockOf(rads[t[n]].id)]
<1> DEFINE bs == Profile!ReconcileBlocks(rads, blocks)
<1>1. /\ R \in Nat /\ DOMAIN rads = 1 .. R
      /\ \A m \in 1 .. R : rads[m].id \in Nat
      /\ \A m, n \in 1 .. R : rads[m].id = rads[n].id => m = n
  BY ProfRadios
<1>2. /\ B \in Nat /\ DOMAIN blocks = 1 .. B
      /\ \A n \in 1 .. B : blocks[n] \in Profile!Block
  BY LenProperties, ElementOfSeq
<1>3. /\ K \in SUBSET (1 .. B)
      /\ \A n \in 1 .. B :
           n \in K <=> /\ \E m \in 1 .. R : blocks[n].radio = rads[m].id
                       /\ \A j \in 1 .. n - 1 : blocks[j].radio # blocks[n].radio
  BY <1>1, <1>2 DEF Profile!WithRadio, Profile!IsFirst, Profile!Ids
<1>4. /\ L \in SUBSET (1 .. R)
      /\ \A m \in 1 .. R : m \in L <=> \A n \in 1 .. B : blocks[n].radio # rads[m].id
  BY <1>1, <1>2 DEF Profile!Lacking
<1>5. bs = [n \in 1 .. Profile!Cardinality(K) |-> Profile!Named(blocks[s[n]])]
             \o [n \in 1 .. Profile!Cardinality(L) |-> Profile!BlockOf(rads[t[n]].id)]
  BY DEF Profile!ReconcileBlocks, Profile!Mended
<1> HIDE DEF K, L, s, t, R, B
<1>6. /\ Profile!Cardinality(K) = k /\ k \in Nat /\ s \in [1 .. k -> K]
      /\ \A i, j \in 1 .. k : i < j => s[i] < s[j]
      /\ \A n \in K : \E i \in 1 .. k : s[i] = n
  BY <1>2, <1>3, ProfInOrder DEF s
<1>7. /\ Profile!Cardinality(L) = l /\ l \in Nat /\ t \in [1 .. l -> L]
      /\ \A i, j \in 1 .. l : i < j => t[i] < t[j]
      /\ \A n \in L : \E i \in 1 .. l : t[i] = n
  BY <1>1, <1>4, ProfInOrder DEF t
<1> HIDE DEF k, l
<1>8. \A i \in 1 .. k : s[i] \in K /\ s[i] \in 1 .. B /\ blocks[s[i]] \in Profile!Block
  BY <1>2, <1>3, <1>6
<1>9. \A i \in 1 .. l : t[i] \in L /\ t[i] \in 1 .. R /\ rads[t[i]].id \in Nat
  BY <1>1, <1>4, <1>7
<1>10. \A i \in 1 .. k :
         /\ stays[i] \in Profile!Block /\ stays[i].radio = blocks[s[i]].radio
         /\ stays[i].variant # ""
  BY <1>8, ProfNamed
<1>11. \A i \in 1 .. l :
         /\ added[i] \in Profile!Block /\ added[i].radio = rads[t[i]].id
         /\ added[i].variant # ""
  BY <1>9, ProfBlockOf
<1>12. bs = stays \o added
  BY <1>5, <1>6, <1>7
<1>13. /\ stays \in [1 .. k -> Profile!Block] /\ added \in [1 .. l -> Profile!Block]
  BY <1>10, <1>11
<1> HIDE DEF bs, stays, added
<1>14. stays \in Seq(Profile!Block) /\ added \in Seq(Profile!Block)
  BY <1>6, <1>7, <1>13, IsASeq
<1>15. Len(stays) = k /\ Len(added) = l
  BY <1>6, <1>7, <1>13, <1>14, LenProperties
<1>16. /\ bs \in Seq(Profile!Block) /\ Len(bs) = k + l
       /\ \A i \in 1 .. k + l : bs[i] = IF i <= k THEN stays[i] ELSE added[i - k]
  BY <1>12, <1>14, <1>15, ConcatProperties
<1>17. \A i \in 1 .. k : i \in 1 .. k + l /\ bs[i] = stays[i]
  BY <1>6, <1>7, <1>16
<1>18. \A i \in 1 .. l : k + i \in 1 .. k + l /\ bs[k + i] = added[i]
  BY <1>6, <1>7, <1>16
<1>19. \A i \in 1 .. k + l : i \in 1 .. k \/ (i - k \in 1 .. l /\ i = k + (i - k))
  BY <1>6, <1>7
<1>20. \A i \in 1 .. k + l :
         bs[i].variant # "" /\ \E m \in 1 .. R : bs[i].radio = rads[m].id
  <2> TAKE i \in 1 .. k + l
  <2>1. CASE i \in 1 .. k
    <3>1. bs[i] = stays[i] /\ s[i] \in K /\ s[i] \in 1 .. B
      BY <1>8, <1>17, <2>1
    <3>2. \E m \in 1 .. R : blocks[s[i]].radio = rads[m].id
      BY <1>3, <3>1
    <3> QED BY <1>10, <2>1, <3>1, <3>2
  <2>2. CASE i \notin 1 .. k
    <3>1. PICK j \in 1 .. l : bs[i] = added[j]
      BY <1>18, <1>19, <2>2
    <3> QED BY <1>9, <1>11, <3>1
  <2> QED BY <2>1, <2>2
<1>21. \A i, j \in 1 .. k : i < j => stays[i].radio # stays[j].radio
  <2> TAKE i, j \in 1 .. k
  <2> HAVE i < j
  <2>1. s[i] < s[j] /\ s[j] \in K /\ s[i] \in 1 .. B /\ s[j] \in 1 .. B
    BY <1>6, <1>8
  <2>2. s[i] \in 1 .. s[j] - 1
    BY <1>2, <2>1
  <2>3. blocks[s[i]].radio # blocks[s[j]].radio
    BY <1>3, <2>1, <2>2
  <2> QED BY <1>10, <2>3
<1>22. \A i \in 1 .. k, j \in 1 .. l : stays[i].radio # added[j].radio
  BY <1>4, <1>8, <1>9, <1>10, <1>11
<1>23. \A i, j \in 1 .. l : i < j => added[i].radio # added[j].radio
  <2> TAKE i, j \in 1 .. l
  <2> HAVE i < j
  <2>1. t[i] < t[j] /\ t[i] \in 1 .. R /\ t[j] \in 1 .. R
    BY <1>7, <1>9
  <2>2. t[i] # t[j]
    BY <1>1, <2>1
  <2> QED BY <1>1, <1>11, <2>1, <2>2
<1>24. \A i, j \in 1 .. k + l : i < j => bs[i].radio # bs[j].radio
  <2> TAKE i, j \in 1 .. k + l
  <2> HAVE i < j
  <2>1. CASE j \in 1 .. k
    <3>1. i \in 1 .. k
      BY <1>6, <2>1
    <3> QED BY <1>17, <1>21, <2>1, <3>1
  <2>2. CASE j \notin 1 .. k /\ i \in 1 .. k
    <3>1. PICK n \in 1 .. l : bs[j] = added[n]
      BY <1>18, <1>19, <2>2
    <3> QED BY <1>17, <1>22, <2>2, <3>1
  <2>3. CASE j \notin 1 .. k /\ i \notin 1 .. k
    <3>1. i - k \in 1 .. l /\ j - k \in 1 .. l /\ i - k < j - k
      BY <1>6, <1>19, <2>3
    <3>2. bs[i] = added[i - k] /\ bs[j] = added[j - k]
      BY <1>6, <1>16, <2>3
    <3> QED BY <1>23, <3>1, <3>2
  <2> QED BY <2>1, <2>2, <2>3
<1>25. \A i, j \in 1 .. k + l : bs[i].radio = bs[j].radio => i = j
  BY <1>6, <1>7, <1>24
<1>26. \A m \in 1 .. R : \E i \in 1 .. k + l : bs[i].radio = rads[m].id
  <2> TAKE m \in 1 .. R
  <2>1. CASE m \in L
    <3>1. PICK i \in 1 .. l : t[i] = m
      BY <1>7, <2>1
    <3> QED BY <1>11, <1>18, <3>1
  <2>2. CASE m \notin L
    <3> DEFINE T == {n \in 1 .. B : blocks[n].radio = rads[m].id}
    <3>1. T \in SUBSET Nat /\ T # {}
      BY <1>4, <2>2
    <3>2. PICK n \in T : \A y \in T : n <= y
      BY <3>1, ProfLeast
    <3>3. \A j \in 1 .. n - 1 : blocks[j].radio # blocks[n].radio
      <4> TAKE j \in 1 .. n - 1
      <4>1. j \in 1 .. B /\ ~(n <= j)
        BY <1>2, <3>2
      <4> QED BY <3>2, <4>1
    <3>4. n \in K
      BY <1>3, <3>2, <3>3
    <3>5. PICK i \in 1 .. k : s[i] = n
      BY <1>6, <3>4
    <3> QED BY <1>10, <1>17, <3>2, <3>5
  <2> QED BY <2>1, <2>2
<1> QED BY <1>16, <1>20, <1>25, <1>26 DEF ProfGood, bs, R

\* Mended blocks stay as they are (Reconcile).
LEMMA ProfStays ==
  ASSUME NEW rads, Profile!AreRadios(rads), NEW bs, ProfGood(rads, bs)
  PROVE  Profile!ReconcileBlocks(rads, bs) = bs
<1> DEFINE R == Len(rads)
<1> DEFINE B == Len(bs)
<1> DEFINE K == {n \in Profile!WithRadio(rads, bs) : Profile!IsFirst(bs, n)}
<1> DEFINE L == Profile!Lacking(rads, bs)
<1>1. R \in Nat /\ DOMAIN rads = 1 .. R
  BY ProfRadios
<1>2. /\ bs \in Seq(Profile!Block) /\ B \in Nat /\ DOMAIN bs = 1 .. B
      /\ \A n \in 1 .. B : bs[n] \in Profile!Block
  BY LenProperties, ElementOfSeq DEF ProfGood
<1>3. K = 1 .. B
  <2>1. \A n \in 1 .. B : n \in Profile!WithRadio(rads, bs)
    BY <1>1, <1>2 DEF ProfGood, Profile!WithRadio, Profile!Ids
  <2>2. \A n \in 1 .. B : Profile!IsFirst(bs, n)
    <3> TAKE n \in 1 .. B
    <3>1. \A j \in 1 .. n - 1 : j \in 1 .. B /\ j # n
      BY <1>2
    <3> QED BY <3>1 DEF ProfGood, Profile!IsFirst
  <2>3. Profile!WithRadio(rads, bs) \subseteq 1 .. B
    BY <1>2 DEF Profile!WithRadio
  <2> QED BY <2>1, <2>2, <2>3
<1>4. L = {}
  <2>1. \A m \in 1 .. R : \E i \in 1 .. B : bs[i].radio = rads[m].id
    BY DEF ProfGood
  <2> QED BY <1>1, <1>2, <2>1 DEF Profile!Lacking
<1>5. /\ Profile!Cardinality(K) = B
      /\ \A i \in 1 .. B : Profile!InOrder(K)[i] = i
  BY <1>2, <1>3, ProfAllInOrder
<1>6. Profile!Cardinality(L) = 0
  <2>1. Profile!Cardinality({}) = Cardinality({})
    BY Zenon DEF Cardinality, Profile!Cardinality
  <2> QED BY <1>4, <2>1, FS_EmptySet
<1> DEFINE stays == [n \in 1 .. B |-> Profile!Named(bs[Profile!InOrder(K)[n]])]
<1> DEFINE added == [n \in 1 .. 0 |-> Profile!BlockOf(rads[Profile!InOrder(L)[n]].id)]
<1>7. Profile!ReconcileBlocks(rads, bs) = stays \o added
  BY <1>5, <1>6 DEF Profile!ReconcileBlocks, Profile!Mended
<1>8. \A n \in 1 .. B : stays[n] = bs[n]
  <2> TAKE n \in 1 .. B
  <2>1. bs[n] \in Profile!Block /\ bs[n].variant # ""
    BY <1>2 DEF ProfGood
  <2>2. Profile!Named(bs[n]) = bs[n]
    BY <2>1, ProfNamed
  <2> QED BY <1>5, <2>2
<1> HIDE DEF stays
<1>9. stays = bs
  <2>1. DOMAIN stays = 1 .. B /\ stays = [n \in 1 .. B |-> stays[n]]
    BY DEF stays
  <2>2. bs = [n \in 1 .. B |-> bs[n]]
    BY <1>2, LenProperties
  <2> QED BY <1>8, <2>1, <2>2
<1>10. added = << >>
  OBVIOUS
<1> QED BY <1>2, <1>7, <1>9, <1>10, ConcatEmptySeq

\* A document that Validate takes.
ProfDoc(d) ==
  /\ d = Profile!Doc(d.radios, d.blocks, d.width)
  /\ Profile!AreRadios(d.radios) /\ d.blocks \in Seq(Profile!Block) /\ d.width \in Int

\* A document mended once needs no more mending (Reconcile).
LEMMA ProfMend ==
  ASSUME NEW d, ProfDoc(d)
  PROVE  /\ ProfDoc(Profile!Reconcile(d)) /\ Profile!Reconcile(d).state = "ok"
         /\ Profile!Reconcile(d).radios = d.radios
         /\ ProfGood(d.radios, Profile!Reconcile(d).blocks)
         /\ Profile!Reconcile(Profile!Reconcile(d)) = Profile!Reconcile(d)
<1> DEFINE bs == Profile!ReconcileBlocks(d.radios, d.blocks)
<1> DEFINE w == IF d.width <= 0 THEN DefaultW ELSE d.width
<1> DEFINE e == Profile!Reconcile(d)
<1>1. Profile!AreRadios(d.radios) /\ d.blocks \in Seq(Profile!Block) /\ d.width \in Int
  BY DEF ProfDoc
<1>2. w \in Int /\ w > 0
  BY <1>1, ProfileBounds DEF Profile!ProfilesAssumption
<1>3. ProfGood(d.radios, bs) /\ bs \in Seq(Profile!Block)
  BY <1>1, ProfMended DEF ProfGood
<1>4. e = Profile!Doc(d.radios, bs, w)
  BY DEF Profile!Reconcile
<1>5. Profile!ReconcileBlocks(d.radios, bs) = bs
  BY <1>1, <1>3, ProfStays
<1> HIDE DEF bs, w, e
<1>6. e.state = "ok" /\ e.radios = d.radios /\ e.blocks = bs /\ e.width = w
  BY <1>4 DEF Profile!Doc
<1>7. ProfDoc(e)
  BY <1>1, <1>2, <1>3, <1>4, <1>6 DEF ProfDoc
<1>8. ~(w <= 0)
  BY <1>2
<1>9. Profile!Reconcile(e) = e
  BY <1>4, <1>5, <1>6, <1>8 DEF Profile!Reconcile
<1> QED BY <1>3, <1>6, <1>7, <1>9 DEF e

\* A document that is mended has a block for each radio and no other (Reconcile).
LEMMA ProfCounts ==
  ASSUME NEW rads, Profile!AreRadios(rads), NEW bs, ProfGood(rads, bs)
  PROVE  /\ Len(bs) = Len(rads)
         /\ {bs[n].radio : n \in DOMAIN bs} = Profile!Ids(rads)
<1> DEFINE R == Len(rads)
<1> DEFINE B == Len(bs)
<1>1. /\ R \in Nat /\ DOMAIN rads = 1 .. R
      /\ \A m, n \in 1 .. R : rads[m].id = rads[n].id => m = n
  BY ProfRadios
<1>2. B \in Nat /\ DOMAIN bs = 1 .. B
  BY LenProperties DEF ProfGood
<1> DEFINE f == [i \in 1 .. B |-> CHOOSE m \in 1 .. R : bs[i].radio = rads[m].id]
<1>3. \A i \in 1 .. B : f[i] \in 1 .. R /\ bs[i].radio = rads[f[i]].id
  <2> TAKE i \in 1 .. B
  <2>1. \E m \in 1 .. R : bs[i].radio = rads[m].id
    BY DEF ProfGood
  <2> QED BY <2>1
<1>4. f \in [1 .. B -> 1 .. R]
  BY <1>3
<1> HIDE DEF f
<1>5. \A i, j \in 1 .. B : f[i] = f[j] => i = j
  <2> TAKE i, j \in 1 .. B
  <2> HAVE f[i] = f[j]
  <2>1. bs[i].radio = bs[j].radio
    BY <1>3
  <2> QED BY <2>1 DEF ProfGood
<1>6. \A m \in 1 .. R : \E i \in 1 .. B : f[i] = m
  <2> TAKE m \in 1 .. R
  <2>1. PICK i \in 1 .. B : bs[i].radio = rads[m].id
    BY DEF ProfGood
  <2>2. f[i] \in 1 .. R /\ rads[f[i]].id = rads[m].id
    BY <1>3, <2>1
  <2> QED BY <1>1, <2>2
<1>7. f \in Bijection(1 .. B, 1 .. R)
  BY <1>4, <1>5, <1>6 DEF Bijection, Injection, Surjection, IsInjective
<1>8. /\ IsFiniteSet(1 .. B) /\ Cardinality(1 .. B) = B
      /\ Cardinality(1 .. R) = R
  <2>1. 1 \in Int /\ B \in Int
    BY <1>2
  <2> QED BY <1>1, <1>2, <2>1, FS_Interval, ProfAllInOrder
<1>9. B = R
  <2>1. ExistsBijection(1 .. B, 1 .. R)
    BY <1>7 DEF ExistsBijection
  <2> QED BY <1>8, <2>1, FS_Bijection
<1>10. {bs[n].radio : n \in 1 .. B} = {rads[m].id : m \in 1 .. R}
  <2>1. \A m \in 1 .. R : \E i \in 1 .. B : bs[i].radio = rads[m].id
    BY DEF ProfGood
  <2> QED BY <1>3, <2>1
<1> QED BY <1>1, <1>2, <1>9, <1>10 DEF Profile!Ids

\* What is live, and what is in the configuration.
ProfSetup(c) ==
  /\ c = [radios |-> c.radios, blocks |-> c.blocks, width |-> c.width, active |-> c.active]
  /\ ProfDoc(Profile!Live(c)) /\ c.active \in Profile!Paths \cup {Profile!NoPath}
ProfFiles ==
  /\ profileFiles = [p \in Profile!Paths |-> profileFiles[p]]
  /\ \A p \in Profile!Paths : Profile!Readable(p) => ProfDoc(profileFiles[p])
ProfLives == ProfSetup(live) /\ ProfSetup(disk) /\ profilePending \in BOOLEAN
ProfType ==
  /\ ProfFiles /\ ProfLives /\ window \in Int
  /\ same \in Profile!Paths \cup {Profile!NoPath} /\ calm \in BOOLEAN

\* A call is at the file it writes or at the configuration it saves.
ProfCall ==
  \/ call = Profile!NoCall
  \/ /\ call.path \in Profile!Paths /\ ProfDoc(call.doc)
     /\ call = Profile!Called(call.op, call.at, call.path, call.doc)
     /\ \/ call.at = "write" /\ call.op \in {"save", "saveas", "import", "rename"}
        \/ call.at = "apply" /\ call.op \in {"load", "saveas"}

\* Only what is still to be saved is not in the configuration file.
ProfSaved == ~profilePending => live = disk

\* The window has no other size to say than the one that is live.
ProfEcho == window = Profile!AtRest \/ Profile!IsEcho(window)

\* A profile loaded or saved, and not touched since, is the live setup.
ProfSame ==
  same # Profile!NoPath =>
    /\ live.active = same /\ Profile!Readable(same)
    /\ Profile!Captured = Profile!Read(same) /\ ProfEcho

\* What a call is about to write or to apply is still what it took.
ProfTaken ==
  /\ call.at = "write" /\ call.op = "save" /\ calm =>
       live.active = call.path /\ call.doc = Profile!Captured /\ ProfEcho
  /\ call.at = "write" /\ call.op \in {"saveas", "import"} =>
       profileFiles[call.path] = Profile!Missing
  /\ call.at = "write" /\ call.op = "rename" =>
       /\ Profile!Readable(call.path)
       /\ Profile!Read(call.path) = Profile!Reconcile(call.doc)
  /\ call.at = "apply" /\ calm =>
       /\ Profile!Readable(call.path)
       /\ Profile!Read(call.path) = Profile!Reconcile(call.doc)

ProfInv ==
  ProfType /\ ProfCall /\ ProfSaved /\ ProfSame /\ ProfTaken /\ ~overwritten

\* The first start finds the folder as the user left it, and no profile active.
LEMMA ProfInitial == Profile!Init => ProfInv
<1> SUFFICES ASSUME Profile!Init PROVE ProfInv
  OBVIOUS
<1>1. /\ profileFiles \in [Profile!Paths -> HandMade \cup {Profile!Missing, Profile!Unreadable}]
      /\ live = [radios |-> <<>>, blocks |-> <<>>, width |-> DefaultW, active |-> Profile!NoPath]
      /\ disk = live /\ profilePending = FALSE /\ call = Profile!NoCall
      /\ window = Profile!AtRest /\ same = Profile!NoPath /\ calm = TRUE /\ overwritten = FALSE
  BY DEF Profile!Init
<1>2. \A d \in HandMade : ProfDoc(d)
  BY ProfileBounds DEF Profile!ProfilesAssumption, ProfDoc
<1>3. ProfFiles
  <2>1. \A p \in Profile!Paths : Profile!Readable(p) => profileFiles[p] \in HandMade
    BY <1>1 DEF Profile!Readable, Profile!Missing, Profile!Unreadable
  <2> QED BY <1>1, <1>2, <2>1 DEF ProfFiles
<1>4. ProfSetup(live)
  <2>1. Profile!AreRadios(<<>>)
    BY EmptySeq DEF Profile!AreRadios
  <2>2. DefaultW \in Int /\ <<>> \in Seq(Profile!Block)
    BY ProfileBounds, EmptySeq DEF Profile!ProfilesAssumption
  <2>3. Profile!Live(live) = Profile!Doc(<<>>, <<>>, DefaultW)
    BY <1>1 DEF Profile!Live
  <2>4. ProfDoc(Profile!Live(live))
    BY <2>1, <2>2, <2>3 DEF ProfDoc, Profile!Doc
  <2> QED BY <1>1, <2>4 DEF ProfSetup
<1>5. ProfType
  <2>1. ProfLives
    BY <1>1, <1>4 DEF ProfLives
  <2>2. window \in Int
    BY <1>1 DEF Profile!AtRest
  <2> QED BY <1>1, <1>3, <2>1, <2>2 DEF ProfType
<1>6. ProfCall /\ ProfTaken
  BY <1>1 DEF ProfCall, ProfTaken, Profile!NoCall
<1>7. ProfSaved /\ ProfSame
  BY <1>1 DEF ProfSaved, ProfSame
<1> QED BY <1>1, <1>5, <1>6, <1>7 DEF ProfInv

\* applyProfile makes the live setup what was read (applyProfile).
LEMMA ProfApplies == ProfInv /\ Profile!Applies => ProfInv'
<1> SUFFICES ASSUME ProfInv, Profile!Applies PROVE ProfInv'
  OBVIOUS
<1> DEFINE d == Profile!Reconcile(call.doc)
<1>1. /\ call.at = "apply"
      /\ live' = [radios |-> d.radios, blocks |-> d.blocks, width |-> d.width,
                  active |-> call.path]
      /\ disk' = live' /\ profilePending' = profilePending
      /\ call' = Profile!NoCall
      /\ same' = IF calm THEN call.path ELSE Profile!NoPath
      /\ calm' = TRUE /\ profileFiles' = profileFiles /\ overwritten' = overwritten
  BY DEF Profile!Applies, Profile!Takes, Profile!Persist
<1>2. call.path \in Profile!Paths /\ ProfDoc(call.doc)
  BY <1>1 DEF ProfInv, ProfCall, Profile!NoCall
<1>3. ProfDoc(d) /\ Profile!Reconcile(d) = d
  BY <1>2, ProfMend
<1>4. PICK r \in {-windowEchoTolerancePx, 0, windowEchoTolerancePx} : window' = d.width + r
  BY DEF Profile!Applies, Profile!SetGeometry
<1>5. calm => Profile!Readable(call.path) /\ Profile!Read(call.path) = d
  BY <1>1 DEF ProfInv, ProfTaken
<1> HIDE DEF d
<1>6. Profile!Live(live') = d
  BY <1>1, <1>3 DEF ProfDoc, Profile!Live
<1>7. d.width \in Int /\ windowEchoTolerancePx \in Nat
  BY <1>3, ProfileBounds DEF ProfDoc, Profile!ProfilesAssumption
<1>8. live'.width = d.width /\ live'.active = call.path
  BY <1>1
<1>9. ProfSetup(live)'
  BY <1>1, <1>2, <1>3, <1>6, <1>8 DEF ProfSetup
<1>10. ProfType'
  <2>1. ProfFiles'
    BY <1>1 DEF ProfInv, ProfType, ProfFiles, Profile!Readable
  <2>2. ProfLives'
    BY <1>1, <1>9 DEF ProfInv, ProfType, ProfLives
  <2>3. window' \in Int
    BY <1>4, <1>7
  <2> QED BY <1>1, <1>2, <2>1, <2>2, <2>3 DEF ProfType
<1>11. ProfCall' /\ ProfTaken'
  BY <1>1 DEF ProfCall, ProfTaken, Profile!NoCall
<1>12. ProfSaved'
  BY <1>1 DEF ProfSaved
<1>13. ProfEcho'
  BY <1>4, <1>7, <1>8 DEF ProfEcho, Profile!IsEcho
<1>14. ProfSame'
  <2> SUFFICES ASSUME same' # Profile!NoPath
        PROVE  /\ live'.active = same' /\ Profile!Readable(same)'
               /\ Profile!Captured' = Profile!Read(same)' /\ ProfEcho'
    BY DEF ProfSame
  <2>1. calm /\ same' = call.path
    BY <1>1
  <2>2. Profile!Readable(same)'
    BY <1>1, <1>5, <2>1 DEF Profile!Readable
  <2>3. Profile!Read(same)' = d
    BY <1>1, <1>5, <2>1 DEF Profile!Read
  <2>4. Profile!Captured' = d
    BY <1>3, <1>6 DEF Profile!Captured
  <2> QED BY <1>8, <1>13, <2>1, <2>2, <2>3, <2>4
<1> QED BY <1>1, <1>10, <1>11, <1>12, <1>14 DEF ProfInv

\* A call takes its document, or ends without one (LoadProfile, SaveProfile,
\* SaveProfileAs, ImportProfile, RenameProfile).
LEMMA ProfCalls ==
  ProfInv /\ UNCHANGED <<profileFiles, live, disk, profilePending, window, same, overwritten>>
  /\ ProfCall' /\ ProfTaken' /\ calm' \in BOOLEAN => ProfInv'
<1> SUFFICES ASSUME ProfInv, ProfCall', ProfTaken', calm' \in BOOLEAN,
          UNCHANGED <<profileFiles, live, disk, profilePending, window, same, overwritten>>
        PROVE ProfInv'
  OBVIOUS
<1>1. ProfType'
  BY DEF ProfInv, ProfType, ProfFiles, ProfLives, Profile!Readable
<1>2. ProfSaved' /\ ProfSame'
  BY DEF ProfInv, ProfSaved, ProfSame, ProfEcho, Profile!Readable, Profile!Captured, Profile!Read,
    Profile!IsEcho
<1> QED BY <1>1, <1>2 DEF ProfInv

\* A call fails, or a profile is loaded: what the next step applies is what the
\* file came to, unless the file changes in between (LoadProfile, applyProfile).
LEMMA ProfLoads ==
  ProfInv /\ (Profile!Fails \/ \E p \in Profile!Paths : Profile!Load(p)) => ProfInv'
<1> SUFFICES ASSUME ProfInv, Profile!Fails \/ \E p \in Profile!Paths : Profile!Load(p)
        PROVE ProfInv'
  OBVIOUS
<1>1. CASE Profile!Fails
  <2>1. call' = Profile!NoCall /\ calm' = TRUE
        /\ UNCHANGED <<profileFiles, live, disk, profilePending, window, same, overwritten>>
    BY <1>1 DEF Profile!Fails, Profile!setup
  <2>2. ProfCall' /\ ProfTaken'
    BY <2>1 DEF ProfCall, ProfTaken, Profile!NoCall
  <2> QED BY <2>1, <2>2, ProfCalls
<1>2. CASE \E p \in Profile!Paths : Profile!Load(p)
  <2>1. PICK p \in Profile!Paths : Profile!Load(p)
    BY <1>2
  <2> DEFINE d == Profile!Read(p)
  <2>2. /\ call' = Profile!Called("load", "apply", p, d) /\ calm' = TRUE
        /\ Profile!Readable(p)
        /\ UNCHANGED <<profileFiles, live, disk, profilePending, window, same, overwritten>>
    BY <2>1 DEF Profile!Load, Profile!setup
  <2>3. ProfDoc(profileFiles[p])
    BY <2>2 DEF ProfInv, ProfType, ProfFiles
  <2>4. ProfDoc(d) /\ Profile!Reconcile(d) = d
    BY <2>3, ProfMend DEF Profile!Read
  <2>5. d' = d
    BY <2>2 DEF Profile!Read
  <2> HIDE DEF d
  <2>6. call'.op = "load" /\ call'.at = "apply" /\ call'.path = p /\ call'.doc = d
    BY <2>2 DEF Profile!Called
  <2>7. ProfCall'
    BY <2>2, <2>4, <2>6 DEF ProfCall
  <2>8. Profile!Readable(call.path)' /\ Profile!Read(call.path)' = Profile!Reconcile(call.doc)'
    <3>1. Profile!Readable(p)'
      BY <2>2 DEF Profile!Readable
    <3>2. Profile!Read(p)' = d
      BY <2>5 DEF d
    <3>3. Profile!Readable(call.path)'
      BY <2>6, <3>1 DEF Profile!Readable
    <3>4. Profile!Read(call.path)' = d
      BY <2>6, <3>2 DEF Profile!Read
    <3> QED BY <2>4, <2>6, <3>3, <3>4
  <2>9. ProfTaken'
    BY <2>6, <2>8 DEF ProfTaken
  <2> QED BY <2>2, <2>7, <2>9, ProfCalls
<1> QED BY <1>1, <1>2

\* A profile is saved: the live setup is taken, and is what is written unless it
\* changes in between (SaveProfile).
LEMMA ProfSaves == ProfInv /\ Profile!Save => ProfInv'
<1> SUFFICES ASSUME ProfInv, Profile!Save PROVE ProfInv'
  OBVIOUS
<1>1. /\ live.active # Profile!NoPath
      /\ call' = Profile!Called("save", "write", live.active, Profile!Captured)
      /\ calm' = (window = Profile!AtRest \/ Profile!IsEcho(window))
      /\ UNCHANGED <<profileFiles, live, disk, profilePending, window, same, overwritten>>
  BY DEF Profile!Save, Profile!setup
<1>2. live.active \in Profile!Paths /\ ProfDoc(Profile!Captured)
  BY <1>1, ProfMend DEF ProfInv, ProfType, ProfLives, ProfSetup, Profile!Captured
<1>3. /\ call'.op = "save" /\ call'.at = "write" /\ call'.path = live.active
      /\ call'.doc = Profile!Captured
  BY <1>1 DEF Profile!Called
<1>4. ProfCall'
  BY <1>1, <1>2, <1>3 DEF ProfCall
<1>5. calm' => ProfEcho'
  BY <1>1 DEF ProfEcho, Profile!IsEcho
<1>6. Profile!Captured' = Profile!Captured
  BY <1>1 DEF Profile!Captured
<1>7. ProfTaken'
  BY <1>1, <1>3, <1>5, <1>6 DEF ProfTaken
<1>8. calm' \in BOOLEAN
  BY <1>1
<1> QED BY <1>1, <1>4, <1>7, <1>8, ProfCalls

\* A new profile goes to a file there is none of (uniqueProfilePath).
LEMMA ProfUnique ==
  ASSUME NEW t \in Stems, Profile!uniqueProfilePath(t) # Profile!NoPath
  PROVE  /\ Profile!uniqueProfilePath(t) \in Profile!Paths
         /\ profileFiles[Profile!uniqueProfilePath(t)] = Profile!Missing
BY DEF Profile!uniqueProfilePath, Profile!Paths

\* The live setup is saved under a new name, or a document brought in
\* (SaveProfileAs, ImportProfile).
LEMMA ProfNews ==
  ProfInv /\ (\E t \in Stems : Profile!SaveAs(t) \/ \E d \in HandMade : Profile!Import(t, d))
    => ProfInv'
<1> SUFFICES ASSUME ProfInv, NEW t \in Stems,
          Profile!SaveAs(t) \/ \E d \in HandMade : Profile!Import(t, d)
        PROVE ProfInv'
  OBVIOUS
<1> DEFINE p == Profile!uniqueProfilePath(t)
<1>1. PICK op, d :
        /\ op \in {"saveas", "import"}
        /\ call' = Profile!Called(op, "write", p, d) /\ ProfDoc(d)
        /\ p # Profile!NoPath /\ calm' \in BOOLEAN
        /\ UNCHANGED <<profileFiles, live, disk, profilePending, window, same, overwritten>>
  <2>1. CASE Profile!SaveAs(t)
    <3>1. ProfDoc(Profile!Captured)
      BY ProfMend DEF ProfInv, ProfType, ProfLives, ProfSetup, Profile!Captured
    <3> QED BY <2>1, <3>1 DEF Profile!SaveAs, Profile!setup
  <2>2. CASE \E e \in HandMade : Profile!Import(t, e)
    <3>1. PICK e \in HandMade : Profile!Import(t, e)
      BY <2>2
    <3>2. ProfDoc(e)
      BY ProfileBounds DEF Profile!ProfilesAssumption, ProfDoc
    <3>3. ProfDoc(Profile!Reconcile(e))
      BY <3>2, ProfMend
    <3>4. calm \in BOOLEAN
      BY DEF ProfInv, ProfType
    <3> QED BY <3>1, <3>3, <3>4 DEF Profile!Import, Profile!setup, Profile!history
  <2> QED BY <2>1, <2>2
<1>2. p \in Profile!Paths /\ profileFiles[p] = Profile!Missing
  BY <1>1, ProfUnique
<1> HIDE DEF p
<1>3. call'.op = op /\ call'.at = "write" /\ call'.path = p /\ call'.doc = d
  BY <1>1 DEF Profile!Called
<1>4. ProfCall'
  BY <1>1, <1>2, <1>3 DEF ProfCall
<1>5. profileFiles'[call'.path] = Profile!Missing
  BY <1>1, <1>2, <1>3
<1>6. ProfTaken'
  <2>1. op \in {"saveas", "import"}
    BY <1>1
  <2> QED BY <1>3, <1>5, <2>1 DEF ProfTaken
<1> QED BY <1>1, <1>4, <1>6, ProfCalls

\* A profile is renamed: its document goes back where it was (RenameProfile).
LEMMA ProfRenames == ProfInv /\ (\E p \in Profile!Paths : Profile!Rename(p)) => ProfInv'
<1> SUFFICES ASSUME ProfInv, NEW p \in Profile!Paths, Profile!Rename(p) PROVE ProfInv'
  OBVIOUS
<1> DEFINE d == Profile!Read(p)
<1>1. /\ call' = Profile!Called("rename", "write", p, d) /\ Profile!Readable(p)
      /\ UNCHANGED <<profileFiles, live, disk, profilePending, window, same, overwritten>>
      /\ calm' = calm
  BY DEF Profile!Rename, Profile!setup, Profile!history
<1>2. ProfDoc(profileFiles[p])
  BY <1>1 DEF ProfInv, ProfType, ProfFiles
<1>3. ProfDoc(d) /\ Profile!Reconcile(d) = d
  BY <1>2, ProfMend DEF Profile!Read
<1>4. call'.op = "rename" /\ call'.at = "write" /\ call'.path = p /\ call'.doc = d
  BY <1>1 DEF Profile!Called
<1>5. Profile!Readable(call.path)' /\ Profile!Read(call.path)' = d
  BY <1>1, <1>4 DEF Profile!Readable, Profile!Read
<1> HIDE DEF d
<1>6. ProfCall'
  BY <1>1, <1>3, <1>4 DEF ProfCall
<1>7. ProfTaken'
  BY <1>3, <1>4, <1>5 DEF ProfTaken
<1>8. calm' \in BOOLEAN
  BY <1>1 DEF ProfInv, ProfType
<1> QED BY <1>1, <1>6, <1>7, <1>8, ProfCalls

\* The document is written: a profile that is live is still what is live, and
\* the one written is what it is to be (profile.Write).
LEMMA ProfWrites == ProfInv /\ Profile!Writes => ProfInv'
<1> SUFFICES ASSUME ProfInv, Profile!Writes PROVE ProfInv'
  OBVIOUS
<1>0. PICK p, d : p = call.path /\ d = Profile!Reconcile(call.doc)
  OBVIOUS
<1>1. /\ call.at = "write"
      /\ profileFiles' = [profileFiles EXCEPT ![p] = d]
      /\ call' = IF call.op = "saveas" THEN [call EXCEPT !.at = "apply"] ELSE Profile!NoCall
      /\ same' = IF call.op # "save" THEN same ELSE IF calm THEN p ELSE Profile!NoPath
      /\ calm' = (calm \/ call.op # "saveas")
      /\ overwritten' = (overwritten \/ (call.op \in {"saveas", "import"}
                                           /\ profileFiles[p] # Profile!Missing))
      /\ UNCHANGED <<live, disk, profilePending, window>>
  BY <1>0 DEF Profile!Writes, Profile!setup
<1>2. /\ p \in Profile!Paths /\ ProfDoc(call.doc)
      /\ call = Profile!Called(call.op, call.at, p, call.doc)
      /\ call.op \in {"save", "saveas", "import", "rename"}
  BY <1>0, <1>1 DEF ProfInv, ProfCall, Profile!NoCall
<1>3. ProfDoc(d) /\ d.state = "ok" /\ Profile!Reconcile(d) = d
  BY <1>0, <1>2, ProfMend
<1>4. /\ calm /\ call.op = "save" =>
           live.active = p /\ call.doc = Profile!Captured /\ ProfEcho
      /\ call.op \in {"saveas", "import"} => profileFiles[p] = Profile!Missing
      /\ call.op = "rename" => Profile!Readable(p) /\ Profile!Read(p) = d
  BY <1>0, <1>1 DEF ProfInv, ProfTaken
<1>5. /\ profileFiles = [q \in Profile!Paths |-> profileFiles[q]]
      /\ \A q \in Profile!Paths : Profile!Readable(q) => ProfDoc(profileFiles[q])
  BY DEF ProfInv, ProfType, ProfFiles
<1>6. profileFiles'[p] = d /\ \A q \in Profile!Paths : q # p => profileFiles'[q] = profileFiles[q]
  BY <1>1, <1>2, <1>5
<1>7. ProfFiles'
  <2>1. profileFiles' = [q \in Profile!Paths |-> profileFiles'[q]]
    BY <1>1, <1>5
  <2>2. \A q \in Profile!Paths : Profile!Readable(q)' => ProfDoc(profileFiles'[q])
    BY <1>3, <1>5, <1>6 DEF Profile!Readable
  <2> QED BY <2>1, <2>2 DEF ProfFiles
<1>8. same' \in Profile!Paths \cup {Profile!NoPath}
  BY <1>1, <1>2 DEF ProfInv, ProfType
<1>9. calm' \in BOOLEAN
  BY <1>1 DEF ProfInv, ProfType
<1>10. ProfType'
  BY <1>1, <1>7, <1>8, <1>9 DEF ProfInv, ProfType, ProfLives
<1>11. \/ call' = Profile!NoCall
       \/ call' = Profile!Called("saveas", "apply", p, call.doc)
  BY <1>1, <1>2 DEF Profile!Called
<1>12. ProfCall'
  <2>1. CASE call' = Profile!NoCall
    BY <2>1 DEF ProfCall
  <2>2. CASE call' = Profile!Called("saveas", "apply", p, call.doc)
    <3>1. call'.op = "saveas" /\ call'.at = "apply" /\ call'.path = p /\ call'.doc = call.doc
      BY <2>2 DEF Profile!Called
    <3> QED BY <1>2, <2>2, <3>1 DEF ProfCall
  <2> QED BY <1>11, <2>1, <2>2
<1>13. Profile!Readable(p)' /\ Profile!Read(p)' = d
  BY <1>3, <1>6 DEF Profile!Readable, Profile!Read
<1>14. \A q \in Profile!Paths : q # p =>
         Profile!Readable(q)' = Profile!Readable(q) /\ Profile!Read(q)' = Profile!Read(q)
  BY <1>6 DEF Profile!Readable, Profile!Read
<1>15. ProfTaken'
  <2>1. CASE call' = Profile!NoCall
    BY <2>1 DEF ProfTaken, Profile!NoCall
  <2>2. CASE call' = Profile!Called("saveas", "apply", p, call.doc)
    <3>1. call'.op = "saveas" /\ call'.at = "apply" /\ call'.path = p /\ call'.doc = call.doc
      BY <2>2 DEF Profile!Called
    <3>2. Profile!Readable(call.path)' /\ Profile!Read(call.path)' = d
      BY <1>13, <3>1 DEF Profile!Readable, Profile!Read
    <3> QED BY <1>0, <3>1, <3>2 DEF ProfTaken
  <2> QED BY <1>11, <2>1, <2>2
<1>16. Profile!Captured' = Profile!Captured
  BY <1>1 DEF Profile!Captured
<1>17. ProfEcho' <=> ProfEcho
  BY <1>1 DEF ProfEcho, Profile!IsEcho
<1>18. ProfSame'
  <2> SUFFICES ASSUME same' # Profile!NoPath
        PROVE  /\ live.active = same' /\ Profile!Readable(same)'
               /\ Profile!Captured' = Profile!Read(same)' /\ ProfEcho'
    BY <1>1 DEF ProfSame
  <2>1. CASE call.op = "save"
    <3>1. calm /\ same' = p
      BY <1>1, <2>1
    <3>2. live.active = p /\ call.doc = Profile!Captured /\ ProfEcho
      BY <1>4, <2>1, <3>1
    <3>3. ProfDoc(Profile!Live(live))
      BY DEF ProfInv, ProfType, ProfLives, ProfSetup
    <3>4. Profile!Captured = d
      BY <1>0, <3>2, <3>3, ProfMend DEF Profile!Captured
    <3>5. Profile!Readable(same)' /\ Profile!Read(same)' = d
      BY <1>13, <3>1 DEF Profile!Readable, Profile!Read
    <3> QED BY <1>16, <1>17, <3>1, <3>2, <3>4, <3>5
  <2>2. CASE call.op # "save"
    <3>1. same' = same /\ same \in Profile!Paths
      BY <1>1, <2>2 DEF ProfInv, ProfType
    <3>2. /\ live.active = same /\ Profile!Readable(same)
          /\ Profile!Captured = Profile!Read(same) /\ ProfEcho
      BY <3>1 DEF ProfInv, ProfSame
    <3>3. Profile!Readable(same)' /\ Profile!Read(same)' = Profile!Read(same)
      <4>1. PICK r \in Profile!Paths : r = same
        BY <3>1
      <4>2. Profile!Readable(r)' /\ Profile!Read(r)' = Profile!Read(r)
        <5>1. CASE r = p
          <6>1. call.op = "rename"
            BY <1>2, <1>4, <2>2, <3>2, <4>1, <5>1 DEF Profile!Readable, Profile!Missing
          <6>2. Profile!Read(r) = d
            BY <1>4, <5>1, <6>1
          <6> QED BY <1>13, <5>1, <6>2
        <5>2. CASE r # p
          BY <1>14, <3>2, <4>1, <5>2
        <5> QED BY <5>1, <5>2
      <4>3. Profile!Readable(same)' = Profile!Readable(r)' /\ Profile!Read(same)' = Profile!Read(r)'
        BY <3>1, <4>1 DEF Profile!Readable, Profile!Read
      <4> QED BY <4>1, <4>2, <4>3
    <3> QED BY <1>16, <1>17, <3>1, <3>2, <3>3
  <2> QED BY <2>1, <2>2
<1>19. ProfSaved'
  BY <1>1 DEF ProfInv, ProfSaved
<1>20. ~overwritten'
  BY <1>1, <1>4 DEF ProfInv
<1> QED BY <1>10, <1>12, <1>15, <1>18, <1>19, <1>20 DEF ProfInv

\* A profile is deleted: another may take its name, and it is no longer the
\* active one, or the active one has no file (DeleteProfile).
LEMMA ProfDeletes == ProfInv /\ (\E p \in Profile!Paths : Profile!Delete(p)) => ProfInv'
<1> SUFFICES ASSUME ProfInv, NEW p \in Profile!Paths, Profile!Delete(p) PROVE ProfInv'
  OBVIOUS
<1>1. /\ call = Profile!NoCall /\ call' = call
      /\ profileFiles' = [profileFiles EXCEPT ![p] = Profile!Missing]
      /\ \/ /\ live.active = p
            /\ live' = [live EXCEPT !.active = Profile!NoPath] /\ disk' = live'
            /\ profilePending' = profilePending
         \/ UNCHANGED <<live, disk, profilePending>>
      /\ same' = IF same = p THEN Profile!NoPath ELSE same
      /\ UNCHANGED <<window, calm, overwritten>>
  BY DEF Profile!Delete, Profile!setup, Profile!Persist
<1>2. /\ profileFiles = [q \in Profile!Paths |-> profileFiles[q]]
      /\ \A q \in Profile!Paths : Profile!Readable(q) => ProfDoc(profileFiles[q])
      /\ ProfSetup(live) /\ ProfSetup(disk) /\ profilePending \in BOOLEAN
  BY DEF ProfInv, ProfType, ProfFiles, ProfLives
<1>3. ProfFiles'
  <2>1. profileFiles' = [q \in Profile!Paths |-> profileFiles'[q]]
    BY <1>1, <1>2
  <2>2. \A q \in Profile!Paths : profileFiles'[q] = IF q = p THEN Profile!Missing ELSE profileFiles[q]
    BY <1>1, <1>2
  <2>3. \A q \in Profile!Paths : Profile!Readable(q)' => ProfDoc(profileFiles'[q])
    BY <1>2, <2>2 DEF Profile!Readable, Profile!Missing
  <2> QED BY <2>1, <2>3 DEF ProfFiles
<1>4. ProfLives' /\ Profile!Live(live') = Profile!Live(live) /\ live'.width = live.width
  <2>1. CASE UNCHANGED <<live, disk, profilePending>>
    BY <1>2, <2>1 DEF ProfLives
  <2>2. CASE /\ live' = [live EXCEPT !.active = Profile!NoPath] /\ disk' = live'
             /\ profilePending' = profilePending
    <3>1. /\ live'.radios = live.radios /\ live'.blocks = live.blocks
          /\ live'.width = live.width /\ live'.active = Profile!NoPath
          /\ live' = [radios |-> live'.radios, blocks |-> live'.blocks, width |-> live'.width,
                      active |-> live'.active]
      BY <1>2, <2>2 DEF ProfSetup
    <3>2. Profile!Live(live') = Profile!Live(live)
      BY <3>1 DEF Profile!Live
    <3>3. ProfSetup(live)'
      BY <1>2, <3>1, <3>2 DEF ProfSetup
    <3> QED BY <1>2, <2>2, <3>1, <3>2, <3>3 DEF ProfLives
  <2> QED BY <1>1, <2>1, <2>2
<1>5. ProfType'
  <2>1. same' \in Profile!Paths \cup {Profile!NoPath}
    BY <1>1 DEF ProfInv, ProfType
  <2> QED BY <1>1, <1>3, <1>4, <2>1 DEF ProfInv, ProfType
<1>6. ProfCall' /\ ProfTaken'
  BY <1>1 DEF ProfCall, ProfTaken, Profile!NoCall
<1>7. ProfSaved'
  BY <1>1 DEF ProfInv, ProfSaved
<1>8. ProfSame'
  <2> SUFFICES ASSUME same' # Profile!NoPath
        PROVE  /\ live'.active = same' /\ Profile!Readable(same)'
               /\ Profile!Captured' = Profile!Read(same)' /\ ProfEcho'
    BY DEF ProfSame
  <2>1. same' = same /\ same # p /\ same \in Profile!Paths
    BY <1>1 DEF ProfInv, ProfType
  <2>2. /\ live.active = same /\ Profile!Readable(same)
        /\ Profile!Captured = Profile!Read(same) /\ ProfEcho
    BY <2>1 DEF ProfInv, ProfSame
  <2>3. live' = live
    BY <1>1, <2>1, <2>2
  <2>4. profileFiles'[same] = profileFiles[same]
    BY <1>1, <1>2, <2>1
  <2>5. Profile!Readable(same)' /\ Profile!Read(same)' = Profile!Read(same)
    BY <2>1, <2>2, <2>4 DEF Profile!Readable, Profile!Read
  <2>6. Profile!Captured' = Profile!Captured /\ ProfEcho'
    BY <1>1, <2>2, <2>3 DEF Profile!Captured, ProfEcho, Profile!IsEcho
  <2> QED BY <2>1, <2>2, <2>3, <2>5, <2>6
<1>9. ~overwritten'
  BY <1>1 DEF ProfInv
<1> QED BY <1>5, <1>6, <1>7, <1>8, <1>9 DEF ProfInv

\* A file is written by hand, never the one a call is about to write.
LEMMA ProfByHand ==
  ProfInv /\ (\E p \in Profile!Paths, d \in HandMade \cup {Profile!Unreadable} :
                Profile!HandEdit(p, d)) => ProfInv'
<1> SUFFICES ASSUME ProfInv, NEW p \in Profile!Paths,
          NEW d \in HandMade \cup {Profile!Unreadable}, Profile!HandEdit(p, d)
        PROVE ProfInv'
  OBVIOUS
<1>1. /\ ~(call.at = "write" /\ call.path = p) /\ call' = call
      /\ profileFiles' = [profileFiles EXCEPT ![p] = d]
      /\ same' = IF same = p THEN Profile!NoPath ELSE same
      /\ calm' = (calm /\ call.path # p)
      /\ UNCHANGED <<live, disk, profilePending, window, overwritten>>
  BY DEF Profile!HandEdit, Profile!setup
<1>2. /\ profileFiles = [q \in Profile!Paths |-> profileFiles[q]]
      /\ \A q \in Profile!Paths : Profile!Readable(q) => ProfDoc(profileFiles[q])
  BY DEF ProfInv, ProfType, ProfFiles
<1>3. \A q \in Profile!Paths : profileFiles'[q] = IF q = p THEN d ELSE profileFiles[q]
  BY <1>1, <1>2
<1>4. d.state = "ok" => ProfDoc(d)
  BY ProfileBounds DEF Profile!ProfilesAssumption, ProfDoc, Profile!Unreadable
<1>5. ProfFiles'
  <2>1. profileFiles' = [q \in Profile!Paths |-> profileFiles'[q]]
    BY <1>1, <1>2
  <2>2. \A q \in Profile!Paths : Profile!Readable(q)' => ProfDoc(profileFiles'[q])
    BY <1>2, <1>3, <1>4 DEF Profile!Readable
  <2> QED BY <2>1, <2>2 DEF ProfFiles
<1>6. ProfType'
  <2>1. same' \in Profile!Paths \cup {Profile!NoPath}
    BY <1>1 DEF ProfInv, ProfType
  <2>2. calm' \in BOOLEAN
    BY <1>1 DEF ProfInv, ProfType
  <2> QED BY <1>1, <1>5, <2>1, <2>2 DEF ProfInv, ProfType, ProfLives
<1>7. \A q \in Profile!Paths : q # p =>
        /\ profileFiles'[q] = profileFiles[q] /\ Profile!Readable(q)' = Profile!Readable(q)
        /\ Profile!Read(q)' = Profile!Read(q)
  BY <1>3 DEF Profile!Readable, Profile!Read
<1>8. Profile!Captured' = Profile!Captured /\ (ProfEcho' <=> ProfEcho)
  BY <1>1 DEF Profile!Captured, ProfEcho, Profile!IsEcho
<1>9. ProfCall'
  BY <1>1 DEF ProfInv, ProfCall
<1>10. ProfTaken'
  <2>1. CASE call = Profile!NoCall
    BY <1>1, <2>1 DEF ProfTaken, Profile!NoCall
  <2>2. CASE call # Profile!NoCall
    <3>1. PICK r \in Profile!Paths : r = call.path /\ r = call'.path
      BY <1>1, <2>2 DEF ProfInv, ProfCall
    <3>2. /\ call.at = "write" => r # p
          /\ call.at = "apply" /\ calm' => r # p /\ calm
      BY <1>1, <3>1
    <3>3. /\ call.at = "write" /\ call.op = "save" /\ calm =>
               live.active = call.path /\ call.doc = Profile!Captured /\ ProfEcho
          /\ call.at = "write" /\ call.op \in {"saveas", "import"} =>
               profileFiles[r] = Profile!Missing
          /\ call.at = "write" /\ call.op = "rename" =>
               Profile!Readable(r) /\ Profile!Read(r) = Profile!Reconcile(call.doc)
          /\ call.at = "apply" /\ calm =>
               Profile!Readable(r) /\ Profile!Read(r) = Profile!Reconcile(call.doc)
      BY <3>1 DEF ProfInv, ProfTaken
    <3>4. Profile!Readable(call.path)' = Profile!Readable(r)'
          /\ Profile!Read(call.path)' = Profile!Read(r)'
      BY <3>1 DEF Profile!Readable, Profile!Read
    <3>5. calm' => calm
      BY <1>1
    <3>6. call.at = "write" /\ call.op = "save" /\ calm' =>
            live'.active = call'.path /\ call'.doc = Profile!Captured' /\ ProfEcho'
      BY <1>1, <1>8, <3>3, <3>5
    <3>7. call.at = "write" /\ call.op \in {"saveas", "import"} =>
            profileFiles'[call'.path] = Profile!Missing
      BY <1>7, <3>1, <3>2, <3>3
    <3>8. call.at = "write" /\ call.op = "rename" =>
            Profile!Readable(call.path)' /\ Profile!Read(call.path)' = Profile!Reconcile(call.doc)
      BY <1>7, <3>2, <3>3, <3>4
    <3>9. call.at = "apply" /\ calm' =>
            Profile!Readable(call.path)' /\ Profile!Read(call.path)' = Profile!Reconcile(call.doc)
      BY <1>7, <3>2, <3>3, <3>4
    <3> QED BY <1>1, <3>6, <3>7, <3>8, <3>9 DEF ProfTaken
  <2> QED BY <2>1, <2>2
<1>11. ProfSame'
  <2> SUFFICES ASSUME same' # Profile!NoPath
        PROVE  /\ live'.active = same' /\ Profile!Readable(same)'
               /\ Profile!Captured' = Profile!Read(same)' /\ ProfEcho'
    BY DEF ProfSame
  <2>1. same' = same /\ same # p
    BY <1>1
  <2>2. PICK r \in Profile!Paths : r = same /\ r = same'
    BY <2>1 DEF ProfInv, ProfType
  <2>3. /\ live.active = r /\ Profile!Readable(r)
        /\ Profile!Captured = Profile!Read(r) /\ ProfEcho
    BY <2>1, <2>2 DEF ProfInv, ProfSame
  <2>4. Profile!Readable(r)' /\ Profile!Read(r)' = Profile!Read(r)
    BY <1>7, <2>1, <2>2, <2>3
  <2>5. Profile!Readable(same)' = Profile!Readable(r)' /\ Profile!Read(same)' = Profile!Read(r)'
    BY <2>2 DEF Profile!Readable, Profile!Read
  <2> QED BY <1>1, <1>8, <2>2, <2>3, <2>4, <2>5
<1>12. ProfSaved'
  BY <1>1 DEF ProfInv, ProfSaved
<1>13. ~overwritten'
  BY <1>1 DEF ProfInv
<1> QED BY <1>6, <1>9, <1>10, <1>11, <1>12, <1>13 DEF ProfInv

\* The live setup is edited: no profile is what is live, and a save that runs
\* has taken what was live before (persistRadios, SetCommsLayout, ResetLayout).
LEMMA ProfEdits ==
  ASSUME ProfInv, UNCHANGED <<profileFiles, call, overwritten>>, same' = Profile!NoPath,
         calm' \in BOOLEAN, calm' => calm /\ call.op # "save",
         ProfLives', window' \in Int, ProfSaved'
  PROVE  ProfInv'
<1>1. ProfType'
  BY DEF ProfInv, ProfType, ProfFiles, Profile!Readable
<1>2. ProfCall'
  BY DEF ProfInv, ProfCall
<1>3. ProfTaken'
  BY DEF ProfInv, ProfTaken, Profile!Readable, Profile!Read
<1>4. ProfSame'
  BY DEF ProfSame
<1>5. ~overwritten'
  BY DEF ProfInv
<1> QED BY <1>1, <1>2, <1>3, <1>4, <1>5 DEF ProfInv

\* A radio for each block, in a fresh layout (ResetLayout).
LEMMA ProfResets == ProfInv /\ Profile!ResetLayout => ProfInv'
<1> SUFFICES ASSUME ProfInv, Profile!ResetLayout PROVE ProfInv'
  OBVIOUS
<1> DEFINE bs == [n \in DOMAIN live.radios |-> Profile!BlockOf(live.radios[n].id)]
<1>1. /\ call = Profile!NoCall /\ disk' = live' /\ same' = Profile!NoPath
      /\ live' = [live EXCEPT !.width = DefaultW, !.blocks = bs]
      /\ UNCHANGED <<profileFiles, call, calm, overwritten, profilePending>>
  BY DEF Profile!ResetLayout, Profile!Persist
<1>2. PICK r \in {-windowEchoTolerancePx, 0, windowEchoTolerancePx} : window' = DefaultW + r
  BY DEF Profile!ResetLayout, Profile!SetGeometry
<1>3. DefaultW \in Nat /\ windowEchoTolerancePx \in Nat
  BY ProfileBounds DEF Profile!ProfilesAssumption
<1>4. ProfSetup(live) /\ profilePending \in BOOLEAN
  BY DEF ProfInv, ProfType, ProfLives
<1>5. Profile!AreRadios(live.radios)
  BY <1>4 DEF ProfSetup, ProfDoc, Profile!Live, Profile!Doc
<1>6. bs \in Seq(Profile!Block)
  <2>1. /\ Len(live.radios) \in Nat /\ DOMAIN live.radios = 1 .. Len(live.radios)
        /\ \A m \in 1 .. Len(live.radios) : live.radios[m].id \in Nat
    BY <1>5, ProfRadios
  <2>2. bs \in [1 .. Len(live.radios) -> Profile!Block]
    BY <2>1, ProfBlockOf
  <2> QED BY <2>1, <2>2, IsASeq
<1> HIDE DEF bs
<1>7. /\ live'.radios = live.radios /\ live'.blocks = bs
      /\ live'.width = DefaultW /\ live'.active = live.active
      /\ live' = [radios |-> live'.radios, blocks |-> live'.blocks, width |-> live'.width,
                  active |-> live'.active]
  BY <1>1, <1>4 DEF ProfSetup
<1>8. ProfDoc(Profile!Live(live'))
  BY <1>3, <1>5, <1>6, <1>7 DEF ProfDoc, Profile!Live, Profile!Doc
<1>9. ProfSetup(live)'
  BY <1>4, <1>7, <1>8 DEF ProfSetup
<1>10. ProfLives'
  BY <1>1, <1>4, <1>9 DEF ProfLives
<1>11. ProfSaved'
  BY <1>1 DEF ProfSaved
<1>12. window' \in Int
  BY <1>2, <1>3
<1>13. calm' \in BOOLEAN /\ (calm' => calm /\ call.op # "save")
  BY <1>1 DEF ProfInv, ProfType, Profile!NoCall
<1> QED BY <1>1, <1>10, <1>11, <1>12, <1>13, ProfEdits

\* The radios, the blocks or the window change (persistRadios, SetCommsLayout).
LEMMA ProfChanges ==
  ProfInv /\ (\/ \E rs \in RadioSets : Profile!EditRadios(rs)
              \/ \E bs \in BlockSets : Profile!SetCommsLayout(bs)
              \/ \E w \in Widths : Profile!Resize(w)) => ProfInv'
<1> SUFFICES ASSUME ProfInv,
          \/ \E rs \in RadioSets : Profile!EditRadios(rs)
          \/ \E bs \in BlockSets : Profile!SetCommsLayout(bs)
          \/ \E w \in Widths : Profile!Resize(w)
        PROVE ProfInv'
  OBVIOUS
<1>1. /\ ProfSetup(live) /\ ProfSetup(disk) /\ profilePending \in BOOLEAN
      /\ window \in Int /\ ProfSaved
  BY DEF ProfInv, ProfType, ProfLives
<1>2. /\ Profile!AreRadios(live.radios) /\ live.blocks \in Seq(Profile!Block)
      /\ live.width \in Int
      /\ live = [radios |-> live.radios, blocks |-> live.blocks, width |-> live.width,
                 active |-> live.active]
      /\ live.active \in Profile!Paths \cup {Profile!NoPath}
  BY <1>1 DEF ProfSetup, ProfDoc, Profile!Live, Profile!Doc
<1>3. CASE \E rs \in RadioSets : Profile!EditRadios(rs)
  <2>1. PICK rs \in RadioSets : Profile!EditRadios(rs)
    BY <1>3
  <2>2. /\ UNCHANGED <<profileFiles, call, overwritten, window, profilePending>>
        /\ same' = Profile!NoPath
        /\ calm' \in BOOLEAN /\ (calm' => calm /\ call.op # "save")
        /\ live' = [live EXCEPT !.radios = rs] /\ disk' = live'
    BY <2>1 DEF Profile!EditRadios, Profile!Edited, Profile!Persist
  <2>3. Profile!AreRadios(rs)
    BY ProfileBounds DEF Profile!ProfilesAssumption
  <2>4. /\ live'.radios = rs /\ live'.blocks = live.blocks
        /\ live'.width = live.width /\ live'.active = live.active
        /\ live' = [radios |-> live'.radios, blocks |-> live'.blocks, width |-> live'.width,
                    active |-> live'.active]
    BY <1>2, <2>2
  <2>5. ProfDoc(Profile!Live(live'))
    BY <1>2, <2>3, <2>4 DEF ProfDoc, Profile!Live, Profile!Doc
  <2>6. ProfSetup(live)'
    BY <1>2, <2>4, <2>5 DEF ProfSetup
  <2>7. ProfLives' /\ ProfSaved' /\ window' \in Int
    BY <1>1, <2>2, <2>6 DEF ProfLives, ProfSaved
  <2> QED BY <2>2, <2>7, ProfEdits
<1>4. CASE \E bs \in BlockSets : Profile!SetCommsLayout(bs)
  <2>1. PICK bs \in BlockSets : Profile!SetCommsLayout(bs)
    BY <1>4
  <2>2. /\ UNCHANGED <<profileFiles, call, overwritten, window, disk>>
        /\ same' = Profile!NoPath /\ profilePending' = TRUE
        /\ calm' \in BOOLEAN /\ (calm' => calm /\ call.op # "save")
        /\ live' = [live EXCEPT !.blocks = bs]
    BY <2>1 DEF Profile!SetCommsLayout, Profile!Edited
  <2>3. bs \in Seq(Profile!Block)
    BY ProfileBounds DEF Profile!ProfilesAssumption
  <2>4. /\ live'.radios = live.radios /\ live'.blocks = bs
        /\ live'.width = live.width /\ live'.active = live.active
        /\ live' = [radios |-> live'.radios, blocks |-> live'.blocks, width |-> live'.width,
                    active |-> live'.active]
    BY <1>2, <2>2
  <2>5. ProfDoc(Profile!Live(live'))
    BY <1>2, <2>3, <2>4 DEF ProfDoc, Profile!Live, Profile!Doc
  <2>6. ProfSetup(live)'
    BY <1>2, <2>4, <2>5 DEF ProfSetup
  <2>7. ProfLives'
    BY <1>1, <2>2, <2>6 DEF ProfLives, ProfSetup
  <2>8. ProfSaved' /\ window' \in Int
    BY <1>1, <2>2 DEF ProfSaved
  <2> QED BY <2>2, <2>7, <2>8, ProfEdits
<1>5. CASE \E w \in Widths : Profile!Resize(w)
  <2>1. PICK w \in Widths : Profile!Resize(w)
    BY <1>5
  <2>2. /\ UNCHANGED <<profileFiles, call, overwritten, live, disk, profilePending>>
        /\ same' = Profile!NoPath /\ window' = w
        /\ calm' \in BOOLEAN /\ (calm' => calm /\ call.op # "save")
    BY <2>1 DEF Profile!Resize, Profile!Edited, Profile!setup
  <2>3. window' \in Int
    BY <2>2, ProfileBounds DEF Profile!ProfilesAssumption
  <2>4. ProfLives' /\ ProfSaved'
    BY <1>1, <2>2 DEF ProfLives, ProfSaved
  <2> QED BY <2>2, <2>3, <2>4, ProfEdits
<1> QED BY <1>3, <1>4, <1>5

\* The window has come to rest: what it makes of a size it was given is not an
\* edit (captureCommsWindowSize).
LEMMA ProfSettles == ProfInv /\ Profile!Settles => ProfInv'
<1> SUFFICES ASSUME ProfInv, Profile!Settles PROVE ProfInv'
  OBVIOUS
<1>1. /\ window # Profile!AtRest /\ window' = Profile!AtRest
      /\ UNCHANGED <<profileFiles, disk, call, same, calm, overwritten>>
      /\ \/ Profile!IsEcho(window) /\ UNCHANGED <<live, profilePending>>
         \/ /\ ~Profile!IsEcho(window) /\ profilePending' = TRUE
            /\ live' = [live EXCEPT !.width = window]
  BY DEF Profile!Settles, Profile!history
<1>2. /\ ProfSetup(live) /\ ProfSetup(disk) /\ profilePending \in BOOLEAN
      /\ window \in Int /\ ProfSaved
  BY DEF ProfInv, ProfType, ProfLives
<1>3. ProfLives' /\ ProfSaved'
  <2>1. CASE UNCHANGED <<live, profilePending>>
    BY <1>1, <1>2, <2>1 DEF ProfLives, ProfSaved
  <2>2. CASE /\ profilePending' = TRUE
             /\ live' = [live EXCEPT !.width = window]
    <3>1. /\ Profile!AreRadios(live.radios) /\ live.blocks \in Seq(Profile!Block)
          /\ live.active \in Profile!Paths \cup {Profile!NoPath}
      BY <1>2 DEF ProfSetup, ProfDoc, Profile!Live, Profile!Doc
    <3>2. /\ live'.radios = live.radios /\ live'.blocks = live.blocks
          /\ live'.width = window /\ live'.active = live.active
          /\ live' = [radios |-> live'.radios, blocks |-> live'.blocks, width |-> live'.width,
                      active |-> live'.active]
      BY <1>2, <2>2 DEF ProfSetup
    <3>3. ProfDoc(Profile!Live(live'))
      BY <1>2, <3>1, <3>2 DEF ProfDoc, Profile!Live, Profile!Doc
    <3>4. ProfSetup(live)'
      BY <3>1, <3>2, <3>3 DEF ProfSetup
    <3> QED BY <1>1, <1>2, <2>2, <3>4 DEF ProfLives, ProfSaved
  <2> QED BY <1>1, <2>1, <2>2
<1>4. ProfType'
  <2>1. window' \in Int
    BY <1>1 DEF Profile!AtRest
  <2>2. ProfFiles'
    BY <1>1 DEF ProfInv, ProfType, ProfFiles, Profile!Readable
  <2> QED BY <1>1, <1>3, <2>1, <2>2 DEF ProfInv, ProfType
<1>5. ProfCall'
  BY <1>1 DEF ProfInv, ProfCall
<1>6. ProfEcho => live' = live /\ ProfEcho'
  BY <1>1 DEF ProfEcho
<1>7. live' = live => Profile!Captured' = Profile!Captured
  BY DEF Profile!Captured
<1>8. ProfSame'
  BY <1>1, <1>6, <1>7 DEF ProfInv, ProfSame, Profile!Readable, Profile!Read
<1>9. ProfTaken'
  BY <1>1, <1>6, <1>7 DEF ProfInv, ProfTaken, Profile!Readable, Profile!Read
<1>10. ~overwritten'
  BY <1>1 DEF ProfInv
<1> QED BY <1>3, <1>4, <1>5, <1>8, <1>9, <1>10 DEF ProfInv

\* The next start finds in the configuration what was live, if the end was
\* orderly or nothing was left to save (flushConfig).
LEMMA ProfRestarts == ProfInv /\ (\E orderly \in BOOLEAN : Profile!Restart(orderly)) => ProfInv'
<1> SUFFICES ASSUME ProfInv, NEW orderly \in BOOLEAN, Profile!Restart(orderly) PROVE ProfInv'
  OBVIOUS
<1>1. /\ disk' = IF orderly THEN IF profilePending THEN live ELSE disk ELSE disk
      /\ live' = disk' /\ profilePending' = FALSE /\ call' = Profile!NoCall
      /\ window' = Profile!AtRest /\ calm' = TRUE
      /\ same' = IF orderly \/ live = disk THEN same ELSE Profile!NoPath
      /\ UNCHANGED <<profileFiles, overwritten>>
  BY DEF Profile!Restart, Profile!Flushed
<1>2. ProfSetup(live) /\ ProfSetup(disk)
  BY DEF ProfInv, ProfType, ProfLives
<1>3. ProfLives' /\ ProfSaved'
  <2>1. disk' = live \/ disk' = disk
    BY <1>1
  <2>2. ProfSetup(live)' /\ ProfSetup(disk)'
    BY <1>1, <1>2, <2>1 DEF ProfSetup
  <2> QED BY <1>1, <2>2 DEF ProfLives, ProfSaved
<1>4. ProfType'
  <2>1. window' \in Int
    BY <1>1 DEF Profile!AtRest
  <2>2. ProfFiles'
    BY <1>1 DEF ProfInv, ProfType, ProfFiles, Profile!Readable
  <2>3. same' \in Profile!Paths \cup {Profile!NoPath}
    BY <1>1 DEF ProfInv, ProfType
  <2> QED BY <1>1, <1>3, <2>1, <2>2, <2>3 DEF ProfType
<1>5. ProfCall' /\ ProfTaken'
  BY <1>1 DEF ProfCall, ProfTaken, Profile!NoCall
<1>6. ~profilePending => live = disk
  BY DEF ProfInv, ProfSaved
<1>7. orderly \/ live = disk => live' = live
  BY <1>1, <1>6
<1>8. ProfEcho'
  BY <1>1 DEF ProfEcho
<1>9. live' = live => Profile!Captured' = Profile!Captured
  BY DEF Profile!Captured
<1>10. ProfSame'
  BY <1>1, <1>7, <1>8, <1>9 DEF ProfInv, ProfSame, Profile!Readable, Profile!Read
<1>11. ~overwritten'
  BY <1>1 DEF ProfInv
<1> QED BY <1>3, <1>4, <1>5, <1>10, <1>11 DEF ProfInv

\* No step of the program, of the user or of the folder breaks the invariant.
LEMMA ProfPreserved == ProfInv /\ [Profile!Next]_profilesVars => ProfInv'
<1> SUFFICES ASSUME ProfInv, [Profile!Next]_profilesVars PROVE ProfInv'
  OBVIOUS
<1>1. CASE UNCHANGED profilesVars
  <2>1. UNCHANGED <<profileFiles, live, disk, profilePending, call, window, same, calm, overwritten>>
    BY <1>1 DEF profilesVars
  <2>2. ProfCall' /\ ProfTaken' /\ calm' \in BOOLEAN
    BY <2>1 DEF ProfInv, ProfCall, ProfTaken, ProfType, ProfEcho, Profile!Readable, Profile!Read,
      Profile!Captured, Profile!IsEcho
  <2> QED BY <2>1, <2>2, ProfCalls
<1>2. CASE Profile!Next
  BY <1>2, ProfApplies, ProfLoads, ProfSaves, ProfNews, ProfRenames, ProfWrites, ProfDeletes,
    ProfByHand, ProfResets, ProfChanges, ProfSettles, ProfRestarts DEF Profile!Next
<1> QED BY <1>1, <1>2

\* A profile gives back what was saved to it (profileDirty, applyProfile), each
\* radio with one block (Reconcile), and is not put over another (uniqueProfilePath).
LEMMA ProfInvImplies == ProfInv => Profile!ProfilesAreKept
<1> SUFFICES ASSUME ProfInv PROVE Profile!ProfilesAreKept
  OBVIOUS
<1>1. Profile!CleanUntilEdited
  BY DEF ProfInv, ProfSame, Profile!CleanUntilEdited, Profile!Dirty
<1>2. Profile!OneBlockPerRadio
  <2> SUFFICES ASSUME NEW p \in Profile!Paths, Profile!Readable(p)
        PROVE  /\ Len(Profile!Read(p).blocks) = Len(profileFiles[p].radios)
               /\ {Profile!Read(p).blocks[n].radio : n \in DOMAIN Profile!Read(p).blocks}
                    = Profile!Ids(profileFiles[p].radios)
    BY DEF Profile!OneBlockPerRadio
  <2>1. ProfDoc(profileFiles[p])
    BY DEF ProfInv, ProfType, ProfFiles
  <2>2. /\ Profile!AreRadios(profileFiles[p].radios)
        /\ ProfGood(profileFiles[p].radios, Profile!Read(p).blocks)
    BY <2>1, ProfMend DEF ProfDoc, Profile!Read
  <2> QED BY <2>2, ProfCounts
<1>3. Profile!NothingIsOverwritten
  BY DEF ProfInv, Profile!NothingIsOverwritten
<1> QED BY <1>1, <1>2, <1>3 DEF Profile!ProfilesAreKept

(***************************************************************************)
(* The parts together                                                      *)
(***************************************************************************)

\* A step of the program is a step of one part and leaves the others alone.
LEMMA PartsSteps ==
  /\ PartsInit => Row!Init /\ Log!Init /\ Hook!Init /\ Capture!Init /\ Refresh!Init
                /\ Load!Init /\ Settings!Init /\ Windows!Init /\ Builtin!Init /\ Profile!Init
  /\ [PartsNext]_partsVars =>
       /\ [Row!Next]_rowVars /\ [Log!Next]_logVars /\ [Hook!Next]_hookVars
       /\ [Capture!Next]_captureVars /\ [Refresh!Next]_refreshVars /\ [Load!Next]_loadVars
       /\ [Settings!Next]_settingsVars /\ [Windows!Next]_windowsVars
       /\ [Builtin!Next]_builtinsVars /\ [Profile!Next]_profilesVars
  BY DEF PartsInit, PartsNext, partsVars

\* The history has a row for every transmission, once, whichever goroutine ended
\* it (endTransmission, endOpenRXStreams, rxDeliverLoop, Close); and a log that
\* counts as clean, or was flushed at quitting, is on file (Flush).
THEOREM HistoryKept == PartsSpec => []HistoryIsKept
<1>1. PartsInit => RowInv /\ LogInv
  BY PartsSteps, RowInitial, LogInitial
<1>2. RowInv /\ LogInv /\ [PartsNext]_partsVars => (RowInv /\ LogInv)'
  BY PartsSteps, RowPreserved, LogPreserved
<1>3. RowInv /\ LogInv => HistoryIsKept
  BY RowInvImplies, LogInvImplies DEF HistoryIsKept, Of
<1> QED BY <1>1, <1>2, <1>3, PTL DEF PartsSpec

\* A stream that dies under a held key is made good by one restart (planStream);
\* a capture binds its own row and gives the hotkeys back, though no end of it
\* may ever come (resumeCapture); and the hotkeys in force are those of the
\* radios and of the grant, built once (applyHotkeys).
THEOREM HotkeysAlwaysRecover == PartsSpec => []HotkeysRecover
<1> DEFINE HotkeyInv == HookInv /\ CapInv /\ RefInv
<1>1. PartsInit => HotkeyInv
  BY PartsSteps, HookInitial, CapInitial, RefInitial
<1>2. HotkeyInv /\ [PartsNext]_partsVars => HotkeyInv'
  BY PartsSteps, HookPreserved, CapPreserved, RefPreserved
<1>3. HotkeyInv => HotkeysRecover
  BY HookInvImplies, CapInvImplies, RefInvImplies DEF HotkeysRecover, Of
<1> QED BY <1>1, <1>2, <1>3, PTL DEF PartsSpec

\* A run of the load generator is accounted for: a join is in its report once and
\* no name is used twice (rampJoin), a death is counted once and is in one report
\* or still to be reported (fireDead, hold), and when the runner is gone every
\* connection is closed (shutdown).
THEOREM LoadAccounted == PartsSpec => []LoadIsAccounted
<1>1. PartsInit => LoadInv
  BY PartsSteps, LoadInitial
<1>2. LoadInv /\ [PartsNext]_partsVars => LoadInv'
  BY PartsSteps, LoadPreserved
<1>3. LoadInv => LoadIsAccounted
  BY LoadInvImplies DEF LoadIsAccounted, Of
<1> QED BY <1>1, <1>2, <1>3, PTL DEF PartsSpec

\* What was saved is on file, and what was put on file comes back: the settings
\* after a reload and a crash (persistCfg, flushConfig), a window at its place
\* (settleBounds, persist), a shipped profile the user has changed or thrown away
\* (Seed), and a comms profile as it was saved, clean until it is edited
\* (applyProfile, profileDirty, uniqueProfilePath).
THEOREM FilesKept == PartsSpec => []FilesAreKept
<1> DEFINE FilesInv == SetInv /\ WinInv /\ BuiltInv /\ ProfInv
<1>1. PartsInit => FilesInv
  BY PartsSteps, SetInitial, WinInitial, BuiltInitial, ProfInitial
<1>2. FilesInv /\ [PartsNext]_partsVars => FilesInv'
  BY PartsSteps, SetPreserved, WinPreserved, BuiltPreserved, ProfPreserved
<1>3. FilesInv => FilesAreKept
  BY SetInvImplies, WinInvImplies, BuiltInvImplies, ProfInvImplies DEF FilesAreKept, Of
<1> QED BY <1>1, <1>2, <1>3, PTL DEF PartsSpec
=============================================================================
