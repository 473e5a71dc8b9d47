------------------------------- MODULE SceneProofs -------------------------------
(***************************************************************************)
(* Proofs about SceneActor for any number of events and drains and any     *)
(* number of failures, crashes and changes of persona.                     *)
(*                                                                         *)
(* What a drain claims is a run of inbox numbers that starts right behind  *)
(* the cursor, and only the holder of the lock claims.  From this the      *)
(* event to be processed is always the successor of the last committed     *)
(* one, and the world and every snapshot are prefixes of the inbox.        *)
(***************************************************************************)
EXTENDS SceneActor, SequenceTheorems, FiniteSetTheorems, TLAPS

Statuses == {"absent", "pending", "processing", "failed", "committed"}

(* Each published event has one inbox row. *)
InboxOnce ==
  /\ inbox \in Seq(Events)
  /\ status \in [Events -> Statuses]
  /\ \A i, j \in Numbers : inbox[i] = inbox[j] => i = j
  /\ \A i \in Numbers : status[inbox[i]] # "absent"

(* The snapshot never runs ahead of the cursor. *)
SavedIsPrefix ==
  /\ saved.last \in 0 .. cursor
  /\ saved.world = SubSeq(inbox, 1, saved.last)

WorldIsPrefix == up => world = SubSeq(inbox, 1, cursor)

(* What drain d may hold: the lock while it claims, and a run behind the   *)
(* cursor.                                                                 *)
IsDrain(d, c) ==
  /\ c = [pc |-> c.pc, batch |-> c.batch, todo |-> c.todo, kept |-> c.kept]
  /\ c.pc # "idle" => up
  /\ c.pc # "claiming" => c.batch = {}
  /\ c.pc = "claiming" =>
       /\ lock = {d}
       /\ \E k \in cursor .. Len(inbox) : c.batch = cursor + 1 .. k

DrainsOrderly ==
  /\ drain = [d \in Drains |-> drain[d]]
  /\ \A d \in Drains : IsDrain(d, drain[d])

IInv ==
  /\ InboxOnce
  /\ cursor \in 0 .. Len(inbox)
  /\ CommittedPrefix
  /\ SavedIsPrefix
  /\ WorldIsPrefix
  /\ DrainsOrderly
-----------------------------------------------------------------------------
(***************************************************************************)
(* Prefixes of the inbox.                                                  *)
(***************************************************************************)
LEMMA InboxFacts ==
  ASSUME IInv
  PROVE  /\ Len(inbox) \in Nat /\ cursor \in Nat /\ saved.last \in Nat
         /\ Numbers = 1 .. Len(inbox)
         /\ \A i \in Numbers : inbox[i] \in Events
PROOF
  <1>1. Len(inbox) \in Nat
        BY LenProperties DEF IInv, InboxOnce
  <1>2. \A i \in Numbers : inbox[i] \in Events
        BY ElementOfSeq DEF IInv, InboxOnce, Numbers
  <1>3. QED
        BY <1>1, <1>2 DEF IInv, SavedIsPrefix, Numbers

(* A longer inbox has the same prefixes. *)
LEMMA PrefixOfLonger ==
  ASSUME IInv, NEW e \in Events, NEW k \in 0 .. Len(inbox)
  PROVE  SubSeq(Append(inbox, e), 1, k) = SubSeq(inbox, 1, k)
PROOF
  <1>1. inbox \in Seq(Events) /\ Len(inbox) \in Nat
        BY InboxFacts DEF IInv, InboxOnce
  <1>2. CASE k = 0
        BY <1>2, SubSeqEmpty
  <1>3. CASE k # 0
    <2>1. /\ \A i \in 1 .. k : inbox[i] \in Events
          /\ \A i \in 1 .. k : Append(inbox, e)[i] = inbox[i]
          BY <1>1, ElementOfSeq, AppendProperties
    <2>2. /\ SubSeq(inbox, 1, k) \in Seq(Events)
          /\ Len(SubSeq(inbox, 1, k)) = k
          /\ \A i \in 1 .. k : SubSeq(inbox, 1, k)[i] = inbox[i]
          BY <1>1, <1>3, <2>1, SubSeqProperties
    <2>3. /\ SubSeq(Append(inbox, e), 1, k) \in Seq(Events)
          /\ Len(SubSeq(Append(inbox, e), 1, k)) = k
          /\ \A i \in 1 .. k : SubSeq(Append(inbox, e), 1, k)[i] = inbox[i]
          BY <1>1, <1>3, <2>1, SubSeqProperties
    <2>4. QED
          BY <2>2, <2>3, SeqEqual
  <1>4. QED
        BY <1>2, <1>3

(* Replay on top of the snapshot is the prefix up to the cursor. *)
LEMMA ReplayIsPrefix == IInv => Replayed = SubSeq(inbox, 1, cursor)
PROOF
  <1> SUFFICES ASSUME IInv PROVE Replayed = SubSeq(inbox, 1, cursor)
      OBVIOUS
  <1>1. inbox \in Seq(Events) /\ Len(inbox) \in Nat /\ cursor \in 0 .. Len(inbox)
        BY InboxFacts DEF IInv, InboxOnce
  <1>2. /\ 1 \in 1 .. Len(inbox) + 1
        /\ saved.last \in (1 - 1) .. Len(inbox)
        /\ cursor \in saved.last .. Len(inbox)
        BY <1>1 DEF IInv, SavedIsPrefix
  <1>3. SubSeq(inbox, 1, saved.last) \o SubSeq(inbox, saved.last + 1, cursor)
          = SubSeq(inbox, 1, cursor)
        BY <1>1, <1>2, ConcatAdjacentSubSeq
  <1>4. QED
        BY <1>3 DEF Replayed, IInv, SavedIsPrefix

(* One more event projected is the next prefix. *)
LEMMA NextPrefix ==
  ASSUME IInv, cursor + 1 \in Numbers
  PROVE  Append(SubSeq(inbox, 1, cursor), inbox[cursor + 1])
           = SubSeq(inbox, 1, cursor + 1)
PROOF
  <1>1. inbox \in Seq(Events) /\ Len(inbox) \in Nat /\ cursor \in 0 .. Len(inbox)
        /\ cursor + 1 \in 1 .. Len(inbox) /\ inbox[cursor + 1] \in Events
        BY InboxFacts DEF IInv, InboxOnce, Numbers
  <1>2. SubSeq(inbox, 1, cursor) \in Seq(Events)
        BY <1>1, ElementOfSeq, SubSeqProperties
  <1>3. SubSeq(inbox, 1, cursor + 1)
          = SubSeq(inbox, 1, (cursor + 1) - 1) \o <<inbox[cursor + 1]>>
        BY <1>1, SubSeqRecursiveSecond
  <1>4. QED
        BY <1>1, <1>2, <1>3, AppendIsConcat
-----------------------------------------------------------------------------
(***************************************************************************)
(* Drains.                                                                 *)
(***************************************************************************)
LEMMA IdleIsDrain == \A d \in Drains : IsDrain(d, Idle)
PROOF BY DEF IsDrain, Idle

(* The first claimed number is the one behind the cursor. *)
LEMMA FirstIsNext ==
  ASSUME IInv, NEW d \in Drains, drain[d].pc = "claiming", drain[d].batch # {}
  PROVE  /\ First(drain[d].batch) = cursor + 1
         /\ cursor + 1 \in Numbers
         /\ lock = {d}
         /\ \E k \in cursor + 1 .. Len(inbox) : drain[d].batch = cursor + 1 .. k
PROOF
  <1>1. cursor \in Nat /\ Len(inbox) \in Nat
        BY InboxFacts
  <1>2. PICK k \in cursor .. Len(inbox) : drain[d].batch = cursor + 1 .. k
        BY DEF IInv, DrainsOrderly, IsDrain
  <1>3. k \in cursor + 1 .. Len(inbox)
        BY <1>1, <1>2
  <1>4. First(cursor + 1 .. k) = cursor + 1
    <2>1. cursor + 1 \in cursor + 1 .. k
          BY <1>1, <1>3
    <2>2. \A i \in cursor + 1 .. k :
            (\A j \in cursor + 1 .. k : i <= j) <=> i = cursor + 1
          BY <1>1, <1>3, <2>1
    <2>3. QED
          BY <2>1, <2>2 DEF First
  <1>5. QED
        BY <1>1, <1>2, <1>3, <1>4 DEF IInv, DrainsOrderly, IsDrain, Numbers

(* Everything behind the cursor can be claimed. *)
LEMMA ClaimableIsRest == IInv => Claimable = cursor + 1 .. Len(inbox)
PROOF
  <1> SUFFICES ASSUME IInv PROVE Claimable = cursor + 1 .. Len(inbox)
      OBVIOUS
  <1>1. \A i \in Numbers :
          i > cursor => status[inbox[i]] \in {"pending", "failed", "processing"}
        BY InboxFacts DEF IInv, InboxOnce, CommittedPrefix, Statuses
  <1>2. QED
        BY <1>1, InboxFacts DEF Claimable

(* A drain that claims nothing (any more). *)
Bare(c) ==
  /\ c = [pc |-> c.pc, batch |-> c.batch, todo |-> c.todo, kept |-> c.kept]
  /\ c.pc # "claiming" /\ c.batch = {}

LEMMA IdleIsBare == Bare(Idle) /\ Idle.pc = "idle"
PROOF BY DEF Bare, Idle

LEMMA JudgingIsBare ==
  ASSUME NEW todo, NEW kept
  PROVE  Bare([pc |-> "judging", batch |-> {}, todo |-> todo, kept |-> kept])
PROOF BY DEF Bare

LEMMA BecomesBare ==
  ASSUME IInv, NEW d \in Drains, NEW c, drain' = [drain EXCEPT ![d] = c], Bare(c),
         c.pc = "idle" \/ drain[d].pc # "idle",
         lock' = lock \/ lock' = lock \ {d},
         UNCHANGED <<inbox, cursor, up>>
  PROVE  DrainsOrderly'
PROOF
  <1>1. ASSUME NEW x \in Drains PROVE IsDrain(x, drain[x])'
    <2>1. CASE x = d
          BY <2>1 DEF IInv, DrainsOrderly, IsDrain, Bare
    <2>2. CASE x # d
          BY <2>2 DEF IInv, DrainsOrderly, IsDrain
    <2>3. QED
          BY <2>1, <2>2
  <1>2. drain' = [x \in Drains |-> drain'[x]]
        BY DEF IInv, DrainsOrderly
  <1>3. QED
        BY <1>1, <1>2 DEF DrainsOrderly

LEMMA DroppedIsOrderly ==
  ASSUME IInv, NEW d \in Drains, Dropped(d), UNCHANGED <<inbox, cursor, up>>
  PROVE  DrainsOrderly'
PROOF BY IdleIsBare, BecomesBare DEF Dropped

LEMMA JudgingIsOrderly ==
  ASSUME IInv, NEW d \in Drains, NEW todo, NEW kept, Judging(d, todo, kept),
         drain[d].pc # "idle", UNCHANGED <<inbox, cursor, up, lock>>
  PROVE  DrainsOrderly'
PROOF
  <1>1. PICK c : /\ c = IF todo = {} THEN Idle
                        ELSE [pc |-> "judging", batch |-> {}, todo |-> todo,
                              kept |-> kept]
                 /\ drain' = [drain EXCEPT ![d] = c]
        BY DEF Judging
  <1>2. Bare(c)
        BY <1>1, IdleIsBare, JudgingIsBare
  <1>3. QED
        BY <1>1, <1>2, BecomesBare

(* A step that leaves the inbox, its rows, the snapshot and the world.     *)
LEMMA StoreUntouched ==
  ASSUME IInv, DrainsOrderly', UNCHANGED <<inbox, status, cursor, saved, up, world>>
  PROVE  IInv'
PROOF BY DEF IInv, InboxOnce, CommittedPrefix, Numbers, SavedIsPrefix, WorldIsPrefix
-----------------------------------------------------------------------------
(***************************************************************************)
(* The actions, those that touch the inbox, the cursor or the world first. *)
(***************************************************************************)
LEMMA PublishIsSafe ==
  ASSUME IInv, NEW e \in Events, Publish(e) PROVE IInv'
PROOF
  <1>1. /\ inbox \in Seq(Events) /\ Len(inbox) \in Nat /\ cursor \in 0 .. Len(inbox)
        /\ saved.last \in 0 .. Len(inbox)
        BY InboxFacts DEF IInv, InboxOnce, SavedIsPrefix
  <1>2. /\ inbox' \in Seq(Events)
        /\ Len(inbox') = Len(inbox) + 1
        /\ \A i \in Numbers : inbox'[i] = inbox[i]
        /\ inbox'[Len(inbox) + 1] = e
        /\ Numbers' = Numbers \cup {Len(inbox) + 1}
        BY <1>1, AppendProperties DEF Publish, Numbers
  <1>3. \A i \in Numbers : inbox[i] # e
        BY DEF Publish, IInv, InboxOnce
  <1>4. InboxOnce'
    <2>1. status' \in [Events -> Statuses]
          BY DEF Publish, IInv, InboxOnce, Statuses
    <2>2. \A i, j \in Numbers' : inbox'[i] = inbox'[j] => i = j
      <3>1. \A i, j \in Numbers : inbox[i] = inbox[j] => i = j
            BY DEF IInv, InboxOnce
      <3>2. \A i \in Numbers' : i \in Numbers \/ i = Len(inbox) + 1
            BY <1>2
      <3>3. QED
            BY <1>2, <1>3, <3>1, <3>2
    <2>3. \A i \in Numbers' : status'[inbox'[i]] # "absent"
          BY <1>2, <1>3, InboxFacts DEF Publish, IInv, InboxOnce
    <2>4. QED
          BY <1>2, <2>1, <2>2, <2>3 DEF InboxOnce
  <1>5. CommittedPrefix'
    <2>1. status'[e] = "pending" /\ cursor' = cursor
          BY DEF Publish, IInv, InboxOnce
    <2>2. \A i \in Numbers : status'[inbox'[i]] = status[inbox[i]]
          BY <1>2, <1>3, InboxFacts DEF Publish, IInv, InboxOnce
    <2>3. QED
          BY <1>1, <1>2, <2>1, <2>2 DEF IInv, CommittedPrefix
  <1>6. /\ SubSeq(inbox', 1, cursor) = SubSeq(inbox, 1, cursor)
        /\ SubSeq(inbox', 1, saved.last) = SubSeq(inbox, 1, saved.last)
        BY <1>1, PrefixOfLonger DEF Publish
  <1>7. SavedIsPrefix' /\ WorldIsPrefix'
        BY <1>6 DEF Publish, memory, IInv, SavedIsPrefix, WorldIsPrefix
  <1>8. DrainsOrderly'
        BY <1>1, <1>2
           DEF Publish, memory, callers, IInv, DrainsOrderly, IsDrain
  <1>9. QED
        BY <1>1, <1>2, <1>4, <1>5, <1>7, <1>8 DEF IInv, Publish

LEMMA BeginDrainIsSafe ==
  ASSUME IInv, NEW d \in Drains, BeginDrain(d) PROVE IInv'
PROOF
  <1>1. PICK todo : drain' = [drain EXCEPT ![d] =
                       [Idle EXCEPT !.pc = "claiming", !.todo = todo]]
        BY DEF BeginDrain
  <1>2. PICK c : c = [pc |-> "claiming", batch |-> {}, todo |-> todo, kept |-> {}]
        OBVIOUS
  <1>3. drain' = [drain EXCEPT ![d] = c] /\ lock' = {d}
        BY <1>1, <1>2 DEF BeginDrain, Idle
  <1>4. cursor \in Nat /\ Len(inbox) \in Nat /\ cursor \in cursor .. Len(inbox)
        BY InboxFacts DEF IInv
  <1>5. c.batch = cursor + 1 .. cursor
        BY <1>2, <1>4
  <1>6. ASSUME NEW x \in Drains PROVE IsDrain(x, drain[x])'
    <2>1. CASE x = d
          BY <2>1, <1>2, <1>3, <1>4, <1>5
             DEF IInv, DrainsOrderly, IsDrain, BeginDrain, store
    <2>2. CASE x # d
          BY <2>2, <1>3 DEF IInv, DrainsOrderly, IsDrain, BeginDrain, store
    <2>3. QED
          BY <2>1, <2>2
  <1>7. drain' = [x \in Drains |-> drain'[x]]
        BY <1>3 DEF IInv, DrainsOrderly
  <1>8. DrainsOrderly'
        BY <1>6, <1>7 DEF DrainsOrderly
  <1>9. QED
        BY <1>8, StoreUntouched DEF BeginDrain, store

LEMMA ClaimIsSafe ==
  ASSUME IInv, NEW d \in Drains, Claim(d) PROVE IInv'
PROOF
  <1>1. Claimable = cursor + 1 .. Len(inbox) /\ cursor \in Nat /\ Len(inbox) \in Nat
        BY ClaimableIsRest, InboxFacts
  <1>2. UNCHANGED <<inbox, cursor, saved, up, world, lock>>
        BY DEF Claim, memory
  <1>3. \A i \in Numbers : status'[inbox[i]] =
          IF i > cursor THEN "processing" ELSE status[inbox[i]]
    <2>1. \A i, j \in Numbers : inbox[i] = inbox[j] => i = j
          BY DEF IInv, InboxOnce
    <2>2. \A i \in Numbers : i \in Claimable <=> i > cursor
          BY <1>1 DEF Numbers
    <2>3. Claimable \subseteq Numbers
          BY DEF Claimable
    <2>4. \A i \in Numbers :
            (\E j \in Claimable : inbox[j] = inbox[i]) <=> i > cursor
          BY <2>1, <2>2, <2>3
    <2>5. status' = [x \in Events |->
            IF \E j \in Claimable : inbox[j] = x THEN "processing" ELSE status[x]]
          BY DEF Claim
    <2>6. QED
          BY <2>4, <2>5, InboxFacts
  <1>4. InboxOnce'
    <2>1. status' \in [Events -> Statuses]
          BY DEF Claim, IInv, InboxOnce, Statuses
    <2>2. QED
          BY <1>2, <1>3, <2>1 DEF IInv, InboxOnce, Numbers
  <1>5. CommittedPrefix'
        BY <1>1, <1>2, <1>3 DEF IInv, CommittedPrefix, Numbers
  <1>6. PICK c : c = [drain[d] EXCEPT !.batch = Claimable]
                 /\ drain' = [drain EXCEPT ![d] = c]
        BY DEF Claim, IInv, DrainsOrderly
  <1>7. /\ c = [pc |-> c.pc, batch |-> c.batch, todo |-> c.todo, kept |-> c.kept]
        /\ c.pc = "claiming" /\ c.batch = cursor + 1 .. Len(inbox)
        BY <1>1, <1>6 DEF Claim, IInv, DrainsOrderly, IsDrain
  <1>8. ASSUME NEW x \in Drains PROVE IsDrain(x, drain[x])'
    <2>1. CASE x = d
          BY <2>1, <1>1, <1>2, <1>6, <1>7 DEF Claim, IInv, DrainsOrderly, IsDrain
    <2>2. CASE x # d
          BY <2>2, <1>2, <1>6 DEF IInv, DrainsOrderly, IsDrain
    <2>3. QED
          BY <2>1, <2>2
  <1>9. drain' = [x \in Drains |-> drain'[x]]
        BY <1>6 DEF IInv, DrainsOrderly
  <1>10. DrainsOrderly'
        BY <1>8, <1>9 DEF DrainsOrderly
  <1>11. QED
        BY <1>2, <1>4, <1>5, <1>10 DEF IInv, SavedIsPrefix, WorldIsPrefix

LEMMA ProcessIsSafe ==
  ASSUME IInv, NEW d \in Drains, Process(d) PROVE IInv'
PROOF
  <1> DEFINE e == inbox[cursor + 1]
  <1>1. /\ First(drain[d].batch) = cursor + 1
        /\ cursor + 1 \in Numbers
        /\ lock = {d}
        BY FirstIsNext DEF Process
  <1>2. /\ cursor \in Nat /\ Len(inbox) \in Nat /\ cursor + 1 \in 1 .. Len(inbox)
        /\ e \in Events
        BY <1>1, InboxFacts
  <1>3. up /\ drain[d].pc = "claiming"
        BY DEF Process, IInv, DrainsOrderly, IsDrain
  <1>4. /\ world' = Append(world, e)
        /\ cursor' = cursor + 1
        /\ status' = [status EXCEPT ![e] = "committed"]
        /\ saved' = saved \/ saved' = [last |-> cursor + 1, world |-> world']
        /\ UNCHANGED <<inbox, up, lock>>
        BY <1>1 DEF Process
  <1>5. world' = SubSeq(inbox, 1, cursor + 1)
        BY <1>1, <1>3, <1>4, NextPrefix DEF IInv, WorldIsPrefix
  <1>6. SavedIsPrefix' /\ WorldIsPrefix'
    <2>1. CASE saved' = saved
          BY <2>1, <1>2, <1>4, <1>5, InboxFacts DEF IInv, SavedIsPrefix, WorldIsPrefix
    <2>2. CASE saved' = [last |-> cursor + 1, world |-> world']
          BY <2>2, <1>2, <1>4, <1>5 DEF SavedIsPrefix, WorldIsPrefix
    <2>3. QED
          BY <1>4, <2>1, <2>2
  <1>7. \A i \in Numbers :
          status'[inbox[i]] = IF i = cursor + 1 THEN "committed" ELSE status[inbox[i]]
        BY <1>1, <1>2, <1>4, InboxFacts DEF IInv, InboxOnce
  <1>8. InboxOnce'
    <2>1. status' \in [Events -> Statuses]
          BY <1>4 DEF IInv, InboxOnce, Statuses
    <2>2. QED
          BY <1>4, <1>7, <2>1 DEF IInv, InboxOnce, Numbers
  <1>9. CommittedPrefix'
        BY <1>2, <1>4, <1>7 DEF IInv, CommittedPrefix, Numbers
  <1>10. PICK todo : drain' = [drain EXCEPT ![d].batch = @ \ {cursor + 1},
                                            ![d].todo = todo]
        BY <1>1 DEF Process
  <1>11. PICK c : c = [drain[d] EXCEPT !.batch = @ \ {cursor + 1}, !.todo = todo]
        OBVIOUS
  <1>12. drain' = [drain EXCEPT ![d] = c]
        BY <1>10, <1>11 DEF IInv, DrainsOrderly
  <1>13. PICK k \in cursor + 1 .. Len(inbox) : drain[d].batch = cursor + 1 .. k
        BY FirstIsNext DEF Process
  <1>14. /\ c = [pc |-> c.pc, batch |-> c.batch, todo |-> c.todo, kept |-> c.kept]
         /\ c.pc = "claiming" /\ c.batch = (cursor + 1 .. k) \ {cursor + 1}
    <2>1. drain[d] = [pc |-> drain[d].pc, batch |-> drain[d].batch,
                      todo |-> drain[d].todo, kept |-> drain[d].kept]
          BY DEF IInv, DrainsOrderly, IsDrain
    <2>2. c = [pc |-> drain[d].pc, batch |-> drain[d].batch \ {cursor + 1},
               todo |-> todo, kept |-> drain[d].kept]
          BY <1>11, <2>1
    <2>3. QED
          BY <1>3, <1>13, <2>2
  <1>15. c.batch = (cursor + 1) + 1 .. k
        BY <1>2, <1>13, <1>14
  <1>16. ASSUME NEW x \in Drains PROVE IsDrain(x, drain[x])'
    <2>1. CASE x = d
          BY <2>1, <1>1, <1>3, <1>4, <1>12, <1>13, <1>14, <1>15
             DEF IInv, DrainsOrderly, IsDrain
    <2>2. CASE x # d
          BY <2>2, <1>1, <1>4, <1>12 DEF IInv, DrainsOrderly, IsDrain
    <2>3. QED
          BY <2>1, <2>2
  <1>17. drain' = [x \in Drains |-> drain'[x]]
        BY <1>12 DEF IInv, DrainsOrderly
  <1>18. DrainsOrderly'
        BY <1>16, <1>17 DEF DrainsOrderly
  <1>19. QED
        BY <1>2, <1>4, <1>6, <1>8, <1>9, <1>18 DEF IInv

(* A failed commit leaves the event behind the cursor, claimable again.    *)
LEMMA ProcessFailsIsSafe ==
  ASSUME IInv, NEW d \in Drains, ProcessFails(d) PROVE IInv'
PROOF
  <1>1. /\ First(drain[d].batch) = cursor + 1
        /\ cursor + 1 \in Numbers
        /\ cursor \in Nat
        BY FirstIsNext, InboxFacts DEF ProcessFails
  <1>2. /\ status' = [status EXCEPT ![inbox[cursor + 1]] = "failed"]
        /\ Dropped(d)
        /\ UNCHANGED <<inbox, cursor, saved, up, world>>
        BY <1>1 DEF ProcessFails
  <1>3. \A i \in Numbers :
          status'[inbox[i]] = IF i = cursor + 1 THEN "failed" ELSE status[inbox[i]]
        BY <1>1, <1>2, InboxFacts DEF IInv, InboxOnce
  <1>4. InboxOnce'
    <2>1. status' \in [Events -> Statuses]
          BY <1>2 DEF IInv, InboxOnce, Statuses
    <2>2. QED
          BY <1>2, <1>3, <2>1 DEF IInv, InboxOnce, Numbers
  <1>5. CommittedPrefix'
        BY <1>1, <1>2, <1>3 DEF IInv, CommittedPrefix, Numbers
  <1>6. DrainsOrderly'
        BY <1>2, DroppedIsOrderly
  <1>7. QED
        BY <1>2, <1>4, <1>5, <1>6 DEF IInv, SavedIsPrefix, WorldIsPrefix

LEMMA EndClaimIsSafe ==
  ASSUME IInv, NEW d \in Drains, EndClaim(d) PROVE IInv'
PROOF
  <1>1. /\ drain[d].pc = "claiming" /\ drain[d].batch = {}
        /\ lock = {d} /\ lock' = {}
        /\ UNCHANGED <<inbox, status, cursor, saved, up, world>>
        BY DEF EndClaim, IInv, DrainsOrderly, IsDrain, store, memory
  <1>2. PICK todo : drain' = [drain EXCEPT ![d].pc = "flushing", ![d].todo = todo]
        BY DEF EndClaim
  <1>3. PICK c : c = [drain[d] EXCEPT !.pc = "flushing", !.todo = todo]
        OBVIOUS
  <1>4. drain' = [drain EXCEPT ![d] = c]
        BY <1>2, <1>3 DEF IInv, DrainsOrderly
  <1>5. Bare(c)
    <2>1. drain[d] = [pc |-> drain[d].pc, batch |-> drain[d].batch,
                      todo |-> drain[d].todo, kept |-> drain[d].kept]
          BY DEF IInv, DrainsOrderly, IsDrain
    <2>2. c = [pc |-> "flushing", batch |-> {}, todo |-> todo,
               kept |-> drain[d].kept]
          BY <1>1, <1>3, <2>1
    <2>3. QED
          BY <2>2 DEF Bare
  <1>6. DrainsOrderly'
        BY <1>1, <1>4, <1>5, BecomesBare
  <1>7. QED
        BY <1>1, <1>6, StoreUntouched

(* Flushing and judging touch requests and the window only. *)
LEMMA OnlyJudging ==
  ASSUME IInv, NEW d \in Drains, drain[d].pc # "idle",
         NEW todo, NEW kept, Judging(d, todo, kept),
         UNCHANGED <<inbox, status, cursor, saved, up, world, lock>>
  PROVE  IInv'
PROOF BY JudgingIsOrderly, StoreUntouched

LEMMA FlushIsSafe ==
  ASSUME IInv, NEW d \in Drains, FlushNothing(d) \/ FlushDue(d) PROVE IInv'
PROOF
  <1>1. CASE FlushNothing(d)
        BY <1>1, OnlyJudging DEF FlushNothing, store, memory
  <1>2. CASE FlushDue(d)
    <2>1. Judging(d, drain[d].todo \cup cached \X {AmbientFrame(w) : w \in window}, {})
          BY <1>2 DEF FlushDue
    <2>2. /\ drain[d].pc = "flushing"
          /\ UNCHANGED <<inbox, status, cursor, saved, up, world, lock>>
          BY <1>2 DEF FlushDue
    <2>3. QED
          BY <2>1, <2>2, OnlyJudging
  <1>3. QED
        BY <1>1, <1>2

LEMMA JudgeIsSafe ==
  ASSUME IInv, NEW d \in Drains, NEW r, NEW f,
         Accept(d, r, f) \/ Reject(d, r, f) \/ Discard(d, r, f)
  PROVE  IInv'
PROOF
  <1>1. CASE Accept(d, r, f)
        BY <1>1, OnlyJudging DEF Accept
  <1>2. CASE Reject(d, r, f)
        BY <1>2, OnlyJudging DEF Reject
  <1>3. CASE Discard(d, r, f)
        BY <1>3, OnlyJudging DEF Discard
  <1>4. QED
        BY <1>1, <1>2, <1>3

LEMMA DrainRaisesIsSafe ==
  ASSUME IInv, NEW d \in Drains, DrainRaises(d) PROVE IInv'
PROOF BY DroppedIsOrderly, StoreUntouched DEF DrainRaises, store, memory

(* Memory is lost; what the store keeps is a prefix before and after. *)
LEMMA ForgetIsSafe ==
  ASSUME IInv, Forget, SavedIsPrefix' PROVE IInv'
PROOF
  <1>1. DrainsOrderly'
    <2>1. drain' = [d \in Drains |-> Idle]
          BY DEF Forget
    <2>2. \A d \in Drains : IsDrain(d, drain[d])'
          BY <2>1 DEF IsDrain, Idle
    <2>3. QED
          BY <2>1, <2>2 DEF DrainsOrderly
  <1>2. QED
        BY <1>1 DEF Forget, IInv, InboxOnce, CommittedPrefix, Numbers, WorldIsPrefix

LEMMA CloseIsSafe == ASSUME IInv, Close PROVE IInv'
PROOF
  <1>1. cursor \in 0 .. cursor /\ UNCHANGED <<inbox, cursor>>
        BY InboxFacts DEF Close, Forget
  <1>2. saved' = saved \/ saved' = [last |-> cursor, world |-> world]
        BY DEF Close
  <1>3. SavedIsPrefix'
        BY <1>1, <1>2 DEF Close, IInv, SavedIsPrefix, WorldIsPrefix
  <1>4. QED
        BY <1>3, ForgetIsSafe DEF Close

LEMMA CrashIsSafe == ASSUME IInv, Crash PROVE IInv'
PROOF
  <1>1. SavedIsPrefix'
        BY DEF Crash, Forget, IInv, SavedIsPrefix
  <1>2. QED
        BY <1>1, ForgetIsSafe DEF Crash

LEMMA StartIsSafe == ASSUME IInv, Start PROVE IInv'
PROOF
  <1>1. UNCHANGED <<inbox, status, cursor, saved, lock, drain>>
        BY DEF Start, callers
  <1>2. WorldIsPrefix'
        BY <1>1, ReplayIsPrefix DEF Start, WorldIsPrefix
  <1>3. DrainsOrderly'
        BY <1>1 DEF Start, IInv, DrainsOrderly, IsDrain
  <1>4. QED
        BY <1>1, <1>2, <1>3
           DEF IInv, InboxOnce, CommittedPrefix, Numbers, SavedIsPrefix

LEMMA InitIsSafe == Init => IInv
PROOF
  <1> SUFFICES ASSUME Init PROVE IInv
      OBVIOUS
  <1>1. inbox \in Seq(Events) /\ Len(inbox) = 0
        BY EmptySeq DEF Init
  <1>2. Numbers = {}
        BY <1>1 DEF Numbers
  <1>3. SubSeq(inbox, 1, 0) = <<>>
        BY SubSeqEmpty
  <1>4. InboxOnce /\ CommittedPrefix
        BY <1>1, <1>2 DEF Init, InboxOnce, CommittedPrefix, Statuses
  <1>5. SavedIsPrefix /\ WorldIsPrefix
        BY <1>3 DEF Init, SavedIsPrefix, WorldIsPrefix
  <1>6. DrainsOrderly
        BY IdleIsDrain DEF Init, DrainsOrderly
  <1>7. QED
        BY <1>1, <1>4, <1>5, <1>6 DEF Init, IInv

LEMMA StepIsSafe == IInv /\ [Next]_vars => IInv'
PROOF
  <1> SUFFICES ASSUME IInv, [Next]_vars PROVE IInv'
      OBVIOUS
  <1>1. ASSUME NEW e \in Events, Publish(e) PROVE IInv'
        BY <1>1, PublishIsSafe
  <1>2. ASSUME NEW d \in Drains,
               BeginDrain(d) \/ DrainStep(d) \/ ProcessFails(d) \/ DrainRaises(d)
        PROVE  IInv'
        BY <1>2, BeginDrainIsSafe, ClaimIsSafe, ProcessIsSafe, EndClaimIsSafe,
           FlushIsSafe, JudgeIsSafe, ProcessFailsIsSafe, DrainRaisesIsSafe
           DEF DrainStep, Judge
  <1>3. CASE PersonaChanges \/ UNCHANGED vars
    <2>1. UNCHANGED <<inbox, status, cursor, saved, up, world, lock, drain>>
          BY <1>3 DEF PersonaChanges, vars, store, memory, callers
    <2>2. DrainsOrderly'
          BY <2>1 DEF IInv, DrainsOrderly, IsDrain
    <2>3. QED
          BY <2>1, <2>2, StoreUntouched
  <1>4. CASE Close
        BY <1>4, CloseIsSafe
  <1>5. CASE Crash
        BY <1>5, CrashIsSafe
  <1>6. CASE Start
        BY <1>6, StartIsSafe
  <1>7. QED
        BY <1>1, <1>2, <1>3, <1>4, <1>5, <1>6 DEF Next
-----------------------------------------------------------------------------
THEOREM SceneInvariant == Spec => []IInv
PROOF BY InitIsSafe, StepIsSafe, PTL DEF Spec

(***************************************************************************)
(* The live world and the world a restart recovers are the committed       *)
(* events in inbox order, for every number of drains that claim, fail and  *)
(* abandon, and whenever the process stops.                                *)
(***************************************************************************)
THEOREM RecoveryIsExact == Spec => []WorldIsReplay
PROOF
  <1>1. IInv => WorldIsReplay
        BY ReplayIsPrefix DEF IInv, WorldIsPrefix, WorldIsReplay
  <1>2. QED
        BY <1>1, SceneInvariant, PTL

(***************************************************************************)
(* The cursor never overtakes an event: what is behind it is not committed *)
(* and what it has passed is, so a failed event is claimed again.          *)
(***************************************************************************)
THEOREM NoEventOvertaken == Spec => []CommittedPrefix
PROOF
  <1>1. IInv => CommittedPrefix
        BY DEF IInv
  <1>2. QED
        BY <1>1, SceneInvariant, PTL
-----------------------------------------------------------------------------
(***************************************************************************)
(* Types.  A scene version never exceeds the number of events, because the *)
(* world is a prefix of an inbox that repeats nothing.                     *)
(***************************************************************************)
Request == [status : {"none", "pending", "accepted", "stale"},
            sv : Versions, persona : 0 .. MaxPersona,
            frames : SUBSET Frame, window : SUBSET Window,
            evaluated : SUBSET Frame]
Caller == [pc : {"idle", "claiming", "flushing", "judging"},
           batch : SUBSET Nat, todo : SUBSET Task, kept : SUBSET Frame]

Typed == IInv /\ TypeOK

LEMMA InboxIsBounded ==
  ASSUME IInv PROVE Len(inbox) <= Cardinality(Events) /\ Cardinality(Events) \in Nat
PROOF
  <1>1. inbox \in [1 .. Len(inbox) -> Events] /\ Len(inbox) \in Nat
        BY InboxFacts DEF IInv, InboxOnce
  <1>2. inbox \in Injection(1 .. Len(inbox), Events)
        BY <1>1 DEF IInv, InboxOnce, Numbers, Injection, IsInjective
  <1>3. Cardinality(1 .. Len(inbox)) = Len(inbox)
    <2>1. Len(inbox) \in Nat
          BY <1>1
    <2> HIDE <1>1
    <2>2. Cardinality(1 .. Len(inbox)) = IF 1 > Len(inbox) THEN 0 ELSE Len(inbox) - 1 + 1
          BY <2>1, FS_Interval
    <2>3. QED
          BY <2>1, <2>2
  <1>4. QED
        BY <1>2, <1>3, FS_Injection, FS_CardinalityType, SceneAssumption

(* The version an event is processed for. *)
LEMMA NextVersion ==
  ASSUME Typed, up
  PROVE  /\ Len(world) = cursor /\ cursor \in Versions
         /\ cursor + 1 \in Numbers => Len(world) + 1 \in Versions
PROOF
  <1>1. inbox \in Seq(Events) /\ Len(inbox) \in Nat /\ cursor \in 0 .. Len(inbox)
        BY InboxFacts DEF Typed, IInv, InboxOnce
  <1>2. Len(world) = cursor
    <2>1. CASE cursor = 0
          BY <2>1, SubSeqEmpty, EmptySeq DEF Typed, IInv, WorldIsPrefix
    <2>2. CASE cursor # 0
          BY <2>2, <1>1, ElementOfSeq, SubSeqProperties DEF Typed, IInv, WorldIsPrefix
    <2>3. QED
          BY <2>1, <2>2
  <1>3. QED
        BY <1>1, <1>2, InboxIsBounded DEF Typed, Versions, Numbers

LEMMA AttentionTypes ==
  ASSUME TypeOK, NEW e \in Events, NEW v \in Versions
  PROVE  /\ FramesOf(e, v) \subseteq Frame /\ WindowAfter(e, v) \subseteq Window
         /\ {AmbientFrame(w) : w \in window} \subseteq Frame
PROOF
  <1>1. persona \in 0 .. MaxPersona /\ window \subseteq Window
        BY DEF TypeOK
  <1>2. FramesOf(e, v) \subseteq Frame
        BY <1>1 DEF FramesOf, Frame
  <1>3. ASSUME NEW es \in SUBSET Events
        PROVE  {[focus |-> es, sv |-> v, persona |-> persona]} \subseteq Window
        BY <1>1 DEF Window
  <1>4. UNION {w.focus : w \in window} \in SUBSET Events
        BY <1>1 DEF Window
  <1>5. WindowAfter(e, v) \subseteq Window
        BY <1>3, <1>4 DEF WindowAfter
  <1>6. ASSUME NEW w \in window PROVE AmbientFrame(w) \in Frame
    <2>1. w \in Window
          BY <1>1
    <2>2. QED
          BY <2>1 DEF AmbientFrame, Window, Frame
  <1>7. {AmbientFrame(w) : w \in window} \subseteq Frame
        BY <1>6
  <1>8. QED
        BY <1>2, <1>5, <1>7

LEMMA SupersedeTypes ==
  ASSUME TypeOK, NEW boundary \in Int
  PROVE  Supersede(work, boundary) \in [Events -> Request]
PROOF
  <1>1. \A r \in Events : work[r] \in Request
        BY DEF TypeOK, Request
  <1>2. \A r \in Events : [work[r] EXCEPT !.status = "stale"] \in Request
        BY <1>1 DEF Request
  <1>3. QED
        BY <1>1, <1>2 DEF Supersede

LEMMA JudgingTypes ==
  ASSUME TypeOK, NEW d \in Drains, NEW todo \in SUBSET Task, NEW kept \in SUBSET Frame,
         Judging(d, todo, kept)
  PROVE  drain' \in [Drains -> Caller] /\ handed' \subseteq Frame
PROOF
  <1>1. drain \in [Drains -> Caller] /\ handed \subseteq Frame
        BY DEF TypeOK, Caller
  <1>2. /\ Idle \in Caller
        /\ [pc |-> "judging", batch |-> {}, todo |-> todo, kept |-> kept] \in Caller
        BY DEF Idle, Caller
  <1>3. QED
        BY <1>1, <1>2 DEF Judging

LEMMA DroppedTypes ==
  ASSUME TypeOK, NEW d \in Drains, Dropped(d)
  PROVE  drain' \in [Drains -> Caller] /\ lock' \subseteq Drains
PROOF
  <1>1. drain \in [Drains -> Caller] /\ Idle \in Caller
        BY DEF TypeOK, Caller, Idle
  <1>2. QED
        BY <1>1 DEF Dropped, TypeOK

(* One lemma for each action.  The inbox, the cursor and the snapshot are  *)
(* well typed whenever the invariant above holds.                          *)
StoreTyped ==
  /\ work \in [Events -> Request] /\ evaluations \subseteq Frame
  /\ saved \in [last : Nat, world : Seq(Events)] /\ up \in BOOLEAN
MemoryTyped ==
  /\ world \in Seq(Events) /\ window \subseteq Window
  /\ cached \subseteq Events /\ recovered \subseteq Events
CallersTyped ==
  /\ lock \subseteq Drains /\ drain \in [Drains -> Caller]
  /\ persona \in 0 .. MaxPersona
  /\ acted \in Seq(Frame) /\ handed \subseteq Frame
  /\ failures \in 0 .. MaxFailures /\ restarts \in 0 .. MaxRestarts

LEMMA PartsOfTyped ==
  /\ Typed => StoreTyped /\ MemoryTyped /\ CallersTyped
  /\ IInv /\ StoreTyped /\ MemoryTyped /\ CallersTyped => TypeOK
PROOF
  BY DEF Typed, TypeOK, StoreTyped, MemoryTyped, CallersTyped, Request, Caller, IInv,
         InboxOnce, Statuses

LEMMA PublishTypes ==
  ASSUME Typed, NEW e \in Events, Publish(e)
  PROVE  StoreTyped' /\ MemoryTyped' /\ CallersTyped'
PROOF BY PartsOfTyped DEF Publish, memory, callers, results, StoreTyped, MemoryTyped, CallersTyped

LEMMA BeginDrainTypes ==
  ASSUME Typed, NEW d \in Drains, BeginDrain(d)
  PROVE  StoreTyped' /\ MemoryTyped' /\ CallersTyped'
PROOF
  <1>1. StoreTyped /\ MemoryTyped /\ CallersTyped
        BY PartsOfTyped
  <1>2. ASSUME NEW r \in recovered PROVE Unjudged(r) \subseteq Task
    <2>1. r \in Events /\ work[r].frames \subseteq Frame
          BY <1>1 DEF StoreTyped, MemoryTyped, Request
    <2>2. QED
          BY <2>1 DEF Unjudged, Task
  <1>3. [Idle EXCEPT !.pc = "claiming", !.todo = UNION {Unjudged(r) : r \in recovered}] \in Caller
        BY <1>2 DEF Idle, Caller
  <1>4. drain' \in [Drains -> Caller]
        BY <1>1, <1>3 DEF BeginDrain, CallersTyped
  <1>5. QED
        BY <1>1, <1>4 DEF BeginDrain, store, results, StoreTyped, MemoryTyped, CallersTyped

LEMMA ClaimTypes ==
  ASSUME Typed, NEW d \in Drains, Claim(d)
  PROVE  StoreTyped' /\ MemoryTyped' /\ CallersTyped'
PROOF
  <1>1. StoreTyped /\ MemoryTyped /\ CallersTyped
        BY PartsOfTyped
  <1>2. Claimable \in SUBSET Nat
        BY InboxFacts DEF Typed, Claimable
  <1>3. [drain[d] EXCEPT !.batch = Claimable] \in Caller
        BY <1>1, <1>2 DEF CallersTyped, Caller
  <1>4. drain' \in [Drains -> Caller]
        BY <1>1, <1>3 DEF Claim, CallersTyped
  <1>5. QED
        BY <1>1, <1>4 DEF Claim, memory, results, StoreTyped, MemoryTyped, CallersTyped

LEMMA ProcessTypes ==
  ASSUME Typed, NEW d \in Drains, Process(d)
  PROVE  StoreTyped' /\ MemoryTyped' /\ CallersTyped'
PROOF
  <1> DEFINE e == inbox[cursor + 1]
             v == Len(world) + 1
             row == [status |-> "pending", sv |-> v, persona |-> persona,
                     frames |-> FramesOf(e, v), window |-> WindowAfter(e, v), evaluated |-> {}]
  <1>1. StoreTyped /\ MemoryTyped /\ CallersTyped /\ TypeOK /\ IInv
        BY PartsOfTyped DEF Typed
  <1>2. First(drain[d].batch) = cursor + 1 /\ cursor + 1 \in Numbers /\ up
        BY <1>1, FirstIsNext DEF Process, IInv, DrainsOrderly, IsDrain
  <1>3. e \in Events /\ v \in Versions /\ v \in Nat /\ cursor + 1 \in Nat
        BY <1>1, <1>2, NextVersion, InboxFacts DEF Versions
  <1>4. FramesOf(e, v) \subseteq Frame /\ WindowAfter(e, v) \subseteq Window
        BY <1>1, <1>3, AttentionTypes
  <1>5. row \in Request
        BY <1>1, <1>3, <1>4 DEF CallersTyped, Request
  <1>6. v - MaxDrift \in Int
        BY <1>3, SceneAssumption
  <1>7. Supersede(work, v - MaxDrift) \in [Events -> Request]
        BY <1>1, <1>6, SupersedeTypes
  <1> HIDE DEF row
  <1>8. work' = [Supersede(work, v - MaxDrift) EXCEPT ![e] = row]
        BY <1>2 DEF Process, row
  <1>9. work' \in [Events -> Request]
        BY <1>3, <1>5, <1>7, <1>8
  <1>10. world' = Append(world, e) /\ window' = WindowAfter(e, v) /\ cached' = {e}
        BY <1>2 DEF Process
  <1>11. world' \in Seq(Events) /\ window' \subseteq Window /\ cached' \subseteq Events
        BY <1>1, <1>3, <1>4, <1>10 DEF MemoryTyped
  <1>12. saved' = saved \/ saved' = [last |-> cursor + 1, world |-> world']
        BY <1>2 DEF Process
  <1>13. saved' \in [last : Nat, world : Seq(Events)]
        BY <1>1, <1>3, <1>11, <1>12 DEF StoreTyped
  <1>14. {<<e, f>> : f \in FramesOf(e, v)} \subseteq Task
        BY <1>3, <1>4 DEF Task
  <1> DEFINE c == [drain[d] EXCEPT !.batch = @ \ {cursor + 1},
                                   !.todo = @ \cup {<<e, f>> : f \in FramesOf(e, v)}]
  <1>15. drain[d] \in Caller
        BY <1>1 DEF CallersTyped
  <1>16. c \in Caller
        BY <1>14, <1>15 DEF Caller
  <1>17. drain' = [drain EXCEPT ![d] = c]
        BY <1>1, <1>2 DEF Process, CallersTyped
  <1>18. drain' \in [Drains -> Caller]
        BY <1>1, <1>16, <1>17 DEF CallersTyped
  <1>19. QED
        BY <1>1, <1>9, <1>11, <1>13, <1>18
           DEF Process, results, StoreTyped, MemoryTyped, CallersTyped

LEMMA ProcessFailsTypes ==
  ASSUME Typed, NEW d \in Drains, ProcessFails(d)
  PROVE  StoreTyped' /\ MemoryTyped' /\ CallersTyped'
PROOF
  <1> DEFINE e == inbox[cursor + 1]
  <1>1. StoreTyped /\ MemoryTyped /\ CallersTyped /\ TypeOK /\ IInv
        BY PartsOfTyped DEF Typed
  <1>2. First(drain[d].batch) = cursor + 1 /\ cursor + 1 \in Numbers /\ up
        BY <1>1, FirstIsNext DEF ProcessFails, IInv, DrainsOrderly, IsDrain
  <1>3. e \in Events /\ Len(world) + 1 \in Versions
        BY <1>1, <1>2, NextVersion, InboxFacts
  <1>4. window' \subseteq Window
        BY <1>1, <1>2, <1>3, AttentionTypes DEF ProcessFails
  <1>5. failures' \in 0 .. MaxFailures
        BY <1>1, SceneAssumption DEF ProcessFails, CallersTyped
  <1>6. drain' \in [Drains -> Caller] /\ lock' \subseteq Drains
        BY <1>1, DroppedTypes DEF ProcessFails
  <1>7. QED
        BY <1>1, <1>4, <1>5, <1>6
           DEF ProcessFails, results, StoreTyped, MemoryTyped, CallersTyped

LEMMA EndClaimTypes ==
  ASSUME Typed, NEW d \in Drains, EndClaim(d)
  PROVE  StoreTyped' /\ MemoryTyped' /\ CallersTyped'
PROOF
  <1>1. StoreTyped /\ MemoryTyped /\ CallersTyped
        BY PartsOfTyped
  <1> DEFINE c == [drain[d] EXCEPT !.pc = "flushing", !.todo = Newest(drain[d].todo)]
  <1>2. c \in Caller
    <2>1. Newest(drain[d].todo) \subseteq drain[d].todo
          BY DEF Newest
    <2>2. QED
          BY <1>1, <2>1 DEF CallersTyped, Caller
  <1>3. drain' = [drain EXCEPT ![d] = c]
        BY <1>1 DEF EndClaim, CallersTyped
  <1>4. drain' \in [Drains -> Caller]
        BY <1>1, <1>2, <1>3 DEF CallersTyped
  <1>5. QED
        BY <1>1, <1>4 DEF EndClaim, store, memory, results, StoreTyped, MemoryTyped, CallersTyped

LEMMA FlushTypes ==
  ASSUME Typed, NEW d \in Drains, FlushNothing(d) \/ FlushDue(d)
  PROVE  StoreTyped' /\ MemoryTyped' /\ CallersTyped'
PROOF
  <1>1. StoreTyped /\ MemoryTyped /\ CallersTyped /\ TypeOK
        BY PartsOfTyped DEF Typed
  <1>2. drain[d].todo \subseteq Task
        BY <1>1 DEF CallersTyped, Caller
  <1>3. CASE FlushNothing(d)
    <2>1. drain' \in [Drains -> Caller] /\ handed' \subseteq Frame
          BY <1>1, <1>2, <1>3, JudgingTypes DEF FlushNothing
    <2>2. QED
          BY <1>1, <1>3, <2>1
             DEF FlushNothing, store, memory, StoreTyped, MemoryTyped, CallersTyped
  <1>4. CASE FlushDue(d)
    <2> DEFINE frames == {AmbientFrame(w) : w \in window}
    <2>1. frames \subseteq Frame
      <3>1. ASSUME NEW w \in window PROVE AmbientFrame(w) \in Frame
        <4>1. w \in Window
              BY <1>1 DEF MemoryTyped
        <4>2. QED
              BY <4>1 DEF AmbientFrame, Window, Frame
      <3>2. QED
            BY <3>1
    <2>2. cached \X frames \subseteq Task
          BY <1>1, <2>1 DEF MemoryTyped, Task
    <2>3. drain' \in [Drains -> Caller] /\ handed' \subseteq Frame
          BY <1>1, <1>2, <1>4, <2>2, JudgingTypes DEF FlushDue
    <2> HIDE DEF frames
    <2>4. \A r \in Events :
            [work[r] EXCEPT !.frames = @ \cup frames, !.window = {}] \in Request
          BY <1>1, <2>1 DEF StoreTyped, Request
    <2>5. work' = [r \in Events |-> IF r \in cached
                     THEN [work[r] EXCEPT !.frames = @ \cup frames, !.window = {}] ELSE work[r]]
          BY <1>4 DEF FlushDue, frames
    <2>6. work' \in [Events -> Request]
          BY <1>1, <2>4, <2>5 DEF StoreTyped
    <2>7. QED
          BY <1>1, <1>4, <2>3, <2>6 DEF FlushDue, StoreTyped, MemoryTyped, CallersTyped
  <1>5. QED
        BY <1>3, <1>4

LEMMA ResolveTypes ==
  ASSUME StoreTyped, NEW r \in Events PROVE Resolve(r, "stale") \in [Events -> Request]
PROOF
  <1>1. [work[r] EXCEPT !.status = "stale"] \in Request
        BY DEF StoreTyped, Request
  <1>2. QED
        BY <1>1 DEF Resolve, StoreTyped

LEMMA JudgeTypes ==
  ASSUME Typed, NEW d \in Drains, NEW r, NEW f,
         Accept(d, r, f) \/ Reject(d, r, f) \/ Discard(d, r, f)
  PROVE  StoreTyped' /\ MemoryTyped' /\ CallersTyped'
PROOF
  <1>1. StoreTyped /\ MemoryTyped /\ CallersTyped /\ TypeOK
        BY PartsOfTyped DEF Typed
  <1>2. <<r, f>> \in drain[d].todo
        BY DEF Accept, Reject, Discard
  <1>3. drain[d].todo \subseteq Task /\ drain[d].kept \subseteq Frame
        BY <1>1 DEF CallersTyped, Caller
  <1>4. r \in Events /\ f \in Frame
        BY <1>2, <1>3 DEF Task
  <1>5. /\ drain[d].todo \ {<<r, f>>} \in SUBSET Task
        /\ drain[d].kept \in SUBSET Frame /\ drain[d].kept \cup {f} \in SUBSET Frame
        BY <1>3, <1>4
  <1>6. drain' \in [Drains -> Caller] /\ handed' \subseteq Frame
        BY <1>1, <1>5, JudgingTypes DEF Accept, Reject, Discard
  <1>7. acted' \in Seq(Frame)
    <2>1. acted' = Append(acted, f) \/ acted' = acted
          BY DEF Accept, Reject, Discard
    <2>2. QED
          BY <1>1, <1>4, <2>1, AppendProperties DEF CallersTyped
  <1>8. cached' \subseteq Events
        BY <1>1, <1>4 DEF Accept, Reject, Discard, Uncached, MemoryTyped
  <1>9. work' \in [Events -> Request]
    <2>1. CASE Accept(d, r, f)
      <3>1. PICK s \in {"pending", "accepted"} :
              work' = [work EXCEPT ![r] = [[work[r] EXCEPT !.evaluated = @ \cup {f}] EXCEPT !.status = s]]
            BY <2>1 DEF Accept
      <3>2. [[work[r] EXCEPT !.evaluated = @ \cup {f}] EXCEPT !.status = s] \in Request
            BY <1>1, <1>4 DEF StoreTyped, Request
      <3>3. QED
            BY <1>1, <3>1, <3>2 DEF StoreTyped
    <2>2. CASE Reject(d, r, f) \/ Discard(d, r, f)
          BY <1>1, <1>4, <2>2, ResolveTypes DEF Reject, Discard
    <2>3. QED
          BY <2>1, <2>2
  <1>10. evaluations' \subseteq Frame
        BY <1>1, <1>4 DEF Accept, Reject, Discard, StoreTyped
  <1>11. QED
        BY <1>1, <1>6, <1>7, <1>8, <1>9, <1>10
           DEF Accept, Reject, Discard, StoreTyped, MemoryTyped, CallersTyped

LEMMA RaisesTypes ==
  ASSUME Typed, NEW d \in Drains, DrainRaises(d)
  PROVE  StoreTyped' /\ MemoryTyped' /\ CallersTyped'
PROOF
  <1>1. StoreTyped /\ MemoryTyped /\ CallersTyped /\ TypeOK
        BY PartsOfTyped DEF Typed
  <1>2. drain' \in [Drains -> Caller] /\ lock' \subseteq Drains
        BY <1>1, DroppedTypes DEF DrainRaises
  <1>3. failures' \in 0 .. MaxFailures
        BY <1>1, SceneAssumption DEF DrainRaises, CallersTyped
  <1>4. QED
        BY <1>1, <1>2, <1>3
           DEF DrainRaises, store, memory, results, StoreTyped, MemoryTyped, CallersTyped

LEMMA StopTypes ==
  ASSUME Typed, Close \/ Crash
  PROVE  StoreTyped' /\ MemoryTyped' /\ CallersTyped'
PROOF
  <1>1. StoreTyped /\ MemoryTyped /\ CallersTyped
        BY PartsOfTyped
  <1>2. Forget
        BY DEF Close, Crash
  <1>3. Idle \in Caller
        BY DEF Idle, Caller
  <1>4. drain' \in [Drains -> Caller] /\ lock' \subseteq Drains
        BY <1>2, <1>3 DEF Forget
  <1>5. restarts' \in 0 .. MaxRestarts
        BY <1>1, <1>2, SceneAssumption DEF Forget, CallersTyped
  <1>6. CallersTyped'
        BY <1>1, <1>2, <1>4, <1>5 DEF Forget, results, CallersTyped
  <1>7. MemoryTyped'
        BY <1>2 DEF Forget, MemoryTyped
  <1>8. [last |-> cursor, world |-> world] \in [last : Nat, world : Seq(Events)]
        BY <1>1, InboxFacts DEF Typed, MemoryTyped
  <1>9. saved' \in [last : Nat, world : Seq(Events)]
        BY <1>1, <1>8 DEF Close, Crash, StoreTyped
  <1>10. up' \in BOOLEAN
        BY <1>2, Zenon DEF Forget
  <1>11. StoreTyped'
        BY <1>1, <1>2, <1>9, <1>10 DEF Forget, StoreTyped
  <1>12. QED
        BY <1>6, <1>7, <1>11

LEMMA StartTypes ==
  ASSUME Typed, Start
  PROVE  StoreTyped' /\ MemoryTyped' /\ CallersTyped'
PROOF
  <1> DEFINE rows == Supersede(work, Len(Replayed))
             reissued == {r \in Events : rows[r].status = "pending" /\ rows[r].sv = Len(Replayed)}
  <1>1. StoreTyped /\ MemoryTyped /\ CallersTyped /\ TypeOK /\ IInv
        BY PartsOfTyped DEF Typed
  <1>2. inbox \in Seq(Events) /\ cursor \in 0 .. Len(inbox) /\ Len(inbox) \in Nat
        BY <1>1, InboxFacts DEF IInv, InboxOnce
  <1>3. Replayed \in Seq(Events)
    <2>1. Replayed = SubSeq(inbox, 1, cursor)
          BY <1>1, ReplayIsPrefix
    <2>2. QED
          BY <1>2, <2>1, ElementOfSeq, SubSeqProperties
  <1>4. Len(Replayed) \in Int
        BY <1>3
  <1>5. rows \in [Events -> Request]
        BY <1>1, <1>4, SupersedeTypes
  <1>6. /\ work' = rows /\ cached' = reissued /\ recovered' = reissued
        /\ window' = UNION {rows[r].window : r \in reissued} /\ world' = Replayed /\ up' = TRUE
        BY DEF Start
  <1> HIDE DEF rows
  <1>7. \A r \in reissued : rows[r].window \subseteq Window
        BY <1>5 DEF Request
  <1>8. MemoryTyped'
        BY <1>3, <1>6, <1>7 DEF MemoryTyped
  <1>9. up' \in BOOLEAN
        BY <1>6, Zenon
  <1>10. StoreTyped'
        BY <1>1, <1>5, <1>6, <1>9 DEF Start, StoreTyped
  <1>11. CallersTyped'
        BY <1>1 DEF Start, callers, results, CallersTyped
  <1>12. QED
        BY <1>8, <1>10, <1>11

LEMMA TypedInit == Init => Typed
PROOF
  <1> SUFFICES ASSUME Init PROVE Typed
      OBVIOUS
  <1> USE SceneAssumption DEF Init
  <1>1. IInv
        BY InitIsSafe
  <1>2. work \in [Events -> Request]
    <2>1. 0 \in Versions
          BY FS_CardinalityType DEF Versions
    <2>2. NoWork \in Request
          BY <2>1 DEF NoWork, Request
    <2>3. QED
          BY <2>2
  <1>3. saved \in [last : Nat, world : Seq(Events)]
        OBVIOUS
  <1>4. up \in BOOLEAN
        BY Zenon
  <1>5. StoreTyped /\ MemoryTyped
        BY <1>2, <1>3, <1>4 DEF StoreTyped, MemoryTyped
  <1>6. Idle \in Caller
        BY DEF Idle, Caller
  <1>7. CallersTyped
        BY <1>6 DEF CallersTyped
  <1>8. QED
        BY <1>1, <1>5, <1>7, PartsOfTyped DEF Typed

LEMMA TypedStep == Typed /\ [Next]_vars => Typed'
PROOF
  <1> SUFFICES ASSUME Typed, [Next]_vars PROVE Typed'
      OBVIOUS
  <1>1. IInv'
        BY StepIsSafe DEF Typed
  <1>2. SUFFICES StoreTyped' /\ MemoryTyped' /\ CallersTyped'
    <2>1. IInv' /\ StoreTyped' /\ MemoryTyped' /\ CallersTyped' => TypeOK'
          BY DEF TypeOK, StoreTyped, MemoryTyped, CallersTyped, Request, Caller, IInv,
                 InboxOnce, Statuses
    <2>2. QED
          BY <1>1, <2>1 DEF Typed
  <1>3. CASE \E e \in Events : Publish(e)
        BY <1>3, PublishTypes
  <1>4. ASSUME NEW d \in Drains,
               BeginDrain(d) \/ DrainStep(d) \/ ProcessFails(d) \/ DrainRaises(d)
        PROVE  StoreTyped' /\ MemoryTyped' /\ CallersTyped'
        BY <1>4, BeginDrainTypes, ClaimTypes, ProcessTypes, EndClaimTypes, FlushTypes,
           JudgeTypes, ProcessFailsTypes, RaisesTypes DEF DrainStep, Judge
  <1>5. CASE PersonaChanges
    <2>1. persona' \in 0 .. MaxPersona
          BY <1>5, PartsOfTyped, SceneAssumption DEF PersonaChanges, CallersTyped
    <2>2. QED
          BY <1>5, <2>1, PartsOfTyped
             DEF PersonaChanges, store, memory, callers, results, StoreTyped, MemoryTyped, CallersTyped
  <1>6. CASE UNCHANGED vars
        BY <1>6, PartsOfTyped
           DEF vars, store, memory, callers, results, StoreTyped, MemoryTyped, CallersTyped
  <1>7. CASE Close \/ Crash
        BY <1>7, StopTypes
  <1>8. CASE Start
        BY <1>8, StartTypes
  <1>9. QED
        BY <1>3, <1>4, <1>5, <1>6, <1>7, <1>8 DEF Next

LEMMA SceneTyped == Spec => []Typed
PROOF BY TypedInit, TypedStep, PTL DEF Spec

(***************************************************************************)
(* The tables of the store, the memory of the actor and what the drains    *)
(* hold stay well typed, whatever fails, stops or is done twice.           *)
(***************************************************************************)
THEOREM SceneTypes == Spec => []TypeOK
PROOF
  <1>1. Typed => TypeOK
        BY DEF Typed
  <1>2. QED
        BY <1>1, SceneTyped, PTL
-----------------------------------------------------------------------------
(***************************************************************************)
(* Requests.  A request is that of one inbox number, a frame of its own    *)
(* version is held by one drain at most until it is evaluated, and a       *)
(* window becomes such a frame once.  An evaluation recorded before is     *)
(* therefore never accepted again.                                         *)
(***************************************************************************)
Known(r) == work[r].status # "none"

RequestsKnown ==
  \A r \in Events :
    /\ ~Known(r) => work[r] = NoWork
    /\ Known(r) => status[r] = "committed" /\ work[r].sv \in 1 .. cursor /\ inbox[work[r].sv] = r
    /\ work[r].evaluated \subseteq work[r].frames
    /\ \A f \in work[r].evaluated : f.sv = work[r].sv
    /\ work[r].status = "accepted" => work[r].frames \subseteq work[r].evaluated
    /\ \A w \in work[r].window : w.sv = work[r].sv => AmbientFrame(w) \notin work[r].frames

WindowIsNew ==
  \A r \in cached, w \in window : w.sv = work[r].sv => AmbientFrame(w) \notin work[r].frames

CacheIsNewest ==
  cached = IF up THEN {r \in Events : Pending(r) /\ work[r].sv = Len(world)} ELSE {}

HeldOnce ==
  \A d \in Drains, r \in Events, f \in Frame :
    <<r, f>> \in drain[d].todo =>
      /\ Known(r) /\ f \in work[r].frames
      /\ f.sv = work[r].sv =>
           f \notin work[r].evaluated /\ \A x \in Drains \ {d} : <<r, f>> \notin drain[x].todo

RecoveredFirst ==
  /\ \A d \in Drains : drain[d].pc = "idle" => drain[d].todo = {}
  /\ recovered # {} => \A d \in Drains : drain[d].pc = "idle"
  /\ \A r \in recovered : Known(r)

ActedKnown == \A i \in 1 .. Len(acted) : \E r \in Events : acted[i] \in work[r].evaluated

Requests ==
  /\ Typed
  /\ RequestsKnown /\ PendingWithinDrift
  /\ WindowIsNew /\ CacheIsNewest
  /\ HeldOnce /\ RecoveredFirst
  /\ ActedKnown /\ ActedOnce

(* The requests stay as they are, but for some that are closed. *)
RowsKept ==
  \A r \in Events :
    /\ work'[r].sv = work[r].sv /\ work'[r].frames = work[r].frames
    /\ work'[r].window = work[r].window /\ work'[r].evaluated = work[r].evaluated
    /\ Known(r) => work'[r].status # "none"
    /\ ~Known(r) => work'[r] = work[r]
    /\ work'[r].status \in {"accepted", "pending"} => work'[r].status = work[r].status

LEMMA KeptWhenUnchanged == ASSUME UNCHANGED work PROVE RowsKept
PROOF BY DEF RowsKept, Known

LEMMA KeptWhenResolved ==
  ASSUME Typed, NEW r \in Events, work' = Resolve(r, "stale")
  PROVE  RowsKept /\ work'[r].status # "pending" /\ \A x \in Events \ {r} : work'[x] = work[x]
PROOF
  <1>1. work \in [Events -> Request]
        BY PartsOfTyped DEF StoreTyped
  <1>2. CASE Pending(r)
    <2>1. work' = [work EXCEPT ![r] = [work[r] EXCEPT !.status = "stale"]]
          BY <1>1, <1>2 DEF Resolve
    <2>2. /\ work'[r] = [work[r] EXCEPT !.status = "stale"]
          /\ \A x \in Events \ {r} : work'[x] = work[x]
          BY <1>1, <2>1
    <2>3. /\ work'[r].sv = work[r].sv /\ work'[r].frames = work[r].frames
          /\ work'[r].window = work[r].window /\ work'[r].evaluated = work[r].evaluated
          /\ work'[r].status = "stale"
          BY <1>1, <2>2 DEF Request
    <2>4. QED
          BY <1>2, <2>2, <2>3 DEF RowsKept, Known, Pending
  <1>3. CASE ~Pending(r)
    <2>1. work' = work
          BY <1>3 DEF Resolve
    <2>2. QED
          BY <1>3, <2>1, KeptWhenUnchanged DEF Pending
  <1>4. QED
        BY <1>2, <1>3

LEMMA KeptWhenSuperseded ==
  ASSUME Typed, NEW boundary \in Int
  PROVE  \A r \in Events :
           LET after == Supersede(work, boundary)[r] IN
           /\ after.sv = work[r].sv /\ after.frames = work[r].frames
           /\ after.window = work[r].window /\ after.evaluated = work[r].evaluated
           /\ Known(r) => after.status # "none"
           /\ ~Known(r) => after = work[r]
           /\ after.status \in {"accepted", "pending"} => after.status = work[r].status
           /\ after.status = "pending" => work[r].sv >= boundary
PROOF
  <1> SUFFICES ASSUME NEW r \in Events
               PROVE  LET after == Supersede(work, boundary)[r] IN
                      /\ after.sv = work[r].sv /\ after.frames = work[r].frames
                      /\ after.window = work[r].window /\ after.evaluated = work[r].evaluated
                      /\ Known(r) => after.status # "none"
                      /\ ~Known(r) => after = work[r]
                      /\ after.status \in {"accepted", "pending"} => after.status = work[r].status
                      /\ after.status = "pending" => work[r].sv >= boundary
      OBVIOUS
  <1> DEFINE after == Supersede(work, boundary)[r]
             closed == [work[r] EXCEPT !.status = "stale"]
  <1>1. work[r] \in Request
        BY PartsOfTyped DEF StoreTyped
  <1>2. work[r].sv \in Nat
        BY <1>1 DEF Request, Versions
  <1>3. /\ closed.sv = work[r].sv /\ closed.frames = work[r].frames
        /\ closed.window = work[r].window /\ closed.evaluated = work[r].evaluated
        /\ closed.status = "stale"
        BY <1>1 DEF Request
  <1> HIDE DEF closed
  <1>4. after = IF work[r].status = "pending" /\ work[r].sv < boundary THEN closed ELSE work[r]
        BY DEF Supersede, closed
  <1>5. CASE work[r].status = "pending" /\ work[r].sv < boundary
        BY <1>3, <1>4, <1>5 DEF Known
  <1>6. CASE ~(work[r].status = "pending" /\ work[r].sv < boundary)
        BY <1>2, <1>4, <1>6 DEF Known
  <1>7. QED
        BY <1>5, <1>6

(* What holds of the requests when the rows are kept and what is behind    *)
(* the cursor stays there.                                                 *)
LEMMA RowsAreKnown ==
  ASSUME Requests, RowsKept, cursor' = cursor,
         \A i \in 1 .. cursor : inbox'[i] = inbox[i],
         \A r \in Events : status[r] = "committed" => status'[r] = "committed"
  PROVE  RequestsKnown' /\ PendingWithinDrift'
PROOF
  <1>1. PendingWithinDrift'
        BY DEF Requests, PendingWithinDrift, RowsKept, Pending
  <1>2. ASSUME NEW r \in Events
        PROVE  /\ (~Known(r) => work[r] = NoWork)'
               /\ (Known(r) => status[r] = "committed" /\ work[r].sv \in 1 .. cursor /\ inbox[work[r].sv] = r)'
               /\ (work[r].evaluated \subseteq work[r].frames)'
               /\ (\A f \in work[r].evaluated : f.sv = work[r].sv)'
               /\ (work[r].status = "accepted" => work[r].frames \subseteq work[r].evaluated)'
               /\ (\A w \in work[r].window : w.sv = work[r].sv => AmbientFrame(w) \notin work[r].frames)'
    <2>1. (~Known(r) => work[r] = NoWork)'
          BY DEF Requests, RequestsKnown, RowsKept, Known, NoWork
    <2>2. (Known(r) => status[r] = "committed" /\ work[r].sv \in 1 .. cursor /\ inbox[work[r].sv] = r)'
          BY DEF Requests, RequestsKnown, RowsKept, Known
    <2>3. /\ (work[r].evaluated \subseteq work[r].frames)'
          /\ (\A f \in work[r].evaluated : f.sv = work[r].sv)'
          /\ (work[r].status = "accepted" => work[r].frames \subseteq work[r].evaluated)'
          BY DEF Requests, RequestsKnown, RowsKept
    <2>4. (\A w \in work[r].window : w.sv = work[r].sv => AmbientFrame(w) \notin work[r].frames)'
          BY DEF Requests, RequestsKnown, RowsKept, AmbientFrame
    <2>5. QED
          BY <2>1, <2>2, <2>3, <2>4
  <1>3. RequestsKnown'
        BY <1>2 DEF RequestsKnown
  <1>4. QED
        BY <1>1, <1>3

LEMMA WindowStaysNew ==
  ASSUME Requests, RowsKept, window' = window, cached' \subseteq cached
  PROVE  WindowIsNew'
PROOF
  <1>1. cached \subseteq Events
        BY PartsOfTyped DEF Requests, MemoryTyped
  <1>2. QED
        BY <1>1 DEF Requests, WindowIsNew, RowsKept, AmbientFrame

(* Drains that hold no more than before. *)
LEMMA HeldNoMore ==
  ASSUME Requests, RowsKept, \A d \in Drains : drain'[d].todo \subseteq drain[d].todo
  PROVE  HeldOnce'
PROOF
  <1>1. ASSUME NEW d \in Drains, NEW r \in Events, NEW f \in Frame, <<r, f>> \in drain'[d].todo
        PROVE  /\ Known(r)' /\ f \in work'[r].frames
               /\ f.sv = work'[r].sv =>
                    f \notin work'[r].evaluated /\ \A x \in Drains \ {d} : <<r, f>> \notin drain'[x].todo
    <2>1. <<r, f>> \in drain[d].todo
          BY <1>1
    <2>2. /\ Known(r) /\ f \in work[r].frames
          /\ f.sv = work[r].sv =>
               f \notin work[r].evaluated /\ \A x \in Drains \ {d} : <<r, f>> \notin drain[x].todo
          BY <2>1 DEF Requests, HeldOnce
    <2>3. QED
          BY <2>2 DEF RowsKept, Known
  <1>2. QED
        BY <1>1 DEF HeldOnce

LEMMA ActedAsBefore ==
  ASSUME Requests, RowsKept, acted' = acted
  PROVE  ActedKnown' /\ ActedOnce'
PROOF BY DEF Requests, ActedKnown, ActedOnce, RowsKept

(* Whom a judging drain leaves alone. *)
LEMMA JudgingHolds ==
  ASSUME Typed, NEW d \in Drains, NEW todo, NEW kept, Judging(d, todo, kept)
  PROVE  /\ drain'[d].todo = todo /\ (drain'[d].pc = "idle" => todo = {})
         /\ \A x \in Drains \ {d} : drain'[x] = drain[x]
PROOF
  <1>1. drain \in [Drains -> Caller]
        BY PartsOfTyped DEF CallersTyped
  <1>2. CASE todo = {}
        BY <1>1, <1>2 DEF Judging, Idle
  <1>3. CASE todo # {}
        BY <1>1, <1>3 DEF Judging
  <1>4. QED
        BY <1>2, <1>3

(* A step that moves drains and leaves the requests, the world and the     *)
(* attention alone.                                                        *)
LEMMA OnlyDrains ==
  ASSUME Requests, Typed', RecoveredFirst', HeldOnce',
         UNCHANGED <<work, cursor, up, world, window, cached, acted>>,
         \A i \in 1 .. cursor : inbox'[i] = inbox[i],
         \A r \in Events : status[r] = "committed" => status'[r] = "committed"
  PROVE  Requests'
PROOF
  <1>1. RowsKept
        BY KeptWhenUnchanged
  <1>2. RequestsKnown' /\ PendingWithinDrift'
        BY <1>1, RowsAreKnown
  <1>3. WindowIsNew'
        BY <1>1, WindowStaysNew
  <1>4. ActedKnown' /\ ActedOnce'
        BY <1>1, ActedAsBefore
  <1>5. CacheIsNewest'
        BY DEF Requests, CacheIsNewest, Pending
  <1>6. QED
        BY <1>2, <1>3, <1>4, <1>5 DEF Requests

LEMMA PublishRequests ==
  ASSUME Requests, Typed', NEW e \in Events, Publish(e) PROVE Requests'
PROOF
  <1>1. inbox \in Seq(Events) /\ cursor \in 0 .. Len(inbox) /\ Len(inbox) \in Nat
        BY InboxFacts DEF Requests, Typed, IInv, InboxOnce
  <1>2. \A i \in 1 .. cursor : inbox'[i] = inbox[i]
        BY <1>1, AppendProperties DEF Publish
  <1>3. \A r \in Events : status[r] = "committed" => status'[r] = "committed"
        BY DEF Publish, Requests, Typed, TypeOK
  <1>4. HeldOnce' /\ RecoveredFirst'
        BY KeptWhenUnchanged, HeldNoMore
           DEF Publish, memory, callers, Requests, RecoveredFirst, Known
  <1>5. QED
        BY <1>2, <1>3, <1>4, OnlyDrains DEF Publish, memory, results

LEMMA BeginDrainRequests ==
  ASSUME Requests, Typed', NEW d \in Drains, BeginDrain(d) PROVE Requests'
PROOF
  <1> DEFINE mine == UNION {Unjudged(r) : r \in recovered}
  <1>1. drain \in [Drains -> Caller] /\ recovered \subseteq Events
        BY PartsOfTyped DEF Requests, CallersTyped, MemoryTyped
  <1>2. /\ drain'[d].todo = mine /\ drain'[d].pc = "claiming"
        /\ \A x \in Drains \ {d} : drain'[x] = drain[x]
        BY <1>1 DEF BeginDrain, Idle
  <1>3. recovered' = {} /\ UNCHANGED <<inbox, status, work, cursor, up, world, window, cached, acted>>
        BY DEF BeginDrain, store, results
  <1>4. RecoveredFirst'
        BY <1>2, <1>3 DEF Requests, RecoveredFirst
  <1>5. HeldOnce'
    <2>1. ASSUME NEW x \in Drains, NEW r \in Events, NEW f \in Frame, <<r, f>> \in drain'[x].todo
          PROVE  /\ Known(r) /\ f \in work[r].frames
                 /\ f.sv = work[r].sv =>
                      f \notin work[r].evaluated /\ \A y \in Drains \ {x} : <<r, f>> \notin drain'[y].todo
      <3>1. CASE recovered = {}
        <4>1. mine = {}
              BY <3>1
        <4>2. x # d /\ <<r, f>> \in drain[x].todo
              BY <2>1, <1>2, <4>1
        <4>3. \A y \in Drains : drain'[y].todo \subseteq drain[y].todo
              BY <1>2, <4>1
        <4>4. QED
              BY <4>2, <4>3 DEF Requests, HeldOnce
      <3>2. CASE recovered # {}
        <4>1. \A y \in Drains \ {d} : drain'[y].todo = {}
              BY <1>2, <3>2 DEF Requests, RecoveredFirst
        <4>2. x = d /\ <<r, f>> \in mine
              BY <2>1, <1>2, <4>1
        <4>3. PICK q \in recovered : <<r, f>> \in Unjudged(q)
              BY <4>2
        <4>4. r \in recovered /\ f \in work[r].frames /\ f \notin work[r].evaluated
              BY <4>3 DEF Unjudged
        <4>5. QED
              BY <4>1, <4>2, <4>4 DEF Requests, RecoveredFirst
      <3>3. QED
            BY <3>1, <3>2
    <2>2. QED
          BY <2>1, <1>3 DEF HeldOnce, Known
  <1>6. QED
        BY <1>3, <1>4, <1>5, OnlyDrains

(* Claiming, the end of a claim, and a drain that gives up. *)
LEMMA DrainRequests ==
  ASSUME Requests, Typed', NEW d \in Drains,
         Claim(d) \/ EndClaim(d) \/ FlushNothing(d) \/ DrainRaises(d)
  PROVE  Requests'
PROOF
  <1>1. drain \in [Drains -> Caller]
        BY PartsOfTyped DEF Requests, CallersTyped
  <1>2. /\ drain'[d].todo \subseteq drain[d].todo /\ (drain'[d].pc = "idle" => drain'[d].todo = {})
        /\ \A x \in Drains \ {d} : drain'[x] = drain[x]
        /\ drain[d].pc # "idle"
    <2>1. CASE Claim(d)
          BY <1>1, <2>1 DEF Claim, Caller
    <2>2. CASE EndClaim(d)
      <3>1. Newest(drain[d].todo) \subseteq drain[d].todo
            BY DEF Newest
      <3>2. QED
            BY <1>1, <2>2, <3>1 DEF EndClaim, Caller
    <2>3. CASE FlushNothing(d)
          BY <2>3, JudgingHolds DEF FlushNothing, Requests
    <2>4. CASE DrainRaises(d)
          BY <1>1, <2>4 DEF DrainRaises, Dropped, Idle
    <2>5. QED
          BY <2>1, <2>2, <2>3, <2>4
  <1>3. UNCHANGED <<inbox, work, cursor, up, world, window, cached, recovered, acted>>
        BY DEF Claim, EndClaim, FlushNothing, DrainRaises, store, memory, results
  <1>4. RecoveredFirst'
        BY <1>2, <1>3 DEF Requests, RecoveredFirst, Known
  <1>5. HeldOnce'
        BY <1>2, <1>3, KeptWhenUnchanged, HeldNoMore
  <1>6. \A r \in Events : status[r] = "committed" => status'[r] = "committed"
    <2>1. CASE Claim(d)
      <3>1. \A i \in Claimable : status[inbox[i]] # "committed"
            BY DEF Claimable
      <3>2. QED
            BY <2>1, <3>1 DEF Claim
    <2>2. CASE ~Claim(d)
          BY <2>2 DEF EndClaim, FlushNothing, DrainRaises, store
    <2>3. QED
          BY <2>1, <2>2
  <1>7. QED
        BY <1>3, <1>4, <1>5, <1>6, OnlyDrains

(* A failed commit changes the attention window: what it would become is   *)
(* of the next version and never of a request's own.                       *)
LEMMA ProcessFailsRequests ==
  ASSUME Requests, Typed', NEW d \in Drains, ProcessFails(d) PROVE Requests'
PROOF
  <1>1. /\ drain \in [Drains -> Caller] /\ cached \subseteq Events /\ IInv
        /\ status \in [Events -> Statuses]
        BY PartsOfTyped DEF Requests, CallersTyped, MemoryTyped, Typed, IInv, InboxOnce
  <1>2. First(drain[d].batch) = cursor + 1 /\ cursor + 1 \in Numbers /\ cursor \in Nat /\ up
        BY <1>1, FirstIsNext, InboxFacts DEF ProcessFails, IInv, DrainsOrderly, IsDrain
  <1>3. Len(world) = cursor
        BY <1>2, NextVersion DEF Requests
  <1>4. /\ window' = WindowAfter(inbox[cursor + 1], Len(world) + 1)
        /\ status' = [status EXCEPT ![inbox[cursor + 1]] = "failed"]
        /\ UNCHANGED <<inbox, work, cursor, up, world, cached, recovered, acted>>
        BY <1>2 DEF ProcessFails, results
  <1>5. \A w \in window' : w.sv = cursor + 1
        BY <1>3, <1>4 DEF WindowAfter
  <1>6. WindowIsNew'
    <2>1. \A r \in cached : work[r].sv = cursor
          BY <1>2, <1>3 DEF Requests, CacheIsNewest
    <2>2. QED
          BY <1>2, <1>4, <1>5, <2>1 DEF WindowIsNew
  <1>7. /\ drain'[d] = Idle /\ \A x \in Drains \ {d} : drain'[x] = drain[x]
        BY <1>1 DEF ProcessFails, Dropped
  <1>8. RowsKept
        BY <1>4, KeptWhenUnchanged
  <1>9. RecoveredFirst'
        BY <1>4, <1>7 DEF Requests, RecoveredFirst, Known, Idle
  <1>10. HeldOnce'
        BY <1>7, <1>8, HeldNoMore DEF Idle
  <1>11. status[inbox[cursor + 1]] # "committed"
        BY <1>1, <1>2 DEF IInv, CommittedPrefix
  <1>12. RequestsKnown' /\ PendingWithinDrift'
        BY <1>1, <1>4, <1>8, <1>11, RowsAreKnown
  <1>13. ActedKnown' /\ ActedOnce'
        BY <1>4, <1>8, ActedAsBefore
  <1>14. CacheIsNewest'
        BY <1>4 DEF Requests, CacheIsNewest, Pending
  <1>15. QED
        BY <1>6, <1>9, <1>10, <1>12, <1>13, <1>14 DEF Requests

(* The attention window an event leaves behind holds no frame of the event *)
(* itself.                                                                 *)
LEMMA FastIsNotAmbient ==
  ASSUME NEW e, NEW v, NEW w PROVE AmbientFrame(w) \notin FramesOf(e, v)
PROOF BY DEF AmbientFrame, FramesOf

LEMMA ProcessRequests ==
  ASSUME Requests, Typed', NEW d \in Drains, Process(d) PROVE Requests'
PROOF
  <1> DEFINE e == inbox[cursor + 1]
             v == cursor + 1
             row == [status |-> "pending", sv |-> v, persona |-> persona,
                     frames |-> FramesOf(e, v), window |-> WindowAfter(e, v), evaluated |-> {}]
             rest == Supersede(work, v - MaxDrift)
             mine == {<<e, f>> : f \in FramesOf(e, v)}
  <1>1. /\ drain \in [Drains -> Caller] /\ cached \subseteq Events /\ IInv /\ Typed
        /\ status \in [Events -> Statuses] /\ work \in [Events -> Request]
        BY PartsOfTyped
           DEF Requests, CallersTyped, MemoryTyped, StoreTyped, Typed, IInv, InboxOnce
  <1>2. First(drain[d].batch) = v /\ v \in Numbers /\ cursor \in Nat /\ v \in Nat /\ up
    <2>1. First(drain[d].batch) = cursor + 1 /\ cursor + 1 \in Numbers /\ cursor \in Nat
          BY <1>1, FirstIsNext, InboxFacts DEF Process
    <2>2. up
          BY <1>1 DEF Process, IInv, DrainsOrderly, IsDrain
    <2>3. QED
          BY <2>1, <2>2
  <1>3. Len(world) = cursor /\ Len(world) + 1 = v
        BY <1>1, <1>2, NextVersion
  <1>4. e \in Events
        BY <1>1, <1>2, InboxFacts
  <1>5. v - MaxDrift \in Int
        BY <1>2, SceneAssumption
  <1>6. rest \in [Events -> Request]
        BY <1>1, <1>5, SupersedeTypes DEF Typed
  <1>7. row.status = "pending" /\ row.sv = v /\ row.frames = FramesOf(e, v)
        /\ row.window = WindowAfter(e, v) /\ row.evaluated = {}
        OBVIOUS
  <1>8. /\ work' = [rest EXCEPT ![e] = row] /\ window' = WindowAfter(e, v) /\ cached' = {e}
        /\ world' = Append(world, e) /\ cursor' = v /\ status' = [status EXCEPT ![e] = "committed"]
        /\ drain' = [drain EXCEPT ![d].batch = @ \ {v}, ![d].todo = @ \cup mine]
        /\ UNCHANGED <<inbox, up, recovered, acted>>
        BY <1>2, <1>3 DEF Process, results
  <1>9. /\ drain'[d].todo = drain[d].todo \cup mine /\ drain'[d].pc = "claiming"
        /\ \A x \in Drains \ {d} : drain'[x] = drain[x]
        BY <1>1, <1>8 DEF Caller, Process
  <1> HIDE DEF row, mine
  <1>10. work'[e] = row /\ \A r \in Events \ {e} : work'[r] = rest[r]
        BY <1>4, <1>6, <1>8
  <1>11. \A r \in Events \ {e} :
           /\ work'[r].sv = work[r].sv /\ work'[r].frames = work[r].frames
           /\ work'[r].window = work[r].window /\ work'[r].evaluated = work[r].evaluated
           /\ Known(r) => work'[r].status # "none"
           /\ ~Known(r) => work'[r] = work[r]
           /\ work'[r].status \in {"accepted", "pending"} => work'[r].status = work[r].status
           /\ work'[r].status = "pending" => work[r].sv >= v - MaxDrift
        BY <1>1, <1>5, <1>10, KeptWhenSuperseded
  <1>12. ~Known(e) /\ work[e] = NoWork
    <2>1. status[e] # "committed"
          BY <1>1, <1>2 DEF IInv, CommittedPrefix
    <2>2. QED
          BY <1>4, <2>1 DEF Requests, RequestsKnown
  <1>13. \A w : AmbientFrame(w) \notin row.frames
        BY <1>7, FastIsNotAmbient
  <1> HIDE DEF rest
  <1>14. RequestsKnown'
    <2>1. ASSUME NEW r \in Events \ {e}
          PROVE  /\ ~Known(r)' => work'[r] = NoWork
                 /\ Known(r)' => status'[r] = "committed" /\ work'[r].sv \in 1 .. cursor'
                                 /\ inbox'[work'[r].sv] = r
                 /\ work'[r].evaluated \subseteq work'[r].frames
                 /\ \A f \in work'[r].evaluated : f.sv = work'[r].sv
                 /\ work'[r].status = "accepted" => work'[r].frames \subseteq work'[r].evaluated
                 /\ \A w \in work'[r].window : w.sv = work'[r].sv => AmbientFrame(w) \notin work'[r].frames
      <3>1. ~Known(r)' => work'[r] = NoWork
            BY <1>11 DEF Known, Requests, RequestsKnown
      <3>2. Known(r)' => Known(r)
            BY <1>11 DEF Known
      <3>3. Known(r) => status[r] = "committed" /\ work[r].sv \in 1 .. cursor
                        /\ inbox[work[r].sv] = r
            BY DEF Requests, RequestsKnown
      <3>4. status'[r] = status[r]
            BY <1>1, <1>8
      <3>5. Known(r)' => status'[r] = "committed" /\ work'[r].sv \in 1 .. cursor'
                         /\ inbox'[work'[r].sv] = r
            BY <1>2, <1>8, <1>11, <3>2, <3>3, <3>4
      <3>6. /\ work[r].evaluated \subseteq work[r].frames
            /\ \A f \in work[r].evaluated : f.sv = work[r].sv
            /\ work[r].status = "accepted" => work[r].frames \subseteq work[r].evaluated
            /\ \A w \in work[r].window : w.sv = work[r].sv => AmbientFrame(w) \notin work[r].frames
            BY DEF Requests, RequestsKnown
      <3>7. QED
            BY <1>11, <3>1, <3>5, <3>6
    <2>2. /\ work'[e].status = "pending" /\ work'[e].sv = v /\ work'[e].evaluated = {}
          /\ \A w : AmbientFrame(w) \notin work'[e].frames
          BY <1>7, <1>10, <1>13
    <2>3. status'[e] = "committed" /\ v \in 1 .. cursor' /\ inbox'[v] = e
          BY <1>1, <1>2, <1>4, <1>8
    <2> HIDE DEF e, v
    <2>4. ASSUME NEW w PROVE AmbientFrame(w)' = AmbientFrame(w)
          BY DEF AmbientFrame
    <2>5. QED
          BY <2>1, <2>2, <2>3, <2>4 DEF RequestsKnown, Known
  <1>15. PendingWithinDrift'
    <2>1. ASSUME NEW r \in Events \ {e}, work'[r].status = "pending"
          PROVE  cursor' - work'[r].sv <= MaxDrift
      <3>1. work'[r].sv = work[r].sv /\ work[r].sv >= v - MaxDrift
            BY <1>11, <2>1
      <3>2. work[r].sv \in Nat
            BY <1>1 DEF Request, Versions
      <3>3. QED
            BY <1>2, <1>8, <3>1, <3>2, SceneAssumption
    <2>2. cursor' - work'[e].sv <= MaxDrift
          BY <1>2, <1>7, <1>8, <1>10, SceneAssumption
    <2>3. QED
          BY <2>1, <2>2 DEF PendingWithinDrift, Pending
  <1>16. WindowIsNew'
    <2>1. \A w : AmbientFrame(w) \notin work'[e].frames
          BY <1>10, <1>13
    <2>2. QED
          BY <1>8, <2>1 DEF WindowIsNew, AmbientFrame
  <1>17. CacheIsNewest'
    <2>1. Len(world') = v
          BY <1>1, <1>3, <1>4, <1>8, PartsOfTyped, AppendProperties DEF MemoryTyped
    <2>2. \A r \in Events \ {e} : work'[r].status = "pending" => work'[r].sv # v
      <3>1. ASSUME NEW r \in Events \ {e}, work'[r].status = "pending" PROVE work'[r].sv # v
        <4>1. Known(r) /\ work'[r].sv = work[r].sv
              BY <1>11, <3>1 DEF Known
        <4>2. work[r].sv \in 1 .. cursor
              BY <4>1 DEF Requests, RequestsKnown
        <4>3. QED
              BY <1>2, <4>1, <4>2
      <3>2. QED
            BY <3>1
    <2>3. work'[e].status = "pending" /\ work'[e].sv = v
          BY <1>7, <1>10
    <2> HIDE DEF e, v
    <2>4. QED
          BY <1>2, <1>4, <1>8, <2>1, <2>2, <2>3 DEF CacheIsNewest, Pending
  <1>18. HeldOnce'
    <2>1. ASSUME NEW x \in Drains, NEW f PROVE <<e, f>> \notin drain[x].todo
      <3>1. drain[x].todo \subseteq Task
            BY <1>1 DEF Caller
      <3>2. ASSUME <<e, f>> \in drain[x].todo PROVE FALSE
            BY <1>4, <1>12, <3>1, <3>2 DEF Requests, HeldOnce, Task
      <3>3. QED
            BY <3>2
    <2>2. ASSUME NEW x \in Drains, NEW r \in Events, NEW f \in Frame, <<r, f>> \in drain'[x].todo
          PROVE  /\ Known(r)' /\ f \in work'[r].frames
                 /\ f.sv = work'[r].sv =>
                      f \notin work'[r].evaluated /\ \A y \in Drains \ {x} : <<r, f>> \notin drain'[y].todo
      <3>1. CASE r = e
        <4>1. x = d /\ <<e, f>> \in mine
              BY <1>9, <2>1, <2>2, <3>1
        <4>2. f \in FramesOf(e, v)
              BY <4>1 DEF mine
        <4>3. \A y \in Drains \ {d} : <<e, f>> \notin drain'[y].todo
              BY <1>9, <2>1
        <4>4. /\ work'[e].status # "none"
              /\ f \in work'[e].frames /\ f \notin work'[e].evaluated
              BY <1>7, <1>10, <4>2
        <4>5. QED
              BY <3>1, <4>1, <4>3, <4>4 DEF Known
      <3>2. CASE r # e
        <4>1. <<r, f>> \notin mine
              BY <3>2 DEF mine
        <4>2. \A y \in Drains : <<r, f>> \in drain'[y].todo => <<r, f>> \in drain[y].todo
              BY <1>9, <4>1
        <4>3. /\ Known(r) /\ f \in work[r].frames
              /\ f.sv = work[r].sv =>
                   f \notin work[r].evaluated /\ \A y \in Drains \ {x} : <<r, f>> \notin drain[y].todo
              BY <2>2, <4>2 DEF Requests, HeldOnce
        <4>4. QED
              BY <1>11, <3>2, <4>2, <4>3 DEF Known
      <3>3. QED
            BY <3>1, <3>2
    <2>3. QED
          BY <2>2 DEF HeldOnce
  <1>19. RecoveredFirst'
    <2>1. drain[d].pc # "idle"
          BY DEF Process
    <2>2. recovered' = {}
          BY <1>8, <2>1 DEF Requests, RecoveredFirst
    <2>3. QED
          BY <1>9, <2>2 DEF Requests, RecoveredFirst
  <1>20. ActedKnown' /\ ActedOnce'
    <2>1. \A i \in 1 .. Len(acted) : \E r \in Events \ {e} : acted[i] \in work[r].evaluated
          BY <1>12 DEF Requests, ActedKnown, NoWork
    <2>2. ActedKnown'
          BY <1>8, <1>11, <2>1 DEF ActedKnown
    <2>3. ActedOnce'
          BY <1>8 DEF Requests, ActedOnce
    <2>4. QED
          BY <2>2, <2>3
  <1>21. QED
        BY <1>14, <1>15, <1>16, <1>17, <1>18, <1>19, <1>20 DEF Requests

(* A due window becomes a frame nobody holds and nobody has judged. *)
LEMMA FlushDueRequests ==
  ASSUME Requests, Typed', NEW d \in Drains, FlushDue(d) PROVE Requests'
PROOF
  <1> DEFINE due == {AmbientFrame(w) : w \in window}
             added == cached \X due
             todo == drain[d].todo \cup added
  <1>1. /\ drain \in [Drains -> Caller] /\ cached \subseteq Events /\ Typed
        /\ work \in [Events -> Request]
        BY PartsOfTyped DEF Requests, CallersTyped, MemoryTyped, StoreTyped
  <1>2. /\ window' = {} /\ Judging(d, todo, {}) /\ drain[d].pc # "idle"
        /\ \A r \in cached : Pending(r)
        /\ UNCHANGED <<inbox, status, cursor, up, world, cached, recovered, acted>>
        BY DEF FlushDue
  <1>3. /\ drain'[d].todo = todo /\ (drain'[d].pc = "idle" => todo = {})
        /\ \A x \in Drains \ {d} : drain'[x] = drain[x]
        BY <1>1, <1>2, JudgingHolds
  <1> HIDE DEF due
  <1>4. \A r \in Events : work'[r] = IF r \in cached
          THEN [work[r] EXCEPT !.frames = @ \cup due, !.window = {}] ELSE work[r]
        BY <1>1 DEF FlushDue, due
  <1>5. \A r \in Events :
          /\ work'[r].sv = work[r].sv /\ work'[r].status = work[r].status
          /\ work'[r].evaluated = work[r].evaluated
          /\ r \in cached => work'[r].frames = work[r].frames \cup due /\ work'[r].window = {}
          /\ r \notin cached => work'[r] = work[r]
    <2>1. \A r \in Events : work[r] \in Request
          BY <1>1
    <2>2. QED
          BY <1>4, <2>1 DEF Request
  <1>6. ASSUME NEW r \in cached, NEW f \in due, f.sv = work[r].sv
        PROVE  f \notin work[r].frames
    <2>1. PICK w \in window : f = AmbientFrame(w)
          BY <1>6 DEF due
    <2>2. w.sv = f.sv
          BY <2>1 DEF AmbientFrame
    <2>3. QED
          BY <1>6, <2>1, <2>2 DEF Requests, WindowIsNew
  <1>7. RequestsKnown'
    <2>1. ASSUME NEW r \in Events
          PROVE  /\ ~Known(r)' => work'[r] = NoWork
                 /\ Known(r)' => status'[r] = "committed" /\ work'[r].sv \in 1 .. cursor'
                                 /\ inbox'[work'[r].sv] = r
                 /\ work'[r].evaluated \subseteq work'[r].frames
                 /\ \A f \in work'[r].evaluated : f.sv = work'[r].sv
                 /\ work'[r].status = "accepted" => work'[r].frames \subseteq work'[r].evaluated
                 /\ \A w \in work'[r].window : w.sv = work'[r].sv => AmbientFrame(w) \notin work'[r].frames
      <3>1. /\ ~Known(r) => work[r] = NoWork
            /\ Known(r) => status[r] = "committed" /\ work[r].sv \in 1 .. cursor
                           /\ inbox[work[r].sv] = r
            /\ work[r].evaluated \subseteq work[r].frames
            /\ \A f \in work[r].evaluated : f.sv = work[r].sv
            /\ work[r].status = "accepted" => work[r].frames \subseteq work[r].evaluated
            /\ \A w \in work[r].window : w.sv = work[r].sv => AmbientFrame(w) \notin work[r].frames
            BY DEF Requests, RequestsKnown
      <3>2. CASE r \in cached
            BY <1>2, <1>5, <3>1, <3>2 DEF Known, Pending
      <3>3. CASE r \notin cached
            BY <1>2, <1>5, <3>1, <3>3 DEF Known
      <3>4. QED
            BY <3>2, <3>3
    <2>2. QED
          BY <2>1 DEF RequestsKnown, AmbientFrame
  <1>8. PendingWithinDrift' /\ CacheIsNewest'
        BY <1>2, <1>5 DEF Requests, PendingWithinDrift, CacheIsNewest, Pending
  <1>9. WindowIsNew'
        BY <1>2 DEF WindowIsNew
  <1>10. HeldOnce'
    <2>1. ASSUME NEW x \in Drains, NEW r \in Events, NEW f \in Frame, <<r, f>> \in drain'[x].todo
          PROVE  /\ Known(r)' /\ f \in work'[r].frames
                 /\ f.sv = work'[r].sv =>
                      f \notin work'[r].evaluated /\ \A y \in Drains \ {x} : <<r, f>> \notin drain'[y].todo
      <3>1. Known(r)' <=> Known(r)
            BY <1>5 DEF Known
      <3>2. work[r].frames \subseteq work'[r].frames
            BY <1>5
      <3>3. CASE <<r, f>> \in drain[x].todo
        <4>1. /\ Known(r) /\ f \in work[r].frames
              /\ f.sv = work[r].sv =>
                   f \notin work[r].evaluated /\ \A y \in Drains \ {x} : <<r, f>> \notin drain[y].todo
              BY <3>3 DEF Requests, HeldOnce
        <4>2. f.sv = work[r].sv => <<r, f>> \notin added
              BY <1>6, <4>1
        <4>3. QED
              BY <1>3, <1>5, <3>1, <3>2, <4>1, <4>2
      <3>4. CASE <<r, f>> \notin drain[x].todo
        <4>1. x = d /\ r \in cached /\ f \in due
              BY <1>3, <2>1, <3>4
        <4>2. Known(r) /\ f \in work'[r].frames
              BY <1>2, <1>5, <4>1 DEF Pending, Known
        <4>3. ASSUME f.sv = work[r].sv
              PROVE  f \notin work[r].evaluated /\ \A y \in Drains \ {x} : <<r, f>> \notin drain'[y].todo
          <5>1. f \notin work[r].frames
                BY <1>6, <4>1, <4>3
          <5>2. QED
                BY <1>3, <4>1, <5>1 DEF Requests, RequestsKnown, HeldOnce
        <4>4. QED
              BY <1>5, <3>1, <4>2, <4>3
      <3>5. QED
            BY <3>3, <3>4
    <2>2. QED
          BY <2>1 DEF HeldOnce
  <1>11. RecoveredFirst'
    <2>1. recovered' = {}
          BY <1>2 DEF Requests, RecoveredFirst
    <2>2. QED
          BY <1>3, <2>1 DEF Requests, RecoveredFirst
  <1>12. ActedKnown' /\ ActedOnce'
        BY <1>2, <1>5 DEF Requests, ActedKnown, ActedOnce
  <1>13. QED
        BY <1>7, <1>8, <1>9, <1>10, <1>11, <1>12 DEF Requests

(* A request that is closed takes none of its judgements back: a judgement *)
(* still on its way is of a frame nobody has judged.                       *)
LEMMA CloseRequests ==
  ASSUME Requests, Typed', NEW d \in Drains, NEW r, NEW f, Reject(d, r, f) \/ Discard(d, r, f)
  PROVE  Requests'
PROOF
  <1>1. drain \in [Drains -> Caller] /\ cached \subseteq Events /\ Typed
        BY PartsOfTyped DEF Requests, CallersTyped, MemoryTyped
  <1>2. <<r, f>> \in drain[d].todo /\ drain[d].pc # "idle"
        BY DEF Reject, Discard
  <1>3. r \in Events /\ f \in Frame
        BY <1>1, <1>2 DEF Caller, Task
  <1>4. /\ work' = Resolve(r, "stale") /\ cached' = cached \ {r}
        /\ UNCHANGED <<inbox, status, cursor, up, world, window, recovered>>
        BY DEF Reject, Discard, Uncached
  <1>5. \E kept : Judging(d, drain[d].todo \ {<<r, f>>}, kept)
        BY DEF Reject, Discard
  <1>6. /\ drain'[d].todo = drain[d].todo \ {<<r, f>>}
        /\ (drain'[d].pc = "idle" => drain'[d].todo = {})
        /\ \A x \in Drains \ {d} : drain'[x] = drain[x]
        BY <1>1, <1>5, JudgingHolds
  <1>7. RowsKept /\ work'[r].status # "pending" /\ \A x \in Events \ {r} : work'[x] = work[x]
        BY <1>1, <1>3, <1>4, KeptWhenResolved
  <1>8. acted' = acted
    <2>1. ASSUME work[r].status = "accepted" PROVE FALSE
      <3>1. f \in work[r].frames /\ (f.sv = work[r].sv => f \notin work[r].evaluated)
            BY <1>2, <1>3 DEF Requests, HeldOnce
      <3>2. work[r].frames \subseteq work[r].evaluated
            BY <1>3, <2>1 DEF Requests, RequestsKnown
      <3>3. f.sv = work[r].sv
            BY <1>3, <3>1, <3>2 DEF Requests, RequestsKnown
      <3>4. QED
            BY <3>1, <3>2, <3>3
    <2>2. QED
          BY <2>1 DEF Reject, Discard
  <1>9. RequestsKnown' /\ PendingWithinDrift'
        BY <1>4, <1>7, RowsAreKnown
  <1>10. WindowIsNew'
        BY <1>4, <1>7, WindowStaysNew
  <1>11. HeldOnce'
        BY <1>6, <1>7, HeldNoMore
  <1>12. ActedKnown' /\ ActedOnce'
        BY <1>7, <1>8, ActedAsBefore
  <1>13. CacheIsNewest'
    <2>1. up
          BY <1>1, <1>2 DEF Typed, IInv, DrainsOrderly, IsDrain
    <2>2. QED
          BY <1>3, <1>4, <1>7, <2>1 DEF Requests, CacheIsNewest, Pending
  <1>14. RecoveredFirst'
    <2>1. recovered' = {}
          BY <1>2, <1>4 DEF Requests, RecoveredFirst
    <2>2. QED
          BY <1>6, <2>1 DEF Requests, RecoveredFirst
  <1>15. QED
        BY <1>9, <1>10, <1>11, <1>12, <1>13, <1>14 DEF Requests

(* An accepted evaluation is of a frame that was not judged before, for no *)
(* other request is of the same version.                                   *)
LEMMA AcceptRequests ==
  ASSUME Requests, Typed', NEW d \in Drains, NEW r, NEW f, Accept(d, r, f)
  PROVE  Requests'
PROOF
  <1> DEFINE evaluated == work[r].evaluated \cup {f}
             newest == work[r].sv = Len(world)
             keep == work[r].frames \ evaluated # {} \/ (newest /\ work[r].window # {})
             row == [[work[r] EXCEPT !.evaluated = @ \cup {f}]
                       EXCEPT !.status = IF keep THEN "pending" ELSE "accepted"]
  <1>1. /\ drain \in [Drains -> Caller] /\ cached \subseteq Events /\ Typed
        /\ work \in [Events -> Request] /\ acted \in Seq(Frame)
        BY PartsOfTyped DEF Requests, CallersTyped, MemoryTyped, StoreTyped
  <1>2. <<r, f>> \in drain[d].todo /\ drain[d].pc # "idle"
        BY DEF Accept
  <1>3. r \in Events /\ f \in Frame
        BY <1>1, <1>2 DEF Caller, Task
  <1>4. Pending(r) /\ f.sv = work[r].sv /\ f \in work[r].frames
        BY DEF Accept, Actionable
  <1>5. work[r] \in Request
        BY <1>1, <1>3
  <1>6. work' = [work EXCEPT ![r] = row]
        BY <1>5 DEF Accept, Request
  <1>7. cached' = IF keep /\ newest THEN cached \cup {r} ELSE cached \ {r}
        BY <1>5 DEF Accept, Request, Uncached
  <1>8. /\ row.evaluated = evaluated /\ row.sv = work[r].sv /\ row.frames = work[r].frames
        /\ row.window = work[r].window /\ row.status = IF keep THEN "pending" ELSE "accepted"
        BY <1>5 DEF Request
  <1> HIDE DEF row
  <1>9. work'[r] = row /\ \A x \in Events \ {r} : work'[x] = work[x]
        BY <1>1, <1>3, <1>6
  <1>10. \A x \in Events : /\ work'[x].sv = work[x].sv /\ work'[x].frames = work[x].frames
                           /\ work'[x].window = work[x].window
                           /\ work[x].evaluated \subseteq work'[x].evaluated
        BY <1>8, <1>9
  <1>11. /\ Judging(d, drain[d].todo \ {<<r, f>>}, drain[d].kept \cup {f})
         /\ acted' = Append(acted, f)
         /\ UNCHANGED <<inbox, status, cursor, up, world, window, recovered>>
        BY DEF Accept
  <1>12. /\ drain'[d].todo = drain[d].todo \ {<<r, f>>}
         /\ (drain'[d].pc = "idle" => drain'[d].todo = {})
         /\ \A x \in Drains \ {d} : drain'[x] = drain[x]
        BY <1>1, <1>11, JudgingHolds
  <1>13. f \notin work[r].evaluated /\ \A x \in Drains \ {d} : <<r, f>> \notin drain[x].todo
        BY <1>2, <1>3, <1>4 DEF Requests, HeldOnce
  <1>14. up
        BY <1>1, <1>2 DEF Typed, IInv, DrainsOrderly, IsDrain
  <1>15. newest => r \in cached
        BY <1>3, <1>4, <1>14 DEF Requests, CacheIsNewest
  <1>16. RequestsKnown'
    <2>1. ASSUME NEW x \in Events
          PROVE  /\ ~Known(x)' => work'[x] = NoWork
                 /\ Known(x)' => status'[x] = "committed" /\ work'[x].sv \in 1 .. cursor'
                                 /\ inbox'[work'[x].sv] = x
                 /\ work'[x].evaluated \subseteq work'[x].frames
                 /\ \A g \in work'[x].evaluated : g.sv = work'[x].sv
                 /\ work'[x].status = "accepted" => work'[x].frames \subseteq work'[x].evaluated
                 /\ \A w \in work'[x].window : w.sv = work'[x].sv => AmbientFrame(w) \notin work'[x].frames
      <3>1. /\ ~Known(x) => work[x] = NoWork
            /\ Known(x) => status[x] = "committed" /\ work[x].sv \in 1 .. cursor
                           /\ inbox[work[x].sv] = x
            /\ work[x].evaluated \subseteq work[x].frames
            /\ \A g \in work[x].evaluated : g.sv = work[x].sv
            /\ work[x].status = "accepted" => work[x].frames \subseteq work[x].evaluated
            /\ \A w \in work[x].window : w.sv = work[x].sv => AmbientFrame(w) \notin work[x].frames
            BY DEF Requests, RequestsKnown
      <3>2. CASE x = r
        <4>1. Known(r) /\ work'[r].status # "none"
              BY <1>4, <1>8, <1>9 DEF Known, Pending
        <4>2. work'[r].evaluated = evaluated
              BY <1>8, <1>9
        <4>3. work'[r].status = "accepted" => work[r].frames \subseteq evaluated
              BY <1>8, <1>9
        <4>4. QED
              BY <1>4, <1>10, <1>11, <3>1, <3>2, <4>1, <4>2, <4>3 DEF Known
      <3>3. CASE x # r
            BY <1>9, <1>11, <3>1, <3>3 DEF Known
      <3>4. QED
            BY <3>2, <3>3
    <2>2. QED
          BY <2>1 DEF RequestsKnown, AmbientFrame
  <1>17. PendingWithinDrift'
        BY <1>4, <1>9, <1>10, <1>11 DEF Requests, PendingWithinDrift, Pending
  <1>18. CacheIsNewest'
    <2>1. work'[r].status = "pending" <=> keep
          BY <1>8, <1>9
    <2> HIDE DEF keep, newest
    <2>2. QED
          BY <1>3, <1>7, <1>9, <1>10, <1>11, <1>14, <2>1
             DEF Requests, CacheIsNewest, Pending, newest
  <1>19. WindowIsNew'
    <2>1. cached' \subseteq cached
          BY <1>7, <1>15
    <2>2. QED
          BY <1>1, <1>10, <1>11, <2>1 DEF Requests, WindowIsNew, AmbientFrame
  <1>20. HeldOnce'
    <2>1. ASSUME NEW x \in Drains, NEW q \in Events, NEW g \in Frame, <<q, g>> \in drain'[x].todo
          PROVE  /\ Known(q)' /\ g \in work'[q].frames
                 /\ g.sv = work'[q].sv =>
                      g \notin work'[q].evaluated /\ \A y \in Drains \ {x} : <<q, g>> \notin drain'[y].todo
      <3>1. \A y \in Drains : drain'[y].todo \subseteq drain[y].todo
            BY <1>12
      <3>2. /\ Known(q) /\ g \in work[q].frames
            /\ g.sv = work[q].sv =>
                 g \notin work[q].evaluated /\ \A y \in Drains \ {x} : <<q, g>> \notin drain[y].todo
            BY <2>1, <3>1 DEF Requests, HeldOnce
      <3>3. q # r \/ g # f
            BY <1>12, <1>13, <2>1
      <3>4. Known(q)'
            BY <1>8, <1>9, <3>2 DEF Known
      <3>5. g \notin work[q].evaluated => g \notin work'[q].evaluated
            BY <1>8, <1>9, <3>3
      <3>6. QED
            BY <1>10, <3>1, <3>2, <3>4, <3>5
    <2>2. QED
          BY <2>1 DEF HeldOnce
  <1>21. RecoveredFirst'
    <2>1. recovered' = {}
          BY <1>2, <1>11 DEF Requests, RecoveredFirst
    <2>2. QED
          BY <1>12, <2>1 DEF Requests, RecoveredFirst
  <1>22. /\ Len(acted) \in Nat /\ Len(acted') = Len(acted) + 1 /\ acted'[Len(acted) + 1] = f
         /\ \A i \in 1 .. Len(acted) : acted'[i] = acted[i]
        BY <1>1, <1>3, <1>11, AppendProperties, LenProperties
  <1>23. \A i \in 1 .. Len(acted) : acted[i] # f
    <2>1. ASSUME NEW i \in 1 .. Len(acted), acted[i] = f PROVE FALSE
      <3>1. PICK q \in Events : f \in work[q].evaluated
            BY <2>1 DEF Requests, ActedKnown
      <3>2. Known(q) /\ work[q].sv = f.sv
            BY <3>1 DEF Requests, RequestsKnown, NoWork
      <3>3. Known(r)
            BY <1>4 DEF Pending, Known
      <3>4. q = inbox[work[q].sv] /\ r = inbox[work[r].sv]
            BY <1>3, <3>2, <3>3 DEF Requests, RequestsKnown
      <3>5. q = r
            BY <1>4, <3>2, <3>4
      <3>6. QED
            BY <1>13, <3>1, <3>5
    <2>2. QED
          BY <2>1
  <1>24. ActedKnown'
    <2>1. ASSUME NEW i \in 1 .. Len(acted') PROVE \E q \in Events : acted'[i] \in work'[q].evaluated
      <3>1. CASE i = Len(acted) + 1
            BY <1>3, <1>8, <1>9, <1>22, <3>1
      <3>2. CASE i # Len(acted) + 1
        <4>1. i \in 1 .. Len(acted)
              BY <1>22, <3>2
        <4>2. QED
              BY <1>10, <1>22, <4>1 DEF Requests, ActedKnown
      <3>3. QED
            BY <3>1, <3>2
    <2>2. QED
          BY <2>1 DEF ActedKnown
  <1>25. ActedOnce'
    <2>1. ASSUME NEW i \in 1 .. Len(acted'), NEW j \in 1 .. Len(acted'), acted'[i] = acted'[j]
          PROVE  i = j
      <3>1. \A k \in 1 .. Len(acted') : k # Len(acted) + 1 => k \in 1 .. Len(acted)
            BY <1>22
      <3>2. CASE i # Len(acted) + 1 /\ j # Len(acted) + 1
            BY <1>22, <2>1, <3>1, <3>2 DEF Requests, ActedOnce
      <3>3. CASE i = Len(acted) + 1 \/ j = Len(acted) + 1
            BY <1>22, <1>23, <2>1, <3>1, <3>3
      <3>4. QED
            BY <3>2, <3>3
    <2>2. QED
          BY <2>1 DEF ActedOnce
  <1>26. QED
        BY <1>16, <1>17, <1>18, <1>19, <1>20, <1>21, <1>24, <1>25 DEF Requests

(* The process stops: the memory is gone, the store is not. *)
LEMMA StopRequests ==
  ASSUME Requests, Typed', Close \/ Crash PROVE Requests'
PROOF
  <1>1. /\ up' = FALSE /\ window' = {} /\ cached' = {} /\ recovered' = {}
        /\ drain' = [d \in Drains |-> Idle]
        /\ UNCHANGED <<inbox, status, cursor, work, acted>>
        BY DEF Close, Crash, Forget, results
  <1>2. RowsKept
        BY <1>1, KeptWhenUnchanged
  <1>3. RequestsKnown' /\ PendingWithinDrift'
        BY <1>1, <1>2, RowsAreKnown
  <1>4. ActedKnown' /\ ActedOnce'
        BY <1>1, <1>2, ActedAsBefore
  <1>5. WindowIsNew' /\ CacheIsNewest'
        BY <1>1 DEF WindowIsNew, CacheIsNewest
  <1>6. \A d \in Drains : drain'[d].todo = {} /\ drain'[d].pc = "idle"
        BY <1>1 DEF Idle
  <1>7. HeldOnce' /\ RecoveredFirst'
        BY <1>1, <1>6 DEF HeldOnce, RecoveredFirst
  <1>8. QED
        BY <1>3, <1>4, <1>5, <1>7 DEF Requests

(* Of one version there is one request, so what is reissued with its       *)
(* window is one request at most.                                          *)
LEMMA StartRequests ==
  ASSUME Requests, Typed', Start PROVE Requests'
PROOF
  <1> DEFINE newest == Len(Replayed)
             rows == Supersede(work, newest)
             reissued == {r \in Events : rows[r].status = "pending" /\ rows[r].sv = newest}
  <1>1. Typed /\ IInv
        BY DEF Requests, Typed
  <1>2. newest \in Int
    <2>1. Replayed = SubSeq(inbox, 1, cursor)
          BY <1>1, ReplayIsPrefix
    <2>2. inbox \in Seq(Events) /\ cursor \in 0 .. Len(inbox) /\ Len(inbox) \in Nat
          BY <1>1, InboxFacts DEF IInv, InboxOnce
    <2>3. Replayed \in Seq(Events)
          BY <2>1, <2>2, ElementOfSeq, SubSeqProperties
    <2>4. QED
          BY <2>3
  <1>3. /\ work' = rows /\ cached' = reissued /\ recovered' = reissued /\ up' = TRUE
        /\ window' = UNION {rows[r].window : r \in reissued} /\ world' = Replayed
        /\ ~up /\ UNCHANGED <<inbox, status, cursor, acted, drain>>
        BY DEF Start, callers, results
  <1>4. RowsKept
        BY <1>1, <1>2, <1>3, KeptWhenSuperseded DEF RowsKept
  <1> HIDE DEF rows
  <1>5. RequestsKnown' /\ PendingWithinDrift'
        BY <1>3, <1>4, RowsAreKnown
  <1>6. ActedKnown' /\ ActedOnce'
        BY <1>3, <1>4, ActedAsBefore
  <1>7. CacheIsNewest'
        BY <1>3 DEF CacheIsNewest, Pending
  <1>8. WindowIsNew'
    <2>1. ASSUME NEW r \in reissued, NEW q \in reissued PROVE r = q
      <3>1. Known(r)' /\ Known(q)'
            BY <1>3 DEF Known
      <3>2. work'[r].sv = work'[q].sv
            BY <1>3
      <3>3. inbox'[work'[r].sv] = r /\ inbox'[work'[q].sv] = q
            BY <1>5, <3>1 DEF RequestsKnown
      <3>4. QED
            BY <3>2, <3>3
    <2>2. ASSUME NEW r \in reissued, NEW w \in window', w.sv = work'[r].sv
          PROVE  AmbientFrame(w) \notin work'[r].frames
      <3>1. w \in work'[r].window
            BY <1>3, <2>1, <2>2
      <3>2. QED
            BY <1>5, <2>2, <3>1 DEF RequestsKnown, AmbientFrame
    <2>3. QED
          BY <1>3, <2>2 DEF WindowIsNew, AmbientFrame
  <1>9. \A d \in Drains : drain'[d].todo = {} /\ drain'[d].pc = "idle"
    <2>1. \A d \in Drains : drain[d].pc = "idle"
          BY <1>1, <1>3 DEF IInv, DrainsOrderly, IsDrain
    <2>2. QED
          BY <1>3, <2>1 DEF Requests, RecoveredFirst
  <1>10. \A r \in recovered' : Known(r)'
         BY <1>3 DEF Known
  <1>11. HeldOnce' /\ RecoveredFirst'
         BY <1>9, <1>10 DEF HeldOnce, RecoveredFirst, Known
  <1>12. QED
         BY <1>5, <1>6, <1>7, <1>8, <1>11 DEF Requests

LEMMA RequestsInit == Init => Requests
PROOF
  <1> SUFFICES ASSUME Init PROVE Requests
      OBVIOUS
  <1>1. Typed
        BY TypedInit
  <1>2. Len(world) = 0 /\ Len(acted) = 0
        BY EmptySeq DEF Init
  <1>3. \A r \in Events : /\ work[r] = NoWork /\ work[r].status = "none" /\ work[r].frames = {}
                          /\ work[r].evaluated = {} /\ work[r].window = {}
        BY DEF Init, NoWork
  <1>4. \A d \in Drains : drain[d].todo = {}
        BY DEF Init, Idle
  <1>5. RequestsKnown /\ PendingWithinDrift
        BY <1>3 DEF RequestsKnown, PendingWithinDrift, Pending, Known
  <1>6. WindowIsNew /\ CacheIsNewest
        BY <1>3 DEF Init, WindowIsNew, CacheIsNewest, Pending
  <1>7. HeldOnce /\ RecoveredFirst
        BY <1>4 DEF Init, HeldOnce, RecoveredFirst
  <1>8. ActedKnown /\ ActedOnce
        BY <1>2 DEF ActedKnown, ActedOnce
  <1>9. QED
        BY <1>1, <1>5, <1>6, <1>7, <1>8 DEF Requests

LEMMA RequestsStep == Requests /\ [Next]_vars => Requests'
PROOF
  <1> SUFFICES ASSUME Requests, [Next]_vars PROVE Requests'
      OBVIOUS
  <1>1. Typed'
        BY TypedStep DEF Requests
  <1>2. CASE \E e \in Events : Publish(e)
        BY <1>1, <1>2, PublishRequests
  <1>3. ASSUME NEW d \in Drains,
               BeginDrain(d) \/ DrainStep(d) \/ ProcessFails(d) \/ DrainRaises(d)
        PROVE  Requests'
    <2>1. CASE BeginDrain(d)
          BY <1>1, <2>1, BeginDrainRequests
    <2>2. CASE Claim(d) \/ EndClaim(d) \/ FlushNothing(d) \/ DrainRaises(d)
          BY <1>1, <2>2, DrainRequests
    <2>3. CASE Process(d)
          BY <1>1, <2>3, ProcessRequests
    <2>4. CASE ProcessFails(d)
          BY <1>1, <2>4, ProcessFailsRequests
    <2>5. CASE FlushDue(d)
          BY <1>1, <2>5, FlushDueRequests
    <2>6. CASE Judge(d)
          BY <1>1, <2>6, AcceptRequests, CloseRequests DEF Judge
    <2>7. QED
          BY <1>3, <2>1, <2>2, <2>3, <2>4, <2>5, <2>6 DEF DrainStep
  <1>4. CASE PersonaChanges \/ UNCHANGED vars
    <2>1. UNCHANGED <<inbox, status, cursor, work, up, world, window, cached, recovered, drain, acted>>
          BY <1>4 DEF PersonaChanges, vars, store, memory, callers, results
    <2>2. RecoveredFirst'
          BY <2>1 DEF Requests, RecoveredFirst, Known
    <2>3. HeldOnce'
          BY <2>1, KeptWhenUnchanged, HeldNoMore
    <2>4. QED
          BY <1>1, <2>1, <2>2, <2>3, OnlyDrains
  <1>5. CASE Close \/ Crash
        BY <1>1, <1>5, StopRequests
  <1>6. CASE Start
        BY <1>1, <1>6, StartRequests
  <1>7. QED
        BY <1>2, <1>3, <1>4, <1>5, <1>6 DEF Next

(***************************************************************************)
(* Requests, windows and the judgements on their way fit together,         *)
(* whatever fails, stops or is done twice.                                 *)
(***************************************************************************)
THEOREM RequestsFit == Spec => []Requests
PROOF BY RequestsInit, RequestsStep, PTL DEF Spec

(***************************************************************************)
(* The evaluation of a frame is accepted at most once, across failures,    *)
(* crashes, reissued requests and drains that judge at the same time.      *)
(***************************************************************************)
THEOREM ActsOnce == Spec => []ActedOnce
PROOF
  <1>1. Requests => ActedOnce
        BY DEF Requests
  <1>2. QED
        BY <1>1, RequestsFit, PTL

(***************************************************************************)
(* The cached request is pending in the store and of the newest version.   *)
(***************************************************************************)
THEOREM CachedRequestIsOpen == Spec => []CachedIsOpen
PROOF
  <1>1. Requests => CachedIsOpen
        BY DEF Requests, CacheIsNewest, CachedIsOpen
  <1>2. QED
        BY <1>1, RequestsFit, PTL

(***************************************************************************)
(* Nothing stays pending that lies further back than a judgement would be  *)
(* accepted at, however many events come in at once.                       *)
(***************************************************************************)
THEOREM RequestsWithinDrift == Spec => []PendingWithinDrift
PROOF
  <1>1. Requests => PendingWithinDrift
        BY DEF Requests
  <1>2. QED
        BY <1>1, RequestsFit, PTL

(***************************************************************************)
(* A request that was accepted or found stale keeps its row for good: no   *)
(* late judgement, failed commit, due window or restart opens it again.    *)
(***************************************************************************)
THEOREM ResolvedStays == Spec => ResolvedIsFinal
PROOF
  <1> DEFINE Final == \A r \in Events : work[r].status \in {"accepted", "stale"} => work'[r] = work[r]
  <1>1. Requests /\ [Next]_vars => Final
    <2> SUFFICES ASSUME Requests, [Next]_vars,
                        NEW r \in Events, work[r].status \in {"accepted", "stale"}
                 PROVE  work'[r] = work[r]
        OBVIOUS
    <2>1. work \in [Events -> Request] /\ Typed /\ IInv /\ ~Pending(r)
          BY PartsOfTyped DEF Requests, Typed, StoreTyped, Pending
    <2>2. CASE \E d \in Drains : Process(d)
      <3>1. PICK d \in Drains : Process(d)
            BY <2>2
      <3>2. First(drain[d].batch) = cursor + 1 /\ cursor + 1 \in Numbers
            BY <2>1, <3>1, FirstIsNext DEF Process
      <3>3. status[inbox[cursor + 1]] # "committed"
            BY <2>1, <3>2, InboxFacts DEF IInv, CommittedPrefix
      <3>4. r # inbox[cursor + 1]
            BY <3>3 DEF Requests, RequestsKnown, Known
      <3>5. \E b, row : work' = [Supersede(work, b) EXCEPT ![inbox[cursor + 1]] = row]
            BY <3>1, <3>2 DEF Process
      <3>6. QED
            BY <2>1, <3>4, <3>5 DEF Supersede, Pending
    <2>3. CASE \E d \in Drains : FlushDue(d)
          BY <2>1, <2>3 DEF FlushDue
    <2>4. CASE \E d \in Drains : Judge(d)
      <3>1. PICK d \in Drains : \E t \in drain[d].todo :
              Accept(d, t[1], t[2]) \/ Reject(d, t[1], t[2]) \/ Discard(d, t[1], t[2])
            BY <2>4 DEF Judge
      <3>2. PICK t \in drain[d].todo :
              Accept(d, t[1], t[2]) \/ Reject(d, t[1], t[2]) \/ Discard(d, t[1], t[2])
            BY <3>1
      <3>3. CASE Accept(d, t[1], t[2])
        <4>1. Pending(t[1]) /\ \E row : work' = [work EXCEPT ![t[1]] = row]
              BY <3>3 DEF Accept, Actionable
        <4>2. QED
              BY <2>1, <4>1
      <3>4. CASE Reject(d, t[1], t[2]) \/ Discard(d, t[1], t[2])
        <4>1. work' = Resolve(t[1], "stale")
              BY <3>4 DEF Reject, Discard
        <4>2. QED
              BY <2>1, <4>1 DEF Resolve
      <3>5. QED
            BY <3>2, <3>3, <3>4
    <2>5. CASE Start
          BY <2>1, <2>5 DEF Start, Supersede, Pending
    <2>6. CASE UNCHANGED work
          BY <2>6
    <2>7. QED
          BY <2>2, <2>3, <2>4, <2>5, <2>6
             DEF Next, DrainStep, Publish, BeginDrain, Claim, EndClaim, FlushNothing, ProcessFails,
                 DrainRaises, PersonaChanges, Close, Crash, Forget, vars, store
  <1>2. QED
        BY <1>1, RequestsFit, PTL DEF Spec, ResolvedIsFinal
=============================================================================
