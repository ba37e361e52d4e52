-------------------------- MODULE AudioPlayerProofs --------------------------
(***************************************************************************)
(* TLAPS proofs about AudioPlayer, for every number of players, pipes and  *)
(* calls: the types of the players and of the mixer below them; that every *)
(* live source has one owner, in one role, with one decoder at work per    *)
(* player, whatever fails on the way; that what is played is played to its *)
(* end; and that a started player has a source to play.                    *)
(*                                                                         *)
(* A call, an event and a poll are transformers of a World.  The proofs    *)
(* say of each what it does to the roles and to the flags of its player    *)
(* (Source, On, Waits), and of the other players that it leaves them       *)
(* alone.  Sound(w) is about who owns what, and holds whatever happens;    *)
(* Served(w) is about what there is to play, and builds on it.             *)
(***************************************************************************)
EXTENDS AudioPlayer, AudioMixerProofs, FiniteSetTheorems, WellFoundedInduction, NaturalsInduction

USE NobodyAssumption

Causes == SlotStates \cup {"invalid"}
PlayerFields == [src : [Roles -> Pipes \cup {None}], reason : Reasons, prepared : BOOLEAN,
                 started : BOOLEAN, start_pending : BOOLEAN, seek_pending : BOOLEAN,
                 sought : BOOLEAN, next_player : Clients \cup {None}, stop_cause : Causes]
Worlds == [players : [Clients -> PlayerFields], decoder : [Pipes -> DecoderStates],
           completed : [Pipes -> {"no", "end", "loop"}], set : SourceSets, sources : SUBSET Pipes,
           data_end : [Pipes -> {"none", "queued", "end", "loop"}], looping : SUBSET Clients,
           asserts : SUBSET {"move", "null active_source_", "no pipe"}]

On(w, c) == w.players[c].started
Waits(w, c) == w.players[c].start_pending
Reason(w, c) == w.players[c].reason
Seeks(w, c) == w.players[c].seek_pending
Prepared(w, c) == w.players[c].prepared
Cause(w, c) == w.players[c].stop_cause
Live == {"preparing", "prefetched", "paused", "playing"}
Works(w, p) == w.decoder[p] \in Live

\* one owner and one role for each source, and one decoder at work
Owned(w) ==
  /\ "move" \notin w.asserts
  /\ \A p \in Pipes : p \in w.sources <=> \E c \in Clients, r \in Roles : Source(w, c, r) = p
  /\ \A c, d \in Clients, r, s \in Roles :
       Source(w, c, r) = Source(w, d, s) /\ Source(w, c, r) # None => c = d /\ r = s
  /\ \A c \in Clients, r, s \in Roles :
       Has(w, c, r) /\ Has(w, c, s) /\ Works(w, Source(w, c, r)) /\ Works(w, Source(w, c, s)) => r = s

\* a player with an active source is started and has no other ready; a start waits for a player that is not;
\* while the first source is being prepared there is nothing to play; what is prepared is prepared for something
Flagged(w, c) ==
  /\ Has(w, c, "active") => On(w, c) /\ ~Has(w, c, "ready")
  /\ Waits(w, c) => ~On(w, c)
  /\ Reason(w, c) = "preparing" => ~Has(w, c, "active") /\ ~Has(w, c, "ready") /\ ~Has(w, c, "next")
  /\ Has(w, c, "preparing") => Reason(w, c) # "none"
Sound(w) == w \in Worlds /\ Owned(w) /\ \A c \in Clients : Flagged(w, c)

\* the other players are as they were
Elsewhere(v, w, c) == \A d \in Clients \ {c} : v.players[d] = w.players[d]
\* what a source is being prepared for is as it was, or none is any more
Kept(v, w, c) == Reason(v, c) = Reason(w, c) \/ (Reason(v, c) = "none" /\ ~Has(v, c, "preparing"))
\* the sources and the flags are as they were
Alike(v, w, c) ==
  /\ \A r \in Roles : Source(v, c, r) = Source(w, c, r)
  /\ On(v, c) = On(w, c) /\ Waits(v, c) = Waits(w, c) /\ Kept(v, w, c)
\* no source is new, no assertion fails, and the decoders and the data of the sources that stay are as they were
Calm(v, w) ==
  /\ v.asserts = w.asserts /\ v.looping = w.looping /\ v.sources \subseteq w.sources
  /\ \A p \in v.sources : v.decoder[p] = w.decoder[p] /\ v.data_end[p] = w.data_end[p]
  /\ \A p \in Pipes : v.data_end[p] \in {w.data_end[p], "none"}
\* nor is anything else of the player
Steady(v, w, c) == Seeks(v, c) = Seeks(w, c) /\ Prepared(v, c) = Prepared(w, c) /\ Cause(v, c) = Cause(w, c)

-----------------------------------------------------------------------------
(* Steps that leave sources and roles alone.                               *)

\* what a role holds
LEMMA SourceTyped ==
  ASSUME NEW w \in Worlds, NEW c \in Clients, NEW r \in Roles
  PROVE  /\ w.players[c] \in PlayerFields /\ Source(w, c, r) \in Pipes \cup {None}
         /\ On(w, c) \in BOOLEAN /\ Waits(w, c) \in BOOLEAN
<1>1. w.players[c] \in PlayerFields
  BY DEF Worlds
<1> QED
  BY <1>1 DEF PlayerFields, Source, On, Waits

\* nothing Owned speaks of changes, but for decoders that stop
LEMMA OwnedKept ==
  ASSUME NEW w \in Worlds, Owned(w), NEW v \in Worlds,
         \A d \in Clients, r \in Roles : Source(v, d, r) = Source(w, d, r),
         v.sources = w.sources, "move" \notin v.asserts,
         \A p \in Pipes : Works(v, p) => Works(w, p)
  PROVE  Owned(v)
<1>1. \A d \in Clients, r \in Roles : Has(v, d, r) => Source(v, d, r) \in Pipes
  BY SourceTyped DEF Has
<1> QED
  BY <1>1 DEF Owned, Has

LEMMA CalmTrans ==
  ASSUME NEW u, NEW v, NEW w, Calm(v, w), Calm(u, v)
  PROVE  Calm(u, w)
BY DEF Calm

LEMMA SteadyTrans ==
  ASSUME NEW u, NEW v, NEW w, NEW c, Steady(v, w, c), Steady(u, v, c)
  PROVE  Steady(u, w, c)
BY DEF Steady

\* the fields of one player are replaced
Put(w, c, pl) == [w EXCEPT !.players = [@ EXCEPT ![c] = pl]]

LEMMA PutEffect ==
  ASSUME NEW w \in Worlds, NEW c \in Clients, NEW pl \in PlayerFields, NEW v, v = Put(w, c, pl)
  PROVE  /\ v \in Worlds /\ v.players[c] = pl /\ Elsewhere(v, w, c)
         /\ v.decoder = w.decoder /\ v.sources = w.sources /\ v.asserts = w.asserts /\ v.set = w.set
         /\ v.completed = w.completed /\ v.data_end = w.data_end /\ v.looping = w.looping
         /\ Calm(v, w)
  BY DEF Put, Worlds, Elsewhere, Calm

LEMMA SetSourceEffect ==
  ASSUME NEW w \in Worlds, NEW c \in Clients, NEW r \in Roles, NEW p \in Pipes \cup {None},
         NEW v, v = SetSource(w, c, r, p)
  PROVE  /\ v \in Worlds /\ Elsewhere(v, w, c)
         /\ \A s \in Roles : Source(v, c, s) = IF s = r THEN p ELSE Source(w, c, s)
         /\ On(v, c) = On(w, c) /\ Waits(v, c) = Waits(w, c) /\ Reason(v, c) = Reason(w, c)
         /\ v.decoder = w.decoder /\ v.sources = w.sources /\ v.asserts = w.asserts /\ v.set = w.set
         /\ v.data_end = w.data_end /\ Calm(v, w) /\ Steady(v, w, c)
<1> DEFINE pl == [w.players[c] EXCEPT !.src = [@ EXCEPT ![r] = p]]
<1>1. w.players[c] \in PlayerFields
  BY DEF Worlds
<1>2. /\ pl \in PlayerFields /\ pl.src = [w.players[c].src EXCEPT ![r] = p]
      /\ pl.started = w.players[c].started /\ pl.start_pending = w.players[c].start_pending
      /\ pl.reason = w.players[c].reason /\ pl.seek_pending = w.players[c].seek_pending
      /\ pl.prepared = w.players[c].prepared /\ pl.stop_cause = w.players[c].stop_cause
  BY <1>1 DEF PlayerFields
<1>3. v = Put(w, c, pl)
  BY DEF SetSource, Put
<1>4. w.players[c].src \in [Roles -> Pipes \cup {None}]
  BY <1>1 DEF PlayerFields
<1> HIDE DEF pl
<1> QED
  BY <1>2, <1>3, <1>4, PutEffect DEF Source, On, Waits, Reason, Steady, Seeks, Prepared, Cause

\* fields Owned and the flags do not speak of
LEMMA NeutralFields ==
  ASSUME NEW w \in Worlds, Owned(w), NEW c \in Clients, NEW pl \in PlayerFields,
         pl.src = w.players[c].src, NEW v, v = Put(w, c, pl)
  PROVE  /\ v \in Worlds /\ Owned(v) /\ Elsewhere(v, w, c) /\ v.decoder = w.decoder /\ v.set = w.set
         /\ v.sources = w.sources
         /\ \A r \in Roles : Source(v, c, r) = Source(w, c, r)
         /\ On(v, c) = pl.started /\ Waits(v, c) = pl.start_pending /\ Reason(v, c) = pl.reason
         /\ v.asserts = w.asserts /\ v.looping = w.looping /\ v.data_end = w.data_end /\ Calm(v, w) /\ Seeks(v, c) = pl.seek_pending /\ Prepared(v, c) = pl.prepared /\ Cause(v, c) = pl.stop_cause
<1>1. /\ v \in Worlds /\ v.players[c] = pl /\ Elsewhere(v, w, c)
      /\ v.decoder = w.decoder /\ v.sources = w.sources /\ v.asserts = w.asserts /\ v.set = w.set
      /\ v.looping = w.looping /\ v.data_end = w.data_end /\ Calm(v, w)
  BY PutEffect
<1>2. \A r \in Roles : Source(v, c, r) = Source(w, c, r)
  BY <1>1 DEF Source
<1>3. \A d \in Clients, r \in Roles : Source(v, d, r) = Source(w, d, r)
  BY <1>1, <1>2 DEF Elsewhere, Source
<1>4. Owned(v)
  BY <1>1, <1>3, OwnedKept DEF Works, Owned
<1> QED
  BY <1>1, <1>2, <1>4 DEF On, Waits, Reason, Seeks, Prepared, Cause

LEMMA SetStartedEffect ==
  ASSUME NEW w \in Worlds, Owned(w), NEW c \in Clients, NEW b \in BOOLEAN, NEW v, v = SetStarted(w, c, b)
  PROVE  /\ v \in Worlds /\ Owned(v) /\ Elsewhere(v, w, c)
         /\ \A r \in Roles : Source(v, c, r) = Source(w, c, r)
         /\ On(v, c) = b /\ Waits(v, c) = Waits(w, c) /\ Reason(v, c) = Reason(w, c)
         /\ Calm(v, w) /\ Steady(v, w, c)
<1> DEFINE pl == [w.players[c] EXCEPT !.started = b]
<1>1. w.players[c] \in PlayerFields
  BY DEF Worlds
<1>2. /\ pl \in PlayerFields /\ pl.src = w.players[c].src /\ pl.reason = w.players[c].reason
      /\ pl.started = b /\ pl.start_pending = w.players[c].start_pending
      /\ pl.seek_pending = w.players[c].seek_pending /\ pl.prepared = w.players[c].prepared
      /\ pl.stop_cause = w.players[c].stop_cause
  BY <1>1 DEF PlayerFields
<1>3. v = Put(w, c, pl)
  BY DEF SetStarted, Put
<1> HIDE DEF pl
<1> QED
  BY <1>2, <1>3, NeutralFields DEF Waits, Reason, Steady, Seeks, Prepared, Cause

LEMMA SetStartedSources ==
  ASSUME NEW w \in Worlds, Owned(w), NEW c \in Clients, NEW b \in BOOLEAN, NEW v, v = SetStarted(w, c, b),
         NEW r \in Roles
  PROVE  Source(v, c, r) = Source(w, c, r)
  BY SetStartedEffect

LEMMA ClearPendingEffect ==
  ASSUME NEW w \in Worlds, Owned(w), NEW c \in Clients, NEW v, v = ClearPending(w, c)
  PROVE  /\ v \in Worlds /\ Owned(v) /\ Elsewhere(v, w, c)
         /\ \A r \in Roles : Source(v, c, r) = Source(w, c, r)
         /\ On(v, c) = On(w, c) /\ Waits(v, c) = FALSE /\ Reason(v, c) = Reason(w, c)
         /\ Calm(v, w) /\ Steady(v, w, c)
<1> DEFINE pl == [w.players[c] EXCEPT !.start_pending = FALSE]
<1>1. w.players[c] \in PlayerFields
  BY DEF Worlds
<1>2. /\ pl \in PlayerFields /\ pl.src = w.players[c].src /\ pl.reason = w.players[c].reason
      /\ pl.started = w.players[c].started /\ pl.start_pending = FALSE
      /\ pl.seek_pending = w.players[c].seek_pending /\ pl.prepared = w.players[c].prepared
      /\ pl.stop_cause = w.players[c].stop_cause
  BY <1>1 DEF PlayerFields
<1>3. v = Put(w, c, pl)
  BY DEF ClearPending, Put
<1> HIDE DEF pl
<1> QED
  BY <1>2, <1>3, NeutralFields DEF On, Reason, Steady, Seeks, Prepared, Cause

\* a player whose flags and sources are as they were
LEMMA FlaggedAlike ==
  ASSUME NEW v, NEW w, NEW c, Alike(v, w, c), Flagged(w, c)
  PROVE  Flagged(v, c)
  BY DEF Alike, Kept, Flagged, Has, Roles

\* a step of one player leaves the others sound
LEMMA SoundElsewhere ==
  ASSUME NEW w, Sound(w), NEW c \in Clients, NEW v \in Worlds, Owned(v), Elsewhere(v, w, c), Flagged(v, c)
  PROVE  Sound(v)
<1>1. ASSUME NEW d \in Clients \ {c} PROVE Flagged(v, d)
  <2>1. Alike(v, w, d)
    BY <1>1 DEF Elsewhere, Alike, Kept, Source, On, Waits, Reason
  <2> QED
    BY <2>1, FlaggedAlike DEF Sound
<1> QED
  BY <1>1 DEF Sound

-----------------------------------------------------------------------------
(* The source set, the decoders and the assertions.                        *)

LEMMA PutSetEffect ==
  ASSUME NEW w \in Worlds, Owned(w), NEW set \in SourceSets, NEW v, v = [w EXCEPT !.set = set]
  PROVE  v \in Worlds /\ Owned(v) /\ v.players = w.players /\ v.decoder = w.decoder /\ v.sources = w.sources /\ Calm(v, w)
<1>1. /\ v \in Worlds /\ v.players = w.players /\ v.decoder = w.decoder /\ v.sources = w.sources
      /\ v.asserts = w.asserts /\ v.looping = w.looping /\ v.data_end = w.data_end
  BY DEF Worlds
<1> QED
  BY <1>1, OwnedKept DEF Owned, Source, Works, Calm

LEMMA FadeInTyped ==
  ASSUME NEW w \in Worlds, NEW c \in Clients, NEW operation \in {"none", "start"}
  PROVE  /\ FadeIn(w, c, operation) \in Slots /\ NextFadeIn(w, c) \in Slots
         /\ OldFadeOut(w, c) \in Slots /\ Args!ActiveFadeOutParams(c) \in Slots
<1> DEFINE n == w.players[c].next_player
<1>1. n \in Clients \cup {None}
  BY DEF Worlds, PlayerFields
<1>2. Args!LoopTarget(c) \in Targets /\ Args!NoLoopTarget(n) \in Targets /\ None \in Targets
  BY <1>1 DEF Args!LoopTarget, Args!NoLoopTarget, Targets, SourceNos
<1> HIDE DEF n
<1>3. FadeIn(w, c, operation) = Args!ActiveFadeInParams(c, n, operation) /\ NextFadeIn(w, c) = Args!NextFadeInParams(c, n)
      /\ OldFadeOut(w, c) = Args!OldFadeOutParams(c, n)
  BY DEF FadeIn, NextFadeIn, OldFadeOut, n
<1>4. Args!ActiveFadeInParams(c, n, operation) \in Slots
  BY <1>2 DEF Args!ActiveFadeInParams, Slots, SourceNos
<1>5. Args!NextFadeInParams(c, n) \in Slots
  BY <1>2 DEF Args!NextFadeInParams, Slots, SourceNos
<1>6. Args!OldFadeOutParams(c, n) \in Slots
  BY <1>2 DEF Args!OldFadeOutParams, Slots, SourceNos
<1>7. Args!ActiveFadeOutParams(c) \in Slots
  BY <1>2 DEF Args!ActiveFadeOutParams, Slots, SourceNos
<1> QED
  BY <1>3, <1>4, <1>5, <1>6, <1>7

\* a request to the mixer
LEMMA UpdateEffect ==
  ASSUME NEW w \in Worlds, Owned(w), NEW p \in Pipes, NEW args \in Slots, NEW v, v = Update(w, p, args)
  PROVE  v \in Worlds /\ Owned(v) /\ v.players = w.players /\ v.decoder = w.decoder /\ v.sources = w.sources /\ Calm(v, w)
<1>1. w.set \in SourceSets
  BY DEF Worlds
<1> DEFINE set == AttachOrUpdate(w.set, p, args)
<1>2. set \in SourceSets
  BY <1>1 DEF AttachOrUpdate, SourceSets
<1>3. v = [w EXCEPT !.set = set]
  BY DEF Update
<1> HIDE DEF set
<1> QED
  BY <1>2, <1>3, PutSetEffect

\* an assertion that fails, or a source there is no pipe for
LEMMA ExpectEffect ==
  ASSUME NEW w \in Worlds, Owned(w), NEW name \in {"null active_source_", "no pipe"},
         NEW v, v = Expect(w, FALSE, name)
  PROVE  /\ v \in Worlds /\ Owned(v) /\ v.players = w.players /\ v.decoder = w.decoder /\ v.sources = w.sources
         /\ v.asserts = w.asserts \cup {name} /\ v.looping = w.looping /\ v.data_end = w.data_end
<1> DEFINE all == w.asserts \cup {name}
<1>1. all \in SUBSET {"move", "null active_source_", "no pipe"} /\ "move" \notin all
  BY DEF Worlds, Owned
<1>2. v = [w EXCEPT !.asserts = all]
  BY DEF Expect
<1> HIDE DEF all
<1>3. /\ v \in Worlds /\ v.players = w.players /\ v.decoder = w.decoder /\ v.sources = w.sources
      /\ v.asserts = all /\ v.looping = w.looping /\ v.data_end = w.data_end
  BY <1>1, <1>2 DEF Worlds
<1>4. Owned(v)
  BY <1>1, <1>3, OwnedKept DEF Owned, Source, Works
<1> QED
  BY <1>3, <1>4 DEF all

LEMMA ExpectHolds ==
  ASSUME NEW w, NEW name
  PROVE  Expect(w, TRUE, name) = w
  BY DEF Expect

\* a decoder that is at work still is, or no more
LEMMA DecoderEffect ==
  ASSUME NEW w \in Worlds, Owned(w), NEW f \in [Pipes -> DecoderStates],
         \A p \in Pipes : f[p] \in Live => Works(w, p), NEW v, v = [w EXCEPT !.decoder = f]
  PROVE  v \in Worlds /\ Owned(v) /\ v.players = w.players /\ v.decoder = f /\ v.sources = w.sources /\ v.set = w.set
         /\ v.asserts = w.asserts /\ v.looping = w.looping /\ v.data_end = w.data_end
<1>1. /\ v \in Worlds /\ v.players = w.players /\ v.decoder = f /\ v.sources = w.sources
      /\ v.asserts = w.asserts /\ v.set = w.set /\ v.looping = w.looping /\ v.data_end = w.data_end
  BY DEF Worlds
<1> QED
  BY <1>1, OwnedKept DEF Owned, Source, Works

\* a step that changes no player
LEMMA SamePlayers ==
  ASSUME NEW w, NEW v, v.players = w.players, NEW c
  PROVE  Elsewhere(v, w, c) /\ Alike(v, w, c) /\ Steady(v, w, c)
  BY DEF Elsewhere, Alike, Kept, Source, On, Waits, Reason, Steady, Seeks, Prepared, Cause

LEMMA ElsewhereTrans ==
  ASSUME NEW u, NEW v, NEW w, NEW c, Elsewhere(v, w, c), Elsewhere(u, v, c)
  PROVE  Elsewhere(u, w, c)
  BY DEF Elsewhere

-----------------------------------------------------------------------------
(* Releasing, moving and creating sources.                                 *)

LEMMA ClearReasonEffect ==
  ASSUME NEW w \in Worlds, Owned(w), NEW c \in Clients, NEW v, v = [w EXCEPT !.players[c].reason = "none"]
  PROVE  /\ v \in Worlds /\ Owned(v) /\ Elsewhere(v, w, c) /\ v.decoder = w.decoder
         /\ v.set = w.set /\ v.sources = w.sources
         /\ \A r \in Roles : Source(v, c, r) = Source(w, c, r)
         /\ On(v, c) = On(w, c) /\ Waits(v, c) = Waits(w, c) /\ Reason(v, c) = "none"
         /\ v.asserts = w.asserts /\ v.looping = w.looping /\ v.data_end = w.data_end /\ Calm(v, w) /\ Steady(v, w, c)
<1> DEFINE pl == [w.players[c] EXCEPT !.reason = "none"]
<1>1. w.players[c] \in PlayerFields
  BY DEF Worlds
<1>2. /\ pl \in PlayerFields /\ pl.src = w.players[c].src
      /\ pl.started = w.players[c].started /\ pl.start_pending = w.players[c].start_pending
      /\ pl.reason = "none" /\ pl.seek_pending = w.players[c].seek_pending /\ pl.prepared = w.players[c].prepared
      /\ pl.stop_cause = w.players[c].stop_cause
  BY <1>1 DEF PlayerFields, Reasons
<1>3. v = Put(w, c, pl)
  BY DEF Put
<1> HIDE DEF pl
<1>4. /\ v \in Worlds /\ Owned(v) /\ Elsewhere(v, w, c) /\ v.decoder = w.decoder /\ v.set = w.set
      /\ v.sources = w.sources
      /\ \A r \in Roles : Source(v, c, r) = Source(w, c, r)
      /\ On(v, c) = pl.started /\ Waits(v, c) = pl.start_pending /\ Reason(v, c) = pl.reason
      /\ v.asserts = w.asserts /\ v.looping = w.looping /\ v.data_end = w.data_end /\ Calm(v, w) /\ Seeks(v, c) = pl.seek_pending /\ Prepared(v, c) = pl.prepared /\ Cause(v, c) = pl.stop_cause
  BY <1>2, <1>3, NeutralFields
<1>5. On(v, c) = On(w, c) /\ Waits(v, c) = Waits(w, c) /\ Steady(v, w, c)
  BY <1>2, <1>4 DEF On, Waits, Steady, Seeks, Prepared, Cause
<1> QED
  BY <1>2, <1>4, <1>5

\* what Release leaves of a world: one role is empty, and the rest is as it was
Emptied(v, w, c, r) ==
  /\ \A s \in Roles : Source(v, c, s) = IF s = r THEN None ELSE Source(w, c, s)
  /\ On(v, c) = On(w, c) /\ Waits(v, c) = Waits(w, c) /\ Kept(v, w, c)

LEMMA DeletedFields ==
  ASSUME NEW w \in Worlds, NEW p \in Pipes
  PROVE  LET v == Deleted(w, p)
         IN /\ v \in Worlds /\ v.players = w.players /\ v.sources = w.sources \ {p} /\ v.asserts = w.asserts
            /\ v.decoder = [w.decoder EXCEPT ![p] = "none"] /\ Calm(v, w)
<1> DEFINE decoders == [w.decoder EXCEPT ![p] = "none"]
           completions == [w.completed EXCEPT ![p] = "no"]
           ends == [w.data_end EXCEPT ![p] = IF w.set.slots[p] = None THEN "none" ELSE w.data_end[p]]
           left == w.sources \ {p}
           set == Detach(w.set, p)
           v == Deleted(w, p)
<1>1. /\ decoders \in [Pipes -> DecoderStates] /\ completions \in [Pipes -> {"no", "end", "loop"}]
      /\ ends \in [Pipes -> {"none", "queued", "end", "loop"}] /\ left \in SUBSET Pipes
  BY DEF Worlds, DecoderStates
<1>2. set \in SourceSets
  BY DetachTyped DEF Worlds
<1>3. v = [w EXCEPT !.set = set, !.sources = left, !.decoder = decoders, !.completed = completions, !.data_end = ends]
  BY DEF Deleted, Worlds
<1>4. v.decoder = decoders /\ v.sources = left /\ v.data_end = ends /\ v.looping = w.looping
  BY <1>3 DEF Worlds
<1>4a. /\ left \subseteq w.sources
       /\ \A q \in left : decoders[q] = w.decoder[q] /\ ends[q] = w.data_end[q]
       /\ \A q \in Pipes : ends[q] \in {w.data_end[q], "none"}
  BY DEF Worlds
<1> HIDE DEF decoders, completions, ends, left, set, v
<1>5. v = [players |-> w.players, decoder |-> decoders, completed |-> completions, set |-> set, sources |-> left,
           data_end |-> ends, looping |-> w.looping, asserts |-> w.asserts]
  BY <1>3 DEF Worlds
<1>6. v \in Worlds /\ v.players = w.players /\ v.asserts = w.asserts
  BY <1>1, <1>2, <1>5 DEF Worlds
<1> QED
  BY <1>4, <1>4a, <1>6 DEF decoders, left, v, Calm

LEMMA DeletedEffect ==
  ASSUME NEW w \in Worlds, Owned(w), NEW c \in Clients, NEW r \in Roles, Has(w, c, r), NEW v,
         v = Deleted(SetSource(w, c, r, None), Source(w, c, r))
  PROVE  /\ v \in Worlds /\ Owned(v) /\ Elsewhere(v, w, c) /\ Emptied(v, w, c, r)
         /\ Reason(v, c) = Reason(w, c) /\ Calm(v, w) /\ Steady(v, w, c)
<1> DEFINE x == SetSource(w, c, r, None)
           p == Source(w, c, r)
<1>1. p \in Pipes
  BY SourceTyped DEF Has
<1>2. /\ x \in Worlds /\ Elsewhere(x, w, c) /\ Emptied(x, w, c, r) /\ Reason(x, c) = Reason(w, c)
      /\ x.decoder = w.decoder /\ x.sources = w.sources /\ x.asserts = w.asserts
      /\ Calm(x, w) /\ Steady(x, w, c)
  BY SetSourceEffect DEF Emptied, Kept
<1> HIDE DEF x
<1>4. /\ v \in Worlds /\ v.players = x.players /\ v.sources = w.sources \ {p} /\ v.asserts = w.asserts
      /\ v.decoder = [w.decoder EXCEPT ![p] = "none"] /\ Calm(v, x)
  <2>1. v = Deleted(x, p)
    BY DEF x
  <2> QED
    BY <1>1, <1>2, <2>1, DeletedFields
<1> HIDE DEF p
<1>5. Elsewhere(v, w, c) /\ Emptied(v, w, c, r) /\ Reason(v, c) = Reason(w, c)
  BY <1>2, <1>4 DEF Elsewhere, Emptied, Kept, Has, Source, On, Waits, Reason
<1>5a. Calm(v, w) /\ Steady(v, w, c)
  <2>1. Steady(v, x, c)
    BY <1>4 DEF Steady, Seeks, Prepared, Cause
  <2> QED
    BY <1>2, <1>4, <2>1, CalmTrans, SteadyTrans
<1>6. \A d \in Clients, s \in Roles : Source(v, d, s) = IF d = c /\ s = r THEN None ELSE Source(w, d, s)
  BY <1>5 DEF Elsewhere, Emptied, Source
<1>7. \A q \in Pipes : Works(v, q) => Works(w, q) /\ q # p
  <2>1. w.decoder \in [Pipes -> DecoderStates]
    BY DEF Worlds
  <2> QED
    BY <1>1, <1>4, <2>1 DEF Works, Live
<1>8. p = Source(w, c, r)
  BY DEF p
<1>9. \A q \in Pipes : q \in v.sources <=> \E d \in Clients, s \in Roles : Source(v, d, s) = q
  <2>1. ASSUME NEW q \in Pipes, q \in v.sources PROVE \E d \in Clients, s \in Roles : Source(v, d, s) = q
    <3>1. PICK d \in Clients, s \in Roles : Source(w, d, s) = q
      BY <1>4, <2>1 DEF Owned
    <3>2. Source(v, d, s) = q
      BY <1>4, <1>6, <1>8, <2>1, <3>1
    <3> QED
      BY <3>2
  <2>2. ASSUME NEW q \in Pipes, NEW d \in Clients, NEW s \in Roles, Source(v, d, s) = q PROVE q \in v.sources
    <3>1. Source(w, d, s) = q /\ ~(d = c /\ s = r) /\ q # None
      BY <1>6, <2>2
    <3>2. q # p
      BY <1>8, <3>1 DEF Owned
    <3> QED
      BY <1>4, <3>1, <3>2 DEF Owned
  <2> QED
    BY <2>1, <2>2
<1>10. \A d, e2 \in Clients, s, t \in Roles :
         Source(v, d, s) = Source(v, e2, t) /\ Source(v, d, s) # None => d = e2 /\ s = t
  BY <1>6 DEF Owned
<1>11. \A d \in Clients, s, t \in Roles :
         Has(v, d, s) /\ Has(v, d, t) /\ Works(v, Source(v, d, s)) /\ Works(v, Source(v, d, t)) => s = t
  <2>1. \A d \in Clients, s \in Roles : Has(v, d, s) => Has(w, d, s) /\ Source(v, d, s) = Source(w, d, s)
                                                      /\ Source(w, d, s) \in Pipes
    BY <1>6, SourceTyped DEF Has
  <2> QED
    BY <2>1, <1>7 DEF Owned
<1> QED
  BY <1>4, <1>5, <1>5a, <1>9, <1>10, <1>11 DEF Owned

LEMMA UnpreparedEffect ==
  ASSUME NEW w \in Worlds, Owned(w), NEW c \in Clients, NEW r \in Roles, NEW u, u = Unprepared(w, c, r)
  PROVE  /\ u \in Worlds /\ Owned(u) /\ Elsewhere(u, w, c)
         /\ \A s \in Roles : Source(u, c, s) = Source(w, c, s)
         /\ On(u, c) = On(w, c) /\ Waits(u, c) = Waits(w, c)
         /\ Reason(u, c) = IF r = "preparing" THEN "none" ELSE Reason(w, c)
         /\ Calm(u, w) /\ Steady(u, w, c)
<1>1. CASE r = "preparing"
  <2>1. u = [w EXCEPT !.players[c].reason = "none"]
    BY <1>1 DEF Unprepared
  <2> QED
    BY <1>1, <2>1, ClearReasonEffect
<1>2. CASE r # "preparing"
  BY <1>2 DEF Unprepared, Elsewhere, Calm, Steady
<1> QED
  BY <1>1, <1>2

LEMMA ReleaseEffect ==
  ASSUME NEW w \in Worlds, Owned(w), NEW c \in Clients, NEW r \in Roles, NEW v, v = Release(w, c, r)
  PROVE  /\ v \in Worlds /\ Owned(v) /\ Elsewhere(v, w, c) /\ Emptied(v, w, c, r)
         /\ Calm(v, w) /\ Steady(v, w, c)
         /\ r = "preparing" => Reason(v, c) = "none"
<1> DEFINE u == Unprepared(w, c, r)
           p == Source(w, c, r)
<1>1. /\ u \in Worlds /\ Owned(u) /\ Elsewhere(u, w, c)
      /\ \A s \in Roles : Source(u, c, s) = Source(w, c, s)
      /\ On(u, c) = On(w, c) /\ Waits(u, c) = Waits(w, c)
      /\ Reason(u, c) = IF r = "preparing" THEN "none" ELSE Reason(w, c)
      /\ Calm(u, w) /\ Steady(u, w, c)
  BY UnpreparedEffect
<1>2. v = IF Has(w, c, r) THEN Deleted(SetSource(u, c, r, None), p) ELSE u
  BY DEF Release
<1> HIDE DEF u
<1>3. Source(u, c, r) = p
  BY <1>1
<1>4. CASE ~Has(w, c, r)
  <2>1. Emptied(u, w, c, r)
    BY <1>1, <1>4 DEF Kept, Emptied, Has
  <2> QED
    BY <1>1, <1>2, <1>4, <2>1
<1>5. CASE Has(w, c, r)
  <2>1. Has(u, c, r)
    BY <1>3, <1>5 DEF Has
  <2>2. v = Deleted(SetSource(u, c, r, None), Source(u, c, r))
    BY <1>2, <1>3, <1>5
  <2> HIDE DEF p
  <2>3. v \in Worlds /\ Owned(v) /\ Elsewhere(v, u, c) /\ Emptied(v, u, c, r) /\ Reason(v, c) = Reason(u, c)
        /\ Calm(v, u) /\ Steady(v, u, c)
    BY <1>1, <2>1, <2>2, DeletedEffect
  <2>4. Elsewhere(v, w, c) /\ Emptied(v, w, c, r)
    BY <1>1, <2>3 DEF Elsewhere, Emptied, Has, Kept
  <2>4a. Calm(v, w) /\ Steady(v, w, c)
    BY <1>1, <2>3, CalmTrans, SteadyTrans
  <2>5. r = "preparing" => Reason(v, c) = "none"
    BY <1>1, <2>3
  <2> QED
    BY <2>3, <2>4, <2>4a, <2>5
<1> QED
  BY <1>4, <1>5

LEMMA ReleaseAllEffect ==
  ASSUME NEW w \in Worlds, Owned(w), NEW c \in Clients, NEW v, v = ReleaseAll(w, c)
  PROVE  /\ v \in Worlds /\ Owned(v) /\ Elsewhere(v, w, c)
         /\ \A r \in Roles : ~Has(v, c, r)
         /\ On(v, c) = On(w, c) /\ Waits(v, c) = Waits(w, c) /\ Reason(v, c) = "none"
         /\ Calm(v, w) /\ Steady(v, w, c)
<1> DEFINE v1 == Release(w, c, "preparing")
           v2 == Release(v1, c, "old")
           v3 == Release(v2, c, "next")
           v4 == Release(v3, c, "active")
<1>0. {"preparing", "old", "next", "active", "ready"} = Roles
  BY DEF Roles
<1>1. /\ v1 \in Worlds /\ Owned(v1) /\ Elsewhere(v1, w, c) /\ Emptied(v1, w, c, "preparing")
      /\ Reason(v1, c) = "none" /\ Calm(v1, w) /\ Steady(v1, w, c)
  BY <1>0, ReleaseEffect
<1> HIDE DEF v1
<1>2. /\ v2 \in Worlds /\ Owned(v2) /\ Elsewhere(v2, v1, c) /\ Emptied(v2, v1, c, "old")
      /\ Calm(v2, v1) /\ Steady(v2, v1, c)
  BY <1>0, <1>1, ReleaseEffect
<1> HIDE DEF v2
<1>3. /\ v3 \in Worlds /\ Owned(v3) /\ Elsewhere(v3, v2, c) /\ Emptied(v3, v2, c, "next")
      /\ Calm(v3, v2) /\ Steady(v3, v2, c)
  BY <1>0, <1>2, ReleaseEffect
<1> HIDE DEF v3
<1>4. /\ v4 \in Worlds /\ Owned(v4) /\ Elsewhere(v4, v3, c) /\ Emptied(v4, v3, c, "active")
      /\ Calm(v4, v3) /\ Steady(v4, v3, c)
  BY <1>0, <1>3, ReleaseEffect
<1> HIDE DEF v4
<1>5. v = Release(v4, c, "ready")
  BY DEF ReleaseAll, v1, v2, v3, v4
<1>6. /\ v \in Worlds /\ Owned(v) /\ Elsewhere(v, v4, c) /\ Emptied(v, v4, c, "ready")
      /\ Calm(v, v4) /\ Steady(v, v4, c)
  BY <1>0, <1>4, <1>5, ReleaseEffect
<1>7. Elsewhere(v, w, c)
  BY <1>1, <1>2, <1>3, <1>4, <1>6 DEF Elsewhere
<1>8. \A r \in Roles : ~Has(v, c, r)
  BY <1>0, <1>1, <1>2, <1>3, <1>4, <1>6 DEF Emptied, Has
<1>9. On(v, c) = On(w, c) /\ Waits(v, c) = Waits(w, c) /\ Reason(v, c) = "none"
  BY <1>1, <1>2, <1>3, <1>4, <1>6 DEF Emptied, Kept
<1>10. Calm(v, w) /\ Steady(v, w, c)
  BY <1>1, <1>2, <1>3, <1>4, <1>6, CalmTrans, SteadyTrans
<1> QED
  BY <1>6, <1>7, <1>8, <1>9, <1>10

\* what Move leaves of a world: a source changes its role
Shifted(v, w, c, from, to) ==
  /\ \A s \in Roles : Source(v, c, s) = IF s = from THEN None
                                        ELSE IF s = to THEN Source(w, c, from) ELSE Source(w, c, s)
  /\ On(v, c) = On(w, c) /\ Waits(v, c) = Waits(w, c) /\ Kept(v, w, c)

LEMMA MoveEffect ==
  ASSUME NEW w \in Worlds, Owned(w), NEW c \in Clients, NEW from \in Roles, NEW to \in Roles, from # to,
         ~Has(w, c, to), NEW v, v = Move(w, c, from, to)
  PROVE  /\ v \in Worlds /\ Owned(v) /\ Elsewhere(v, w, c) /\ Shifted(v, w, c, from, to) /\ v.decoder = w.decoder
         /\ Calm(v, w) /\ Steady(v, w, c)
<1> DEFINE p == Source(w, c, from)
           u == SetSource(w, c, to, p)
<1>1. p \in Pipes \cup {None}
  BY SourceTyped
<1>2. v = SetSource(u, c, from, None)
  <2>1. Expect(w, ~Has(w, c, to), "move") = w
    BY DEF Expect
  <2> QED
    BY <2>1 DEF Move
<1> HIDE DEF p
<1>3. /\ u \in Worlds /\ Elsewhere(u, w, c)
      /\ \A s \in Roles : Source(u, c, s) = IF s = to THEN p ELSE Source(w, c, s)
      /\ On(u, c) = On(w, c) /\ Waits(u, c) = Waits(w, c) /\ Reason(u, c) = Reason(w, c)
      /\ u.decoder = w.decoder /\ u.sources = w.sources /\ u.asserts = w.asserts
      /\ Calm(u, w) /\ Steady(u, w, c)
  BY <1>1, SetSourceEffect
<1> HIDE DEF u
<1>4. /\ v \in Worlds /\ Elsewhere(v, u, c)
      /\ \A s \in Roles : Source(v, c, s) = IF s = from THEN None ELSE Source(u, c, s)
      /\ On(v, c) = On(u, c) /\ Waits(v, c) = Waits(u, c) /\ Reason(v, c) = Reason(u, c)
      /\ v.decoder = u.decoder /\ v.sources = u.sources /\ v.asserts = u.asserts
      /\ Calm(v, u) /\ Steady(v, u, c)
  BY <1>2, <1>3, SetSourceEffect
<1>5. Elsewhere(v, w, c) /\ Shifted(v, w, c, from, to) /\ v.decoder = w.decoder
  BY <1>3, <1>4 DEF Elsewhere, Shifted, Kept, Has, p
<1>5a. Calm(v, w) /\ Steady(v, w, c)
  BY <1>3, <1>4, CalmTrans, SteadyTrans
<1> DEFINE was(d, s) == IF d = c /\ s = to THEN from ELSE s
<1>6. \A d \in Clients, s \in Roles :
        Has(v, d, s) => was(d, s) \in Roles /\ Source(v, d, s) = Source(w, d, was(d, s)) /\ Has(w, d, was(d, s))
  BY <1>5 DEF Elsewhere, Shifted, Source, Has
<1>7. \A d \in Clients, s, t \in Roles : was(d, s) = was(d, t) /\ Has(v, d, s) /\ Has(v, d, t) => s = t
  BY <1>5 DEF Shifted, Has
<1>8. \A q \in Pipes : q \in v.sources <=> \E d \in Clients, s \in Roles : Source(v, d, s) = q
  <2>1. v.sources = w.sources
    BY <1>3, <1>4
  <2>2. ASSUME NEW q \in Pipes, q \in v.sources PROVE \E d \in Clients, s \in Roles : Source(v, d, s) = q
    <3>1. PICK d \in Clients, s \in Roles : Source(w, d, s) = q
      BY <2>1, <2>2 DEF Owned
    <3>2. CASE d = c /\ s = from
      <4>1. Source(v, c, to) = q
        BY <1>5, <3>1, <3>2 DEF Shifted
      <4> QED
        BY <4>1
    <3>3. CASE d = c /\ s # from
      <4>1. s # to
        BY <3>1, <3>3 DEF Has
      <4>2. Source(v, c, s) = q
        BY <1>5, <3>1, <3>3, <4>1 DEF Shifted
      <4> QED
        BY <4>2
    <3>4. CASE d # c
      <4>1. Source(v, d, s) = q
        BY <1>5, <3>1, <3>4 DEF Elsewhere, Source
      <4> QED
        BY <4>1
    <3> QED
      BY <3>2, <3>3, <3>4
  <2>3. ASSUME NEW q \in Pipes, NEW d \in Clients, NEW s \in Roles, Source(v, d, s) = q PROVE q \in v.sources
    <3>1. Has(v, d, s)
      BY <2>3 DEF Has
    <3> QED
      BY <1>6, <2>1, <2>3, <3>1 DEF Owned
  <2> QED
    BY <2>2, <2>3
<1>9. \A d, e \in Clients, s, t \in Roles :
        Source(v, d, s) = Source(v, e, t) /\ Source(v, d, s) # None => d = e /\ s = t
  <2>1. ASSUME NEW d \in Clients, NEW e \in Clients, NEW s \in Roles, NEW t \in Roles,
               Source(v, d, s) = Source(v, e, t), Source(v, d, s) # None
        PROVE  d = e /\ s = t
    <3>1. Has(v, d, s) /\ Has(v, e, t)
      BY <2>1 DEF Has
    <3> DEFINE s1 == was(d, s)
               t1 == was(e, t)
    <3>2. s1 \in Roles /\ t1 \in Roles /\ Source(w, d, s1) = Source(w, e, t1) /\ Source(w, d, s1) # None
      BY <1>6, <2>1, <3>1
    <3>3. d = e /\ s1 = t1
      BY <3>2 DEF Owned
    <3> QED
      BY <1>7, <3>1, <3>3
  <2> QED
    BY <2>1
<1>10. \A d \in Clients, s, t \in Roles :
         Has(v, d, s) /\ Has(v, d, t) /\ Works(v, Source(v, d, s)) /\ Works(v, Source(v, d, t)) => s = t
  <2>1. ASSUME NEW d \in Clients, NEW s \in Roles, NEW t \in Roles, Has(v, d, s), Has(v, d, t),
               Works(v, Source(v, d, s)), Works(v, Source(v, d, t))
        PROVE  s = t
    <3> DEFINE s1 == was(d, s)
               t1 == was(d, t)
    <3>1. /\ s1 \in Roles /\ t1 \in Roles /\ Has(w, d, s1) /\ Has(w, d, t1)
          /\ Works(w, Source(w, d, s1)) /\ Works(w, Source(w, d, t1))
      BY <1>5, <1>6, <2>1 DEF Works
    <3>2. s1 = t1
      BY <3>1 DEF Owned
    <3> QED
      BY <1>7, <2>1, <3>2
  <2> QED
    BY <2>1
<1> HIDE DEF was
<1> QED
  BY <1>3, <1>4, <1>5, <1>5a, <1>8, <1>9, <1>10 DEF Owned

\* into an empty role, whatever was there having been released
LEMMA PreparingToEffect ==
  ASSUME NEW w \in Worlds, Owned(w), NEW c \in Clients, NEW r \in {"ready", "next"},
         NEW v, v = PreparingTo(w, c, r)
  PROVE  /\ v \in Worlds /\ Owned(v) /\ Elsewhere(v, w, c) /\ Shifted(v, w, c, "preparing", r)
         /\ Reason(v, c) = "none" /\ Calm(v, w) /\ Steady(v, w, c)
<1> DEFINE u == Release(w, c, r)
           m == Move(u, c, "preparing", r)
<1>1. r \in Roles /\ "preparing" \in Roles /\ r # "preparing"
  BY DEF Roles
<1>2. /\ u \in Worlds /\ Owned(u) /\ Elsewhere(u, w, c) /\ Emptied(u, w, c, r)
      /\ Calm(u, w) /\ Steady(u, w, c)
  BY <1>1, ReleaseEffect
<1> HIDE DEF u
<1>3. /\ m \in Worlds /\ Owned(m) /\ Elsewhere(m, u, c) /\ Shifted(m, u, c, "preparing", r)
      /\ Calm(m, u) /\ Steady(m, u, c)
  BY <1>1, <1>2, MoveEffect DEF Emptied, Has
<1>4. v = [m EXCEPT !.players[c].reason = "none"]
  BY DEF PreparingTo, u
<1> HIDE DEF m
<1>6. /\ v \in Worlds /\ Owned(v) /\ Elsewhere(v, m, c)
      /\ \A s \in Roles : Source(v, c, s) = Source(m, c, s)
      /\ On(v, c) = On(m, c) /\ Waits(v, c) = Waits(m, c) /\ Reason(v, c) = "none"
      /\ Calm(v, m) /\ Steady(v, m, c)
  BY <1>3, <1>4, ClearReasonEffect
<1>7. Elsewhere(v, w, c)
  BY <1>2, <1>3, <1>6 DEF Elsewhere
<1>8. Shifted(v, w, c, "preparing", r)
  BY <1>1, <1>2, <1>3, <1>6 DEF Emptied, Shifted, Has, Kept
<1>9. Calm(v, w) /\ Steady(v, w, c)
  BY <1>2, <1>3, <1>6, CalmTrans, SteadyTrans
<1> QED
  BY <1>6, <1>7, <1>8, <1>9

LEMMA MovedOnEffect ==
  ASSUME NEW w \in Worlds, Owned(w), NEW c \in Clients, NEW from \in Roles, NEW to \in Roles, from # to,
         to # "preparing",
         NEW v, v = Move(Release(w, c, to), c, from, to)
  PROVE  /\ v \in Worlds /\ Owned(v) /\ Elsewhere(v, w, c) /\ Shifted(v, w, c, from, to)
         /\ Calm(v, w) /\ Steady(v, w, c)
<1> DEFINE u == Release(w, c, to)
<1>1. /\ u \in Worlds /\ Owned(u) /\ Elsewhere(u, w, c) /\ Emptied(u, w, c, to)
      /\ Calm(u, w) /\ Steady(u, w, c)
  BY ReleaseEffect
<1> HIDE DEF u
<1>2. v = Move(u, c, from, to)
  BY DEF u
<1>3. /\ v \in Worlds /\ Owned(v) /\ Elsewhere(v, u, c) /\ Shifted(v, u, c, from, to)
      /\ Calm(v, u) /\ Steady(v, u, c)
  BY <1>1, <1>2, MoveEffect DEF Emptied, Has
<1>4. Elsewhere(v, w, c)
  BY <1>1, <1>3 DEF Elsewhere
<1>5. Shifted(v, w, c, from, to)
  <2>1. "preparing" \in Roles /\ to # "preparing"
    BY DEF Roles
  <2> QED
    BY <1>1, <1>3, <2>1 DEF Emptied, Shifted, Kept, Has
<1>6. Calm(v, w) /\ Steady(v, w, c)
  BY <1>1, <1>3, CalmTrans, SteadyTrans
<1> QED
  BY <1>3, <1>4, <1>5, <1>6

LEMMA NextToReadyEffect ==
  ASSUME NEW w \in Worlds, Owned(w), NEW c \in Clients, NEW v, v = NextToReady(w, c)
  PROVE  /\ v \in Worlds /\ Owned(v) /\ Elsewhere(v, w, c) /\ Shifted(v, w, c, "next", "ready")
         /\ Calm(v, w) /\ Steady(v, w, c)
<1>1. "next" \in Roles /\ "ready" \in Roles /\ "next" # "ready"
  BY DEF Roles
<1> QED
  BY <1>1, MovedOnEffect DEF NextToReady

LEMMA ActiveToOldEffect ==
  ASSUME NEW w \in Worlds, Owned(w), NEW c \in Clients, NEW v, v = ActiveToOld(w, c)
  PROVE  /\ v \in Worlds /\ Owned(v) /\ Elsewhere(v, w, c) /\ Shifted(v, w, c, "active", "old")
         /\ Calm(v, w) /\ Steady(v, w, c)
<1>1. "active" \in Roles /\ "old" \in Roles /\ "active" # "old"
  BY DEF Roles
<1> QED
  BY <1>1, MovedOnEffect DEF ActiveToOld

\* the decoders of all sources of a player
LEMMA StopDecodersEffect ==
  ASSUME NEW w \in Worlds, Owned(w), NEW c \in Clients, NEW v, v = StopDecoders(w, c, Roles)
  PROVE  /\ v \in Worlds /\ Owned(v) /\ Elsewhere(v, w, c) /\ Alike(v, w, c)
         /\ v.sources = w.sources /\ v.set = w.set /\ Steady(v, w, c)
         /\ v.asserts = w.asserts /\ v.looping = w.looping /\ v.data_end = w.data_end
         /\ \A d \in Clients \ {c}, r \in Roles : Has(w, d, r) => v.decoder[Source(w, d, r)] = w.decoder[Source(w, d, r)]
         /\ \A r \in Roles : Has(v, c, r) => ~Works(v, Source(v, c, r))
<1> DEFINE stops == {Source(w, c, r) : r \in Roles} \ {None}
           f == [p \in Pipes |-> IF p \in stops THEN "stopped" ELSE w.decoder[p]]
<1>1. f \in [Pipes -> DecoderStates]
  BY DEF Worlds, DecoderStates
<1>2. \A p \in Pipes : f[p] \in Live => Works(w, p)
  BY DEF Live, Works
<1>3. v = [w EXCEPT !.decoder = f]
  BY DEF StopDecoders
<1>4. \A r \in Roles : Has(w, c, r) => f[Source(w, c, r)] = "stopped"
  BY SourceTyped DEF Has
<1>4a. ASSUME NEW d \in Clients \ {c}, NEW r \in Roles, Has(w, d, r)
       PROVE  f[Source(w, d, r)] = w.decoder[Source(w, d, r)]
  <2>1. Source(w, d, r) \in Pipes
    BY <1>4a, SourceTyped DEF Has
  <2>2. Source(w, d, r) \notin stops
    BY <1>4a DEF Owned, Has
  <2> QED
    BY <2>1, <2>2
<1> HIDE DEF f
<1>5. /\ v \in Worlds /\ Owned(v) /\ v.players = w.players /\ v.decoder = f /\ v.sources = w.sources /\ v.set = w.set
      /\ v.asserts = w.asserts /\ v.looping = w.looping /\ v.data_end = w.data_end
  BY <1>1, <1>2, <1>3, DecoderEffect
<1>6. Elsewhere(v, w, c) /\ Alike(v, w, c) /\ Steady(v, w, c)
  BY <1>5, SamePlayers
<1>7. \A r \in Roles : Has(v, c, r) => ~Works(v, Source(v, c, r))
  BY <1>4, <1>5, <1>6 DEF Alike, Has, Works, Live
<1> QED
  BY <1>4a, <1>5, <1>6, <1>7

\* a source is created for a player whose decoders have stopped
Created(w, c, p, reason) ==
  [w EXCEPT !.sources = @ \cup {p}, !.decoder[p] = "preparing", !.players[c].reason = reason]

LEMMA CreatedFields ==
  ASSUME NEW w \in Worlds, NEW c \in Clients, NEW p \in Pipes, NEW reason \in Reasons
  PROVE  LET v == Created(w, c, p, reason)
         IN /\ v \in Worlds /\ v.sources = w.sources \cup {p} /\ v.asserts = w.asserts
            /\ v.decoder = [w.decoder EXCEPT ![p] = "preparing"]
            /\ Elsewhere(v, w, c) /\ \A r \in Roles : Source(v, c, r) = Source(w, c, r)
            /\ On(v, c) = On(w, c) /\ Waits(v, c) = Waits(w, c) /\ Reason(v, c) = reason
            /\ Steady(v, w, c) /\ v.looping = w.looping /\ v.data_end = w.data_end
<1> DEFINE decoders == [w.decoder EXCEPT ![p] = "preparing"]
           pl == [w.players[c] EXCEPT !.reason = reason]
           all == [w.players EXCEPT ![c] = pl]
           more == w.sources \cup {p}
           v == Created(w, c, p, reason)
<1>1. w.players[c] \in PlayerFields
  BY DEF Worlds
<1>2. /\ pl \in PlayerFields /\ pl.src = w.players[c].src
      /\ pl.started = w.players[c].started /\ pl.start_pending = w.players[c].start_pending
      /\ pl.reason = reason /\ pl.seek_pending = w.players[c].seek_pending
      /\ pl.prepared = w.players[c].prepared /\ pl.stop_cause = w.players[c].stop_cause
  BY <1>1 DEF PlayerFields
<1>3. v = [w EXCEPT !.sources = more, !.decoder = decoders, !.players = all]
  BY DEF Created, Worlds
<1> HIDE DEF pl
<1>4. /\ decoders \in [Pipes -> DecoderStates] /\ all \in [Clients -> PlayerFields] /\ more \in SUBSET Pipes
      /\ all[c] = pl /\ \A d \in Clients \ {c} : all[d] = w.players[d]
  BY <1>2 DEF Worlds, DecoderStates
<1>5. v.decoder = decoders /\ v.sources = more /\ v.players = all
  BY <1>3 DEF Worlds
<1> HIDE DEF decoders, all, more, v
<1>6. v = [players |-> all, decoder |-> decoders, completed |-> w.completed, set |-> w.set, sources |-> more,
           data_end |-> w.data_end, looping |-> w.looping, asserts |-> w.asserts]
  BY <1>3 DEF Worlds
<1>7. v \in Worlds /\ v.asserts = w.asserts /\ v.looping = w.looping /\ v.data_end = w.data_end
  BY <1>4, <1>6 DEF Worlds
<1>8. Elsewhere(v, w, c)
  BY <1>4, <1>5 DEF Elsewhere
<1>9. /\ \A r \in Roles : Source(v, c, r) = Source(w, c, r)
      /\ On(v, c) = On(w, c) /\ Waits(v, c) = Waits(w, c) /\ Reason(v, c) = reason
      /\ Steady(v, w, c)
  BY <1>2, <1>4, <1>5 DEF Source, On, Waits, Reason, Steady, Seeks, Prepared, Cause
<1> QED
  BY <1>5, <1>7, <1>8, <1>9 DEF decoders, more, v

LEMMA CreatedEffect ==
  ASSUME NEW w \in Worlds, Owned(w), NEW c \in Clients, ~Has(w, c, "preparing"),
         \A r \in Roles : Has(w, c, r) => ~Works(w, Source(w, c, r)),
         NEW p \in Pipes, p \notin w.sources, NEW reason \in Reasons,
         NEW v, v = Created(SetSource(w, c, "preparing", p), c, p, reason)
  PROVE  /\ v \in Worlds /\ Owned(v) /\ Elsewhere(v, w, c)
         /\ \A r \in Roles \ {"preparing"} : Source(v, c, r) = Source(w, c, r)
         /\ On(v, c) = On(w, c) /\ Waits(v, c) = Waits(w, c) /\ Reason(v, c) = reason
         /\ Steady(v, w, c) /\ v.looping = w.looping /\ v.data_end = w.data_end /\ v.asserts = w.asserts
         /\ Source(v, c, "preparing") = p /\ v.decoder = [w.decoder EXCEPT ![p] = "preparing"]
<1> DEFINE u == SetSource(w, c, "preparing", p)
<1>0. "preparing" \in Roles /\ p # None
  BY DEF Roles
<1>1. /\ u \in Worlds /\ Elsewhere(u, w, c)
      /\ \A s \in Roles : Source(u, c, s) = IF s = "preparing" THEN p ELSE Source(w, c, s)
      /\ On(u, c) = On(w, c) /\ Waits(u, c) = Waits(w, c)
      /\ u.decoder = w.decoder /\ u.sources = w.sources /\ u.asserts = w.asserts
      /\ Calm(u, w) /\ Steady(u, w, c) /\ u.data_end = w.data_end
  BY <1>0, SetSourceEffect
<1> HIDE DEF u
<1>2. v = Created(u, c, p, reason)
  BY DEF u
<1>3. /\ v \in Worlds /\ v.sources = w.sources \cup {p} /\ v.asserts = w.asserts
      /\ v.decoder = [w.decoder EXCEPT ![p] = "preparing"]
      /\ Elsewhere(v, u, c) /\ \A r \in Roles : Source(v, c, r) = Source(u, c, r)
      /\ On(v, c) = On(u, c) /\ Waits(v, c) = Waits(u, c) /\ Reason(v, c) = reason
      /\ Steady(v, u, c) /\ v.looping = u.looping /\ v.data_end = u.data_end
  BY <1>1, <1>2, CreatedFields
<1>4. /\ Elsewhere(v, w, c)
      /\ \A r \in Roles : Source(v, c, r) = IF r = "preparing" THEN p ELSE Source(w, c, r)
      /\ On(v, c) = On(w, c) /\ Waits(v, c) = Waits(w, c) /\ Reason(v, c) = reason
  BY <1>1, <1>3 DEF Elsewhere
<1>4a. /\ Steady(v, w, c) /\ v.looping = w.looping /\ v.data_end = w.data_end
       /\ Source(v, c, "preparing") = p
  BY <1>0, <1>1, <1>3, <1>4, SteadyTrans DEF Calm
<1>5. \A d \in Clients, r \in Roles : Source(v, d, r) = IF d = c /\ r = "preparing" THEN p ELSE Source(w, d, r)
  BY <1>4 DEF Elsewhere, Source
<1>6. \A d \in Clients, r \in Roles : Source(w, d, r) # p
  BY DEF Owned
<1>7. \A q \in Pipes : q \in v.sources <=> \E d \in Clients, s \in Roles : Source(v, d, s) = q
  <2>1. ASSUME NEW q \in Pipes, q \in v.sources PROVE \E d \in Clients, s \in Roles : Source(v, d, s) = q
    <3>1. CASE q = p
      BY <1>0, <1>5, <3>1
    <3>2. CASE q # p
      <4>1. PICK d \in Clients, s \in Roles : Source(w, d, s) = q
        BY <1>3, <2>1, <3>2 DEF Owned
      <4>2. Source(v, d, s) = q
        BY <1>5, <4>1 DEF Has
      <4> QED
        BY <4>2
    <3> QED
      BY <3>1, <3>2
  <2>2. ASSUME NEW q \in Pipes, NEW d \in Clients, NEW s \in Roles, Source(v, d, s) = q PROVE q \in v.sources
    <3>1. q = p \/ Source(w, d, s) = q
      BY <1>5, <2>2
    <3> QED
      BY <1>3, <3>1 DEF Owned
  <2> QED
    BY <2>1, <2>2
<1>8. \A d, e \in Clients, s, t \in Roles :
        Source(v, d, s) = Source(v, e, t) /\ Source(v, d, s) # None => d = e /\ s = t
  BY <1>5, <1>6 DEF Owned
<1>9. \A r \in Roles : Has(v, c, r) /\ Works(v, Source(v, c, r)) => r = "preparing"
  <2>1. ASSUME NEW r \in Roles, Has(v, c, r), Works(v, Source(v, c, r)), r # "preparing" PROVE FALSE
    <3>1. Source(v, c, r) = Source(w, c, r) /\ Source(w, c, r) # p /\ Has(w, c, r)
      BY <1>4, <1>6, <2>1 DEF Has
    <3>2. Source(w, c, r) \in Pipes /\ w.decoder \in [Pipes -> DecoderStates]
      BY <3>1, SourceTyped DEF Has, Worlds
    <3>3. v.decoder[Source(w, c, r)] = w.decoder[Source(w, c, r)]
      BY <1>3, <3>1, <3>2
    <3>4. Works(w, Source(w, c, r))
      BY <2>1, <3>1, <3>3 DEF Works
    <3> QED
      BY <3>1, <3>4
  <2> QED
    BY <2>1
<1>10. ASSUME NEW d \in Clients, NEW s \in Roles, NEW t \in Roles, Has(v, d, s), Has(v, d, t),
              Works(v, Source(v, d, s)), Works(v, Source(v, d, t))
       PROVE  s = t
  <2>1. CASE d = c
    BY <1>9, <1>10, <2>1
  <2>2. CASE d # c
    <3>1. /\ Has(w, d, s) /\ Has(w, d, t) /\ Source(v, d, s) = Source(w, d, s) /\ Source(v, d, t) = Source(w, d, t)
          /\ Source(w, d, s) # p /\ Source(w, d, t) # p
      BY <1>5, <1>6, <1>10, <2>2 DEF Has
    <3>2. Source(w, d, s) \in Pipes /\ Source(w, d, t) \in Pipes /\ w.decoder \in [Pipes -> DecoderStates]
      BY <3>1, SourceTyped DEF Has, Worlds
    <3>3. Works(w, Source(w, d, s)) /\ Works(w, Source(w, d, t))
      BY <1>3, <1>10, <3>1, <3>2 DEF Works
    <3> QED
      BY <3>1, <3>3 DEF Owned
  <2> QED
    BY <2>1, <2>2
<1>11. Owned(v)
  <2>1. "move" \notin v.asserts
    BY <1>3 DEF Owned
  <2> QED
    BY <1>7, <1>8, <1>10, <2>1 DEF Owned
<1> QED
  BY <1>1, <1>3, <1>4, <1>4a, <1>11

\* what a creation leaves of a world, whether it succeeds or not
Recreated(v, w, c, reason) ==
  /\ v \in Worlds /\ Owned(v) /\ Elsewhere(v, w, c)
  /\ \A r \in Roles \ {"preparing"} : Source(v, c, r) = Source(w, c, r)
  /\ On(v, c) = On(w, c) /\ Waits(v, c) = Waits(w, c) /\ Reason(v, c) \in {reason, "none"}
  /\ Has(v, c, "preparing") => Reason(v, c) = reason
  /\ Steady(v, w, c) /\ v.looping = w.looping /\ v.data_end = w.data_end
  /\ v.asserts = w.asserts \/ v.asserts = w.asserts \cup {"no pipe"}
  /\ \A d \in Clients \ {c}, r \in Roles : Has(w, d, r) => v.decoder[Source(w, d, r)] = w.decoder[Source(w, d, r)]
  /\ IF Has(v, c, "preparing") THEN v.decoder[Source(v, c, "preparing")] = "preparing"
                               ELSE scenario.creation_fails \/ "no pipe" \in v.asserts

LEMMA CreationsEffect ==
  ASSUME NEW w \in Worlds, Owned(w), NEW c \in Clients, ~Has(w, c, "preparing"), NEW reason \in Reasons,
         NEW v \in Creations(w, c, reason)
  PROVE  Recreated(v, w, c, reason)
<1>1. CASE v \in CreatedWith(w, c, reason, Roles)
  <2> DEFINE u == StopDecoders(w, c, Roles)
  <2>1. Expect(w, ~Has(w, c, "preparing"), "move") = w
    BY DEF Expect
  <2>2. PICK p \in FreePipes(w) : v = Created(SetSource(u, c, "preparing", p), c, p, reason)
    BY <1>1, <2>1 DEF CreatedWith, Created
  <2>3. p \in Pipes /\ p \notin w.sources /\ p # None
    BY DEF FreePipes
  <2>4. /\ u \in Worlds /\ Owned(u) /\ Elsewhere(u, w, c) /\ Alike(u, w, c)
        /\ u.sources = w.sources
        /\ \A r \in Roles : Has(u, c, r) => ~Works(u, Source(u, c, r))
    BY StopDecodersEffect
  <2>4a. /\ Steady(u, w, c) /\ u.asserts = w.asserts /\ u.looping = w.looping /\ u.data_end = w.data_end
         /\ \A d \in Clients \ {c}, r \in Roles : Has(w, d, r) => u.decoder[Source(w, d, r)] = w.decoder[Source(w, d, r)]
    BY StopDecodersEffect
  <2> HIDE DEF u
  <2>5. ~Has(u, c, "preparing")
    BY <2>4 DEF Alike, Has, Roles
  <2>6. /\ v \in Worlds /\ Owned(v) /\ Elsewhere(v, u, c)
        /\ \A r \in Roles \ {"preparing"} : Source(v, c, r) = Source(u, c, r)
        /\ On(v, c) = On(u, c) /\ Waits(v, c) = Waits(u, c) /\ Reason(v, c) = reason
        /\ Steady(v, u, c) /\ v.looping = u.looping /\ v.data_end = u.data_end /\ v.asserts = u.asserts
        /\ Source(v, c, "preparing") = p /\ v.decoder = [u.decoder EXCEPT ![p] = "preparing"]
    <3>1. p \in Pipes /\ p \notin u.sources
      BY <2>3, <2>4
    <3> QED
      BY <2>2, <2>4, <2>5, <3>1, CreatedEffect
  <2>8. Steady(v, w, c)
    BY <2>4a, <2>6, SteadyTrans
  <2>9. ASSUME NEW d \in Clients \ {c}, NEW r \in Roles, Has(w, d, r)
        PROVE  v.decoder[Source(w, d, r)] = w.decoder[Source(w, d, r)]
    <3>1. Source(w, d, r) \in Pipes /\ Source(w, d, r) \in w.sources
      BY <2>9, SourceTyped DEF Has, Owned
    <3>2. u.decoder \in [Pipes -> DecoderStates]
      BY <2>4 DEF Worlds
    <3> QED
      BY <2>3, <2>4a, <2>6, <2>9, <3>1, <3>2
  <2>10. Has(v, c, "preparing") /\ v.decoder[Source(v, c, "preparing")] = "preparing"
    BY <2>3, <2>4, <2>6 DEF Has, Worlds
  <2>11. /\ Elsewhere(v, w, c)
         /\ \A r \in Roles \ {"preparing"} : Source(v, c, r) = Source(w, c, r)
         /\ On(v, c) = On(w, c) /\ Waits(v, c) = Waits(w, c) /\ Reason(v, c) = reason
    BY <2>4, <2>6 DEF Elsewhere, Alike
  <2> QED
    BY <2>4a, <2>6, <2>8, <2>9, <2>10, <2>11 DEF Recreated
<1>2. CASE v \in NotCreated(w, c)
  <2>1. PICK u : /\ \/ u = w /\ scenario.creation_fails
                    \/ u = StopDecoders(w, c, Roles) /\ scenario.creation_fails
                    \/ u = Expect(w, FALSE, "no pipe")
                 /\ v = [u EXCEPT !.players[c].reason = "none"]
    BY <1>2 DEF NotCreated
  <2>1a. v = [u EXCEPT !.players[c].reason = "none"]
    BY <2>1
  <2>2. /\ u \in Worlds /\ Owned(u) /\ Elsewhere(u, w, c) /\ Alike(u, w, c) /\ Steady(u, w, c)
        /\ u.looping = w.looping /\ u.data_end = w.data_end
        /\ u.asserts = w.asserts \/ u.asserts = w.asserts \cup {"no pipe"}
        /\ \A d \in Clients \ {c}, r \in Roles : Has(w, d, r) => u.decoder[Source(w, d, r)] = w.decoder[Source(w, d, r)]
        /\ scenario.creation_fails \/ "no pipe" \in u.asserts
    <3>1. CASE u = w /\ scenario.creation_fails
      BY <3>1 DEF Elsewhere, Alike, Kept, Steady
    <3>2. CASE u = StopDecoders(w, c, Roles) /\ scenario.creation_fails
      <4>1. /\ u \in Worlds /\ Owned(u) /\ Elsewhere(u, w, c) /\ Alike(u, w, c) /\ Steady(u, w, c)
            /\ u.asserts = w.asserts /\ u.looping = w.looping /\ u.data_end = w.data_end
            /\ \A d \in Clients \ {c}, r \in Roles :
                 Has(w, d, r) => u.decoder[Source(w, d, r)] = w.decoder[Source(w, d, r)]
        BY <3>2, StopDecodersEffect
      <4> QED
        BY <3>2, <4>1
    <3>3. CASE u = Expect(w, FALSE, "no pipe")
      <4>1. /\ u \in Worlds /\ Owned(u) /\ u.players = w.players /\ u.decoder = w.decoder
            /\ u.asserts = w.asserts \cup {"no pipe"} /\ u.looping = w.looping /\ u.data_end = w.data_end
        BY <3>3, ExpectEffect
      <4>2. Elsewhere(u, w, c) /\ Alike(u, w, c) /\ Steady(u, w, c)
        BY <4>1, SamePlayers
      <4> QED
        BY <4>1, <4>2
    <3> QED
      BY <2>1, <3>1, <3>2, <3>3
  <2>3. u \in Worlds /\ Owned(u)
    BY <2>2
  <2>4. /\ v \in Worlds /\ Owned(v) /\ Elsewhere(v, u, c) /\ v.decoder = u.decoder
        /\ \A r \in Roles : Source(v, c, r) = Source(u, c, r)
        /\ On(v, c) = On(u, c) /\ Waits(v, c) = Waits(u, c) /\ Reason(v, c) = "none"
    BY <2>1a, <2>3, ClearReasonEffect
  <2>5. v.asserts = u.asserts /\ v.looping = u.looping /\ v.data_end = u.data_end /\ Steady(v, u, c)
    BY <2>1a, <2>3, ClearReasonEffect
  <2>6. ~Has(v, c, "preparing")
    BY <2>2, <2>4 DEF Alike, Has, Roles
  <2>7. Steady(v, w, c)
    BY <2>2, <2>5, SteadyTrans
  <2>8. /\ Elsewhere(v, w, c)
        /\ \A r \in Roles : Source(v, c, r) = Source(w, c, r)
        /\ On(v, c) = On(w, c) /\ Waits(v, c) = Waits(w, c)
    BY <2>2, <2>4 DEF Elsewhere, Alike
  <2> QED
    BY <2>2, <2>4, <2>5, <2>6, <2>7, <2>8 DEF Recreated
<1> QED
  BY <1>1, <1>2 DEF Creations

\* a sound player's creation is sound
LEMMA CreationsSound ==
  ASSUME NEW w, Sound(w), NEW c \in Clients, ~Has(w, c, "preparing"), NEW reason \in Reasons \ {"none"},
         reason = "preparing" => ~Has(w, c, "active") /\ ~Has(w, c, "ready") /\ ~Has(w, c, "next"),
         NEW v \in Creations(w, c, reason)
  PROVE  Sound(v) /\ Recreated(v, w, c, reason)
<1>1. Recreated(v, w, c, reason)
  BY CreationsEffect DEF Sound
<1>2. Flagged(v, c)
  BY <1>1 DEF Recreated, Flagged, Has, Sound, Roles
<1> QED
  BY <1>1, <1>2, SoundElsewhere DEF Recreated

-----------------------------------------------------------------------------
(* The calls.                                                              *)

\* the ready source is the active one of a player that is started
Begun(v, w, c) ==
  /\ \A s \in Roles : Source(v, c, s) = IF s = "ready" THEN None
                                        ELSE IF s = "active" THEN Source(w, c, "ready") ELSE Source(w, c, s)
  /\ On(v, c) /\ ~Waits(v, c) /\ Kept(v, w, c)

\* the ready source becomes the active one of a player that has no active one
LEMMA StartReadyEffect ==
  ASSUME NEW w \in Worlds, Owned(w), NEW c \in Clients, Has(w, c, "ready"), ~Has(w, c, "active"),
         Reason(w, c) # "preparing", Has(w, c, "preparing") => Reason(w, c) # "none",
         NEW v, v = StartReady(w, c)
  PROVE  /\ v \in Worlds /\ Owned(v) /\ Elsewhere(v, w, c) /\ Flagged(v, c)
         /\ Begun(v, w, c) /\ Calm(v, w) /\ Steady(v, w, c)
<1> DEFINE p == Source(w, c, "ready")
           args == FadeIn(w, c, "start")
           u == Update(w, p, args)
           m == Move(u, c, "ready", "active")
           s == SetStarted(m, c, TRUE)
<1>0. /\ "ready" \in Roles /\ "active" \in Roles /\ "preparing" \in Roles /\ "ready" # "active"
      /\ TRUE \in BOOLEAN
  BY DEF Roles
<1>1. p \in Pipes /\ args \in Slots
  BY <1>0, SourceTyped, FadeInTyped DEF Has
<1>2. v = ClearPending(s, c)
  BY DEF StartReady
<1> HIDE DEF p, args
<1>3. u \in Worlds /\ Owned(u) /\ u.players = w.players /\ Calm(u, w)
  BY <1>1, UpdateEffect
<1> HIDE DEF u
<1>4. Elsewhere(u, w, c) /\ Alike(u, w, c) /\ ~Has(u, c, "active") /\ Steady(u, w, c)
  BY <1>0, <1>3, SamePlayers DEF Alike, Has
<1>5. /\ m \in Worlds /\ Owned(m) /\ Elsewhere(m, u, c) /\ Shifted(m, u, c, "ready", "active")
      /\ Calm(m, u) /\ Steady(m, u, c)
  BY <1>0, <1>3, <1>4, MoveEffect
<1> HIDE DEF m
<1>5a. s = SetStarted(m, c, TRUE)
  OBVIOUS
<1> HIDE DEF s
<1>6. /\ s \in Worlds /\ Owned(s) /\ Elsewhere(s, m, c)
      /\ \A r \in Roles : Source(s, c, r) = Source(m, c, r)
      /\ On(s, c) = TRUE /\ Reason(s, c) = Reason(m, c)
      /\ Calm(s, m) /\ Steady(s, m, c)
  <2>1. /\ s \in Worlds /\ Owned(s) /\ Elsewhere(s, m, c) /\ On(s, c) = TRUE /\ Reason(s, c) = Reason(m, c)
        /\ Calm(s, m) /\ Steady(s, m, c)
    BY <1>0, <1>5, <1>5a, SetStartedEffect
  <2>2. ASSUME NEW r \in Roles PROVE Source(s, c, r) = Source(m, c, r)
    BY <1>0, <1>5, <1>5a, SetStartedSources
  <2> QED
    BY <2>1, <2>2
<1>7. /\ v \in Worlds /\ Owned(v) /\ Elsewhere(v, s, c)
      /\ \A r \in Roles : Source(v, c, r) = Source(s, c, r)
      /\ On(v, c) = On(s, c) /\ Waits(v, c) = FALSE /\ Reason(v, c) = Reason(s, c)
      /\ Calm(v, s) /\ Steady(v, s, c)
  BY <1>2, <1>6, ClearPendingEffect
<1>8. Elsewhere(v, w, c)
  BY <1>4, <1>5, <1>6, <1>7 DEF Elsewhere
<1>9. Flagged(v, c)
  <2>1. Reason(v, c) # "preparing"
    BY <1>4, <1>5, <1>6, <1>7 DEF Alike, Shifted, Kept
  <2>2. Has(v, c, "preparing") => Reason(v, c) # "none"
    BY <1>0, <1>4, <1>5, <1>6, <1>7 DEF Alike, Shifted, Kept, Has
  <2> QED
    BY <1>0, <1>5, <1>6, <1>7, <2>1, <2>2 DEF Flagged, Shifted, Has
<1>10. Begun(v, w, c)
  BY <1>0, <1>4, <1>5, <1>6, <1>7 DEF Begun, Shifted, Alike, Kept, Has
<1>11. Calm(v, w) /\ Steady(v, w, c)
  BY <1>3, <1>4, <1>5, <1>6, <1>7, CalmTrans, SteadyTrans
<1> QED
  BY <1>7, <1>8, <1>9, <1>10, <1>11

LEMMA StartReadySound ==
  ASSUME NEW w, Sound(w), NEW c \in Clients, Has(w, c, "ready"), NEW v, v = StartReady(w, c)
  PROVE  Sound(v) /\ Elsewhere(v, w, c) /\ Begun(v, w, c) /\ Calm(v, w) /\ Steady(v, w, c)
<1>1. ~Has(w, c, "active") /\ Reason(w, c) # "preparing" /\ (Has(w, c, "preparing") => Reason(w, c) # "none")
  BY DEF Sound, Flagged
<1>2. /\ v \in Worlds /\ Owned(v) /\ Elsewhere(v, w, c) /\ Flagged(v, c)
      /\ Begun(v, w, c) /\ Calm(v, w) /\ Steady(v, w, c)
  BY <1>1, StartReadyEffect DEF Sound
<1> QED
  BY <1>2, SoundElsewhere

\* fields that say nothing of sources, starts and stops
LEMMA QuietSound ==
  ASSUME NEW w, Sound(w), NEW c \in Clients, NEW pl \in PlayerFields, pl.src = w.players[c].src,
         pl.started = w.players[c].started, pl.start_pending = w.players[c].start_pending,
         pl.reason = w.players[c].reason, NEW v, v = Put(w, c, pl)
  PROVE  /\ Sound(v) /\ Elsewhere(v, w, c) /\ Alike(v, w, c) /\ Calm(v, w) /\ Reason(v, c) = Reason(w, c)
         /\ Seeks(v, c) = pl.seek_pending /\ Prepared(v, c) = pl.prepared /\ Cause(v, c) = pl.stop_cause
<1>1. /\ v \in Worlds /\ Owned(v) /\ Elsewhere(v, w, c)
      /\ \A r \in Roles : Source(v, c, r) = Source(w, c, r)
      /\ On(v, c) = pl.started /\ Waits(v, c) = pl.start_pending /\ Reason(v, c) = pl.reason
      /\ Calm(v, w) /\ Seeks(v, c) = pl.seek_pending /\ Prepared(v, c) = pl.prepared /\ Cause(v, c) = pl.stop_cause
  BY NeutralFields DEF Sound
<1>2. Alike(v, w, c) /\ Reason(v, c) = Reason(w, c)
  BY <1>1 DEF Alike, Kept, On, Waits, Reason
<1> QED
  BY <1>1, <1>2, FlaggedAlike, SoundElsewhere DEF Sound

\* a request to the mixer for a source of a sound player
LEMMA UpdateSound ==
  ASSUME NEW w, Sound(w), NEW c \in Clients, NEW p \in Pipes, NEW args \in Slots, NEW v, v = Update(w, p, args)
  PROVE  Sound(v) /\ Elsewhere(v, w, c) /\ Alike(v, w, c) /\ Calm(v, w) /\ Steady(v, w, c)
<1>1. v \in Worlds /\ Owned(v) /\ v.players = w.players /\ Calm(v, w)
  BY UpdateEffect DEF Sound
<1>2. Elsewhere(v, w, c) /\ Alike(v, w, c) /\ Steady(v, w, c)
  BY <1>1, SamePlayers
<1> QED
  BY <1>1, <1>2, FlaggedAlike, SoundElsewhere DEF Sound

LEMMA ReleaseSound ==
  ASSUME NEW w, Sound(w), NEW c \in Clients, NEW r \in Roles, NEW v, v = Release(w, c, r)
  PROVE  /\ Sound(v) /\ Elsewhere(v, w, c) /\ Emptied(v, w, c, r) /\ Calm(v, w) /\ Steady(v, w, c)
         /\ r = "preparing" => Reason(v, c) = "none"
<1>1. /\ v \in Worlds /\ Owned(v) /\ Elsewhere(v, w, c) /\ Emptied(v, w, c, r)
      /\ Calm(v, w) /\ Steady(v, w, c)
      /\ r = "preparing" => Reason(v, c) = "none"
  BY ReleaseEffect DEF Sound
<1>2. Flagged(v, c)
  BY <1>1 DEF Emptied, Kept, Flagged, Has, Sound, Roles
<1> QED
  BY <1>1, <1>2, SoundElsewhere

LEMMA ReleaseAllSound ==
  ASSUME NEW w, Sound(w), NEW c \in Clients, NEW v, v = ReleaseAll(w, c)
  PROVE  /\ Sound(v) /\ Elsewhere(v, w, c) /\ \A r \in Roles : ~Has(v, c, r)
         /\ On(v, c) = On(w, c) /\ Waits(v, c) = Waits(w, c) /\ Reason(v, c) = "none" /\ Calm(v, w) /\ Steady(v, w, c)
<1>1. /\ v \in Worlds /\ Owned(v) /\ Elsewhere(v, w, c)
      /\ \A r \in Roles : ~Has(v, c, r)
      /\ On(v, c) = On(w, c) /\ Waits(v, c) = Waits(w, c) /\ Reason(v, c) = "none"
      /\ Calm(v, w) /\ Steady(v, w, c)
  BY ReleaseAllEffect DEF Sound
<1>2. Flagged(v, c)
  BY <1>1 DEF Flagged, Sound, Roles
<1> QED
  BY <1>1, <1>2, SoundElsewhere

LEMMA StopSound ==
  ASSUME NEW w, Sound(w), NEW c \in Clients, NEW v, v = Stop(w, c)
  PROVE  /\ Sound(v) /\ Elsewhere(v, w, c) /\ Calm(v, w) /\ \A r \in Roles : ~Has(v, c, r)
         /\ ~On(v, c) /\ ~Waits(v, c) /\ ~Seeks(v, c) /\ ~Prepared(v, c) /\ Reason(v, c) = "none"
         /\ Cause(v, c) = Cause(w, c)
<1> DEFINE u == ReleaseAll(w, c)
           pl == [u.players[c] EXCEPT !.prepared = FALSE, !.seek_pending = FALSE, !.sought = FALSE,
                                      !.started = FALSE, !.start_pending = FALSE]
<1>1. /\ Sound(u) /\ Elsewhere(u, w, c) /\ \A r \in Roles : ~Has(u, c, r)
      /\ Reason(u, c) = "none" /\ Calm(u, w) /\ Steady(u, w, c)
  BY ReleaseAllSound
<1>2. v = Put(u, c, pl)
  BY DEF Stop, Put
<1> HIDE DEF u
<1>3. u.players[c] \in PlayerFields
  BY <1>1 DEF Sound, Worlds
<1>4. /\ pl \in PlayerFields /\ pl.src = u.players[c].src /\ pl.started = FALSE /\ pl.start_pending = FALSE
      /\ pl.reason = u.players[c].reason /\ pl.seek_pending = FALSE /\ pl.prepared = FALSE
      /\ pl.stop_cause = u.players[c].stop_cause
  BY <1>3 DEF PlayerFields
<1> HIDE DEF pl
<1>5. /\ v \in Worlds /\ Owned(v) /\ Elsewhere(v, u, c)
      /\ \A r \in Roles : Source(v, c, r) = Source(u, c, r)
      /\ On(v, c) = pl.started /\ Waits(v, c) = pl.start_pending /\ Reason(v, c) = pl.reason
      /\ Calm(v, u) /\ Seeks(v, c) = pl.seek_pending /\ Prepared(v, c) = pl.prepared /\ Cause(v, c) = pl.stop_cause
  BY <1>1, <1>2, <1>4, NeutralFields DEF Sound
<1>6. \A r \in Roles : ~Has(v, c, r)
  BY <1>1, <1>5 DEF Has
<1>6a. Elsewhere(v, w, c) /\ Calm(v, w)
  BY <1>1, <1>5, CalmTrans, ElsewhereTrans
<1>6b. /\ ~On(v, c) /\ ~Waits(v, c) /\ ~Seeks(v, c) /\ ~Prepared(v, c) /\ Reason(v, c) = "none"
       /\ Cause(v, c) = Cause(w, c)
  BY <1>1, <1>4, <1>5 DEF Steady, Reason, Cause
<1>7. Flagged(v, c)
  BY <1>4, <1>5, <1>6 DEF Flagged, Roles
<1> QED
  BY <1>1, <1>5, <1>6, <1>6a, <1>6b, <1>7, SoundElsewhere

LEMMA PrepareSound ==
  ASSUME NEW w, Sound(w), NEW c \in Clients, NEW v \in Prepare(w, c)
  PROVE  Sound(v)
<1> DEFINE u == Stop(w, c)
<1>1. /\ Sound(u) /\ ~Has(u, c, "preparing") /\ ~Has(u, c, "active") /\ ~Has(u, c, "ready")
      /\ ~Has(u, c, "next")
  BY StopSound DEF Roles
<1>2. v \in Creations(u, c, "preparing") /\ "preparing" \in Reasons \ {"none"}
  BY DEF Prepare, Reasons
<1> HIDE DEF u
<1> QED
  BY <1>1, <1>2, CreationsSound

LEMMA StartSound ==
  ASSUME NEW w, Sound(w), NEW c \in Clients, NEW v \in Start(w, c)
  PROVE  Sound(v)
<1> DEFINE u == [w EXCEPT !.players[c].start_pending = TRUE]
           pl == [w.players[c] EXCEPT !.start_pending = TRUE]
<1>1. ~On(w, c)
  BY DEF Start, On
<1>2. w.players[c] \in PlayerFields
  BY DEF Sound, Worlds
<1>3. /\ pl \in PlayerFields /\ pl.src = w.players[c].src /\ pl.reason = w.players[c].reason
      /\ pl.started = w.players[c].started /\ pl.start_pending = TRUE
  BY <1>2 DEF PlayerFields
<1>4. u = Put(w, c, pl)
  BY DEF Put
<1>5. \/ Has(w, c, "ready") /\ v = StartReady(w, c)
      \/ v = u
      \/ ~Has(w, c, "preparing") /\ v \in Creations(u, c, "rewinding")
  BY DEF Start
<1> HIDE DEF u, pl
<1>6. /\ u \in Worlds /\ Owned(u) /\ Elsewhere(u, w, c)
      /\ \A r \in Roles : Source(u, c, r) = Source(w, c, r)
      /\ On(u, c) = pl.started /\ Reason(u, c) = pl.reason
  BY <1>3, <1>4, NeutralFields DEF Sound
<1>7. Flagged(u, c)
  BY <1>1, <1>3, <1>6 DEF Flagged, Sound, Has, Roles, On, Reason
<1>8. Sound(u)
  BY <1>6, <1>7, SoundElsewhere
<1>9. ASSUME ~Has(w, c, "preparing"), v \in Creations(u, c, "rewinding") PROVE Sound(v)
  <2>1. ~Has(u, c, "preparing") /\ "rewinding" \in Reasons \ {"none"}
    BY <1>6, <1>9 DEF Has, Roles, Reasons
  <2> QED
    BY <1>8, <1>9, <2>1, CreationsSound
<1> QED
  BY <1>5, <1>8, <1>9, StartReadySound

\* the active source is the ready one of a player that is not started
Halted(v, w, c) ==
  /\ \A s \in Roles : Source(v, c, s) = IF s = "active" THEN None
                                        ELSE IF s = "ready" THEN Source(w, c, "active") ELSE Source(w, c, s)
  /\ ~On(v, c) /\ ~Waits(v, c) /\ Kept(v, w, c)

\* the active source becomes ready again, its player not being started any more
LEMMA PausedSound ==
  ASSUME NEW w, Sound(w), NEW c \in Clients, Has(w, c, "active"),
         NEW v, v = ClearPending(SetStarted(Move(w, c, "active", "ready"), c, FALSE), c)
  PROVE  Sound(v) /\ Elsewhere(v, w, c) /\ Halted(v, w, c) /\ Calm(v, w) /\ Steady(v, w, c)
<1> DEFINE m == Move(w, c, "active", "ready")
           s == SetStarted(m, c, FALSE)
<1>0. /\ "ready" \in Roles /\ "active" \in Roles /\ "preparing" \in Roles /\ "ready" # "active"
      /\ FALSE \in BOOLEAN
  BY DEF Roles
<1>1. ~Has(w, c, "ready") /\ Reason(w, c) # "preparing" /\ (Has(w, c, "preparing") => Reason(w, c) # "none")
  BY DEF Sound, Flagged
<1>2. /\ m \in Worlds /\ Owned(m) /\ Elsewhere(m, w, c) /\ Shifted(m, w, c, "active", "ready")
      /\ Calm(m, w) /\ Steady(m, w, c)
  BY <1>0, <1>1, MoveEffect DEF Sound
<1>3. v = ClearPending(s, c)
  OBVIOUS
<1> HIDE DEF m
<1>3a. s = SetStarted(m, c, FALSE)
  OBVIOUS
<1> HIDE DEF s
<1>4. /\ s \in Worlds /\ Owned(s) /\ Elsewhere(s, m, c)
      /\ \A r \in Roles : Source(s, c, r) = Source(m, c, r)
      /\ On(s, c) = FALSE /\ Reason(s, c) = Reason(m, c)
      /\ Calm(s, m) /\ Steady(s, m, c)
  <2>1. /\ s \in Worlds /\ Owned(s) /\ Elsewhere(s, m, c) /\ On(s, c) = FALSE /\ Reason(s, c) = Reason(m, c)
        /\ Calm(s, m) /\ Steady(s, m, c)
    BY <1>0, <1>2, <1>3a, SetStartedEffect
  <2>2. ASSUME NEW r \in Roles PROVE Source(s, c, r) = Source(m, c, r)
    BY <1>0, <1>2, <1>3a, SetStartedSources
  <2> QED
    BY <2>1, <2>2
<1>5. /\ v \in Worlds /\ Owned(v) /\ Elsewhere(v, s, c)
      /\ \A r \in Roles : Source(v, c, r) = Source(s, c, r)
      /\ On(v, c) = FALSE /\ Waits(v, c) = FALSE /\ Reason(v, c) = Reason(s, c)
      /\ Calm(v, s) /\ Steady(v, s, c)
  BY <1>3, <1>4, ClearPendingEffect
<1>6. Elsewhere(v, w, c)
  BY <1>2, <1>4, <1>5 DEF Elsewhere
<1>7. Flagged(v, c)
  <2>1. Reason(v, c) # "preparing"
    BY <1>1, <1>2, <1>4, <1>5 DEF Shifted, Kept
  <2>2. Has(v, c, "preparing") => Reason(v, c) # "none"
    BY <1>0, <1>1, <1>2, <1>4, <1>5 DEF Shifted, Kept, Has
  <2> QED
    BY <1>0, <1>2, <1>4, <1>5, <2>1, <2>2 DEF Flagged, Shifted, Has
<1>8. Halted(v, w, c)
  BY <1>0, <1>2, <1>4, <1>5 DEF Halted, Shifted, Kept, Has
<1>9. Calm(v, w) /\ Steady(v, w, c)
  BY <1>2, <1>4, <1>5, CalmTrans, SteadyTrans
<1> QED
  BY <1>5, <1>6, <1>7, <1>8, <1>9, SoundElsewhere

LEMMA ClearPendingSound ==
  ASSUME NEW w, Sound(w), NEW c \in Clients, NEW v, v = ClearPending(w, c)
  PROVE  /\ Sound(v) /\ Elsewhere(v, w, c) /\ Calm(v, w) /\ Steady(v, w, c)
         /\ \A r \in Roles : Source(v, c, r) = Source(w, c, r)
         /\ On(v, c) = On(w, c) /\ ~Waits(v, c) /\ Reason(v, c) = Reason(w, c)
<1>1. /\ v \in Worlds /\ Owned(v) /\ Elsewhere(v, w, c)
      /\ \A r \in Roles : Source(v, c, r) = Source(w, c, r)
      /\ On(v, c) = On(w, c) /\ Waits(v, c) = FALSE /\ Reason(v, c) = Reason(w, c)
      /\ Calm(v, w) /\ Steady(v, w, c)
  BY ClearPendingEffect DEF Sound
<1>2. Flagged(v, c)
  BY <1>1 DEF Flagged, Sound, Has, Roles
<1> QED
  BY <1>1, <1>2, SoundElsewhere

LEMMA PauseSound ==
  ASSUME NEW w, Sound(w), NEW c \in Clients, NEW v \in Pause(w, c)
  PROVE  Sound(v)
<1> DEFINE p == Source(w, c, "active")
           args == Args!ActiveFadeOutParams(c)
           u == Update(w, p, args)
<1>0. "active" \in Roles /\ w \in Worlds
  BY DEF Roles, Sound
<1>1. \/ Has(w, c, "active") /\ v = ClearPending(SetStarted(Move(u, c, "active", "ready"), c, FALSE), c)
      \/ v = ClearPending(w, c)
  BY DEF Pause, Source
<1>2. args \in Slots
  BY <1>0, FadeInTyped
<1>3. ASSUME Has(w, c, "active"), v = ClearPending(SetStarted(Move(u, c, "active", "ready"), c, FALSE), c)
      PROVE  Sound(v)
  <2>1. p \in Pipes
    BY <1>0, <1>3, SourceTyped DEF Has
  <2> HIDE DEF args, p
  <2>2. Sound(u) /\ Alike(u, w, c)
    BY <1>2, <2>1, UpdateSound
  <2> HIDE DEF u
  <2>3. Has(u, c, "active")
    BY <1>0, <1>3, <2>2 DEF Alike, Has
  <2> QED
    BY <1>3, <2>2, <2>3, PausedSound
<1> QED
  BY <1>1, <1>3, ClearPendingSound

LEMMA SeekNowSound ==
  ASSUME NEW w, Sound(w), NEW c \in Clients, NEW v \in SeekNow(w, c)
  PROVE  Sound(v)
<1> DEFINE u == Release(w, c, "preparing")
           t == [u EXCEPT !.players[c].seek_pending = FALSE]
           pl == [u.players[c] EXCEPT !.seek_pending = FALSE]
<1>0. "preparing" \in Roles /\ "seeking" \in Reasons \ {"none"}
  BY DEF Roles, Reasons
<1>1. PICK x \in Creations(t, c, "seeking") : v = [x EXCEPT !.players[c].sought = @ \/ Has(x, c, "preparing")]
  BY DEF SeekNow
<1>2. Sound(u) /\ Emptied(u, w, c, "preparing")
  BY <1>0, ReleaseSound
<1>3. t = Put(u, c, pl)
  BY DEF Put
<1> HIDE DEF u
<1>4. u.players[c] \in PlayerFields
  BY <1>2 DEF Sound, Worlds
<1>5. /\ pl \in PlayerFields /\ pl.src = u.players[c].src /\ pl.reason = u.players[c].reason
      /\ pl.started = u.players[c].started /\ pl.start_pending = u.players[c].start_pending
  BY <1>4 DEF PlayerFields
<1> HIDE DEF pl, t
<1>6. Sound(t) /\ Alike(t, u, c)
  BY <1>2, <1>3, <1>5, QuietSound
<1>7. ~Has(t, c, "preparing")
  BY <1>0, <1>2, <1>6 DEF Alike, Emptied, Has
<1>8. Sound(x)
  BY <1>0, <1>6, <1>7, CreationsSound
<1> DEFINE sought == x.players[c].sought \/ Has(x, c, "preparing")
           px == [x.players[c] EXCEPT !.sought = sought]
<1>9. v = Put(x, c, px)
  BY <1>1 DEF Put
<1>10. x.players[c] \in PlayerFields /\ sought \in BOOLEAN
  BY <1>8 DEF Sound, Worlds
<1> HIDE DEF sought
<1>11. /\ px \in PlayerFields /\ px.src = x.players[c].src /\ px.reason = x.players[c].reason
       /\ px.started = x.players[c].started /\ px.start_pending = x.players[c].start_pending
  BY <1>10 DEF PlayerFields
<1> HIDE DEF px
<1> QED
  BY <1>8, <1>9, <1>11, QuietSound

LEMMA SeekLaterSound ==
  ASSUME NEW w, Sound(w), NEW c \in Clients, NEW v, v = SeekLater(w, c)
  PROVE  Sound(v)
<1> DEFINE fades == ~w.players[c].seek_pending /\ Has(w, c, "active")
           p == Source(w, c, "active")
           args == Args!ActiveFadeOutParams(c)
           t == IF fades THEN Update(w, p, args) ELSE w
           u == Release(t, c, "preparing")
           pl == [u.players[c] EXCEPT !.seek_pending = TRUE]
<1>0. "preparing" \in Roles /\ "active" \in Roles /\ w \in Worlds
  BY DEF Roles, Sound
<1>1. v = Put(u, c, pl)
  BY DEF SeekLater, Put
<1>2. Sound(t)
  <2>1. CASE fades
    <3>1. p \in Pipes /\ args \in Slots
      BY <1>0, <2>1, SourceTyped, FadeInTyped DEF Has
    <3>2. t = Update(w, p, args)
      BY <2>1
    <3> HIDE DEF t, p, args
    <3> QED
      BY <3>1, <3>2, UpdateSound
  <2>2. CASE ~fades
    BY <2>2
  <2> QED
    BY <2>1, <2>2
<1> HIDE DEF t
<1>3. Sound(u)
  BY <1>0, <1>2, ReleaseSound
<1> HIDE DEF u
<1>4. u.players[c] \in PlayerFields
  BY <1>3 DEF Sound, Worlds
<1>5. /\ pl \in PlayerFields /\ pl.src = u.players[c].src /\ pl.reason = u.players[c].reason
      /\ pl.started = u.players[c].started /\ pl.start_pending = u.players[c].start_pending
  BY <1>4 DEF PlayerFields
<1> HIDE DEF pl
<1> QED
  BY <1>1, <1>3, <1>5, QuietSound

LEMMA RefreshSound ==
  ASSUME NEW w, Sound(w), NEW c \in Clients, NEW v, v = Refresh(w, c)
  PROVE  Sound(v) /\ Elsewhere(v, w, c) /\ Alike(v, w, c) /\ Calm(v, w) /\ Steady(v, w, c)
<1>1. CASE Current(w, c) = None
  BY <1>1 DEF Refresh, Elsewhere, Alike, Kept, Calm, Steady
<1>2. CASE Current(w, c) # None
  <2> DEFINE p == Current(w, c)
             args == FadeIn(w, c, "none")
  <2>1. p \in Pipes
    BY <1>2, SourceTyped DEF Current, Roles, Sound
  <2>2. args \in Slots
    BY FadeInTyped DEF Sound
  <2>3. v = Update(w, p, args)
    BY <1>2 DEF Refresh
  <2> HIDE DEF p, args
  <2> QED
    BY <2>1, <2>2, <2>3, UpdateSound
<1> QED
  BY <1>1, <1>2

LEMMA SetNextPlayerSound ==
  ASSUME NEW w, Sound(w), NEW c \in Clients, NEW v \in SetNextPlayer(w, c)
  PROVE  Sound(v)
<1>1. PICK n \in Clients \cup {None} : v = Refresh([w EXCEPT !.players[c].next_player = n], c)
  BY DEF SetNextPlayer
<1> DEFINE u == [w EXCEPT !.players[c].next_player = n]
           pl == [w.players[c] EXCEPT !.next_player = n]
<1>2. w.players[c] \in PlayerFields
  BY DEF Sound, Worlds
<1>3. /\ pl \in PlayerFields /\ pl.src = w.players[c].src /\ pl.reason = w.players[c].reason
      /\ pl.started = w.players[c].started /\ pl.start_pending = w.players[c].start_pending
  BY <1>2 DEF PlayerFields
<1>4. u = Put(w, c, pl)
  BY DEF Put
<1> HIDE DEF pl
<1>5. v = Refresh(u, c)
  BY <1>1
<1> HIDE DEF u
<1>6. Sound(u)
  BY <1>3, <1>4, QuietSound
<1> QED
  BY <1>5, <1>6, RefreshSound

LEMMA ToggleLoopingSound ==
  ASSUME NEW w, Sound(w), NEW c \in Clients, NEW v \in ToggleLooping(w, c)
  PROVE  Sound(v)
<1> DEFINE loopers == IF c \in w.looping THEN w.looping \ {c} ELSE w.looping \cup {c}
<1>1. loopers \in SUBSET Clients
  BY DEF Sound, Worlds
<1>2. v = [w EXCEPT !.looping = loopers]
  BY DEF ToggleLooping
<1> HIDE DEF loopers
<1>3. /\ v \in Worlds /\ v.players = w.players /\ v.decoder = w.decoder /\ v.sources = w.sources
      /\ v.asserts = w.asserts
  BY <1>1, <1>2 DEF Sound, Worlds
<1>4. Owned(v)
  BY <1>3, OwnedKept DEF Sound, Owned, Source, Works
<1>5. Elsewhere(v, w, c) /\ Alike(v, w, c)
  BY <1>3, SamePlayers
<1> QED
  BY <1>3, <1>4, <1>5, FlaggedAlike, SoundElsewhere DEF Sound

LEMMA OutcomesSound ==
  ASSUME NEW w, Sound(w), NEW c \in Clients, NEW call \in CallNames, NEW v \in Outcomes(call, w, c)
  PROVE  Sound(v)
<1>1. \/ v \in Prepare(w, c) \/ v \in Start(w, c) \/ v \in Pause(w, c) \/ v = Stop(w, c)
      \/ v \in SeekTo(w, c) \/ v \in ToggleLooping(w, c) \/ v \in SetNextPlayer(w, c)
  BY DEF Outcomes, CallNames
<1>2. v \in SeekTo(w, c) => v \in SeekNow(w, c) \/ v = SeekLater(w, c)
  BY DEF SeekTo
<1> QED
  BY <1>1, <1>2, PrepareSound, StartSound, PauseSound, StopSound, SeekNowSound, SeekLaterSound,
     ToggleLoopingSound, SetNextPlayerSound

-----------------------------------------------------------------------------
(* The poll of a player.                                                   *)

LEMMA PendingSeekSound ==
  ASSUME NEW w, Sound(w), NEW c \in Clients, NEW v \in PendingSeek(w, c)
  PROVE  Sound(v)
<1>1. v = w \/ v \in SeekNow(w, c)
  BY DEF PendingSeek
<1> QED
  BY <1>1, SeekNowSound

LEMMA RewoundCreationSound ==
  ASSUME NEW w, Sound(w), NEW c \in Clients, NEW v \in RewoundCreation(w, c)
  PROVE  Sound(v)
<1>1. CASE RewoundSourceWanted(w, c)
  <2>1. ~Has(w, c, "preparing") /\ "rewinding" \in Reasons \ {"none"} /\ v \in Creations(w, c, "rewinding")
    BY <1>1 DEF RewoundSourceWanted, RewoundCreation, Reasons
  <2> QED
    BY <2>1, CreationsSound
<1>2. CASE ~RewoundSourceWanted(w, c)
  BY <1>2 DEF RewoundCreation
<1> QED
  BY <1>1, <1>2

\* the source that was prepared becomes the ready one of a player that has no active one
LEMMA PreparedReadySound ==
  ASSUME NEW w, Sound(w), NEW c \in Clients, ~Has(w, c, "active"), NEW v, v = PreparingTo(w, c, "ready")
  PROVE  /\ Sound(v) /\ Elsewhere(v, w, c) /\ Shifted(v, w, c, "preparing", "ready") /\ Reason(v, c) = "none"
         /\ Calm(v, w) /\ Steady(v, w, c)
<1>1. /\ v \in Worlds /\ Owned(v) /\ Elsewhere(v, w, c) /\ Shifted(v, w, c, "preparing", "ready")
      /\ Reason(v, c) = "none" /\ Calm(v, w) /\ Steady(v, w, c)
  BY PreparingToEffect DEF Sound
<1>2. Flagged(v, c)
  BY <1>1 DEF Flagged, Shifted, Has, Sound, Roles
<1> QED
  BY <1>1, <1>2, SoundElsewhere

LEMMA PreparedNextSound ==
  ASSUME NEW w, Sound(w), NEW c \in Clients, NEW v, v = PreparingTo(w, c, "next")
  PROVE  /\ Sound(v) /\ Elsewhere(v, w, c) /\ Shifted(v, w, c, "preparing", "next") /\ Reason(v, c) = "none"
         /\ Calm(v, w) /\ Steady(v, w, c)
<1>1. /\ v \in Worlds /\ Owned(v) /\ Elsewhere(v, w, c) /\ Shifted(v, w, c, "preparing", "next")
      /\ Reason(v, c) = "none" /\ Calm(v, w) /\ Steady(v, w, c)
  BY PreparingToEffect DEF Sound
<1>2. Flagged(v, c)
  BY <1>1 DEF Flagged, Shifted, Has, Sound, Roles
<1> QED
  BY <1>1, <1>2, SoundElsewhere

LEMMA PreparingDoneSound ==
  ASSUME NEW w, Sound(w), NEW c \in Clients, Has(w, c, "preparing"), Reason(w, c) = "preparing",
         NEW ok \in BOOLEAN, NEW v, v = PreparingDone(w, c, ok)
  PROVE  Sound(v)
<1>1. CASE ok
  <2> DEFINE p == Source(w, c, "preparing")
             args == FadeIn(w, c, "none")
             u == Update(w, p, args)
             m == PreparingTo(u, c, "ready")
             pl == [m.players[c] EXCEPT !.prepared = TRUE]
  <2>1. p \in Pipes /\ args \in Slots
    BY SourceTyped, FadeInTyped DEF Has, Roles, Sound
  <2>2. v = Put(m, c, pl)
    BY <1>1 DEF PreparingDone, Put
  <2> HIDE DEF p, args
  <2>3. u = Update(w, p, args)
    OBVIOUS
  <2> HIDE DEF u
  <2>4. Sound(u) /\ Alike(u, w, c)
    BY <2>1, <2>3, UpdateSound
  <2>5. ~Has(u, c, "active")
    BY <2>4 DEF Alike, Has, Sound, Flagged, Roles
  <2>6. Sound(m)
    BY <2>4, <2>5, PreparedReadySound
  <2> HIDE DEF m
  <2>7. m.players[c] \in PlayerFields
    BY <2>6 DEF Sound, Worlds
  <2>8. /\ pl \in PlayerFields /\ pl.src = m.players[c].src /\ pl.reason = m.players[c].reason
        /\ pl.started = m.players[c].started /\ pl.start_pending = m.players[c].start_pending
    BY <2>7 DEF PlayerFields
  <2> HIDE DEF pl
  <2> QED
    BY <2>2, <2>6, <2>8, QuietSound
<1>2. CASE ~ok
  <2>1. v = ReleaseAll(w, c)
    BY <1>2 DEF PreparingDone
  <2> QED
    BY <2>1, ReleaseAllSound
<1> QED
  BY <1>1, <1>2

LEMMA ActiveToOldSound ==
  ASSUME NEW w, Sound(w), NEW c \in Clients, NEW v, v = ActiveToOld(w, c)
  PROVE  Sound(v) /\ Elsewhere(v, w, c) /\ Shifted(v, w, c, "active", "old") /\ Calm(v, w) /\ Steady(v, w, c)
<1>1. /\ v \in Worlds /\ Owned(v) /\ Elsewhere(v, w, c) /\ Shifted(v, w, c, "active", "old")
      /\ Calm(v, w) /\ Steady(v, w, c)
  BY ActiveToOldEffect DEF Sound
<1>2. Flagged(v, c)
  BY <1>1 DEF Flagged, Shifted, Kept, Has, Sound, Roles
<1> QED
  BY <1>1, <1>2, SoundElsewhere

\* the ready source becomes the active one of a player that is started
LEMMA ReadyToActiveSound ==
  ASSUME NEW w, Sound(w), NEW c \in Clients, On(w, c), ~Has(w, c, "active"), Reason(w, c) # "preparing",
         NEW v, v = Move(w, c, "ready", "active")
  PROVE  Sound(v) /\ Elsewhere(v, w, c) /\ Shifted(v, w, c, "ready", "active") /\ Calm(v, w) /\ Steady(v, w, c)
<1>0. "ready" \in Roles /\ "active" \in Roles /\ "preparing" \in Roles /\ "ready" # "active"
  BY DEF Roles
<1>1. /\ v \in Worlds /\ Owned(v) /\ Elsewhere(v, w, c) /\ Shifted(v, w, c, "ready", "active")
      /\ Calm(v, w) /\ Steady(v, w, c)
  BY <1>0, MoveEffect DEF Sound
<1>2. Has(v, c, "preparing") => Reason(v, c) # "none"
  BY <1>0, <1>1 DEF Flagged, Shifted, Kept, Has, Sound
<1>3. Flagged(v, c)
  BY <1>0, <1>1, <1>2 DEF Flagged, Shifted, Kept, Has, Sound
<1> QED
  BY <1>1, <1>3, SoundElsewhere

LEMMA SeekingDoneSound ==
  ASSUME NEW w, Sound(w), NEW c \in Clients, Has(w, c, "preparing"), NEW ok \in BOOLEAN,
         NEW v, v = SeekingDone(w, c, ok)
  PROVE  Sound(v)
<1> DEFINE p == Source(w, c, "preparing")
           from == Source(w, c, "active")
           none == FadeIn(w, c, "none")
           start == FadeIn(w, c, "start")
           old == OldFadeOut(w, c)
<1>0. /\ p \in Pipes /\ from \in Pipes \cup {None} /\ none \in Slots /\ start \in Slots /\ old \in Slots
      /\ \A r \in {"preparing", "active", "ready", "old"} : r \in Roles
  BY SourceTyped, FadeInTyped DEF Has, Roles, Sound
<1>1. CASE ~ok
  <2>1. v = Release(w, c, "preparing")
    BY <1>1 DEF SeekingDone
  <2> QED
    BY <1>0, <2>1, ReleaseSound
<1>2. CASE ok /\ ~On(w, c)
  <2> DEFINE u == Update(w, p, none)
             m == ActiveToOld(u, c)
  <2>1. v = PreparingTo(m, c, "ready")
    BY <1>2 DEF SeekingDone, On
  <2> HIDE DEF p, none
  <2>2. Sound(u)
    BY <1>0, UpdateSound
  <2> HIDE DEF u
  <2>3. Sound(m) /\ Shifted(m, u, c, "active", "old")
    BY <2>2, ActiveToOldSound
  <2> HIDE DEF m
  <2>4. ~Has(m, c, "active")
    BY <1>0, <2>3 DEF Shifted, Has
  <2> QED
    BY <2>1, <2>3, <2>4, PreparedReadySound
<1>3. CASE ok /\ On(w, c) /\ from = None
  <2>1. v = Expect(w, FALSE, "null active_source_")
    BY <1>3 DEF SeekingDone, On
  <2>2. v = [w EXCEPT !.asserts = @ \cup {"null active_source_"}]
    BY <2>1 DEF Expect
  <2>3. /\ v \in Worlds /\ v.players = w.players /\ v.decoder = w.decoder /\ v.sources = w.sources
        /\ "move" \notin v.asserts
    BY <2>2 DEF Sound, Worlds, Owned
  <2>4. Owned(v)
    BY <2>3, OwnedKept DEF Sound, Source, Works
  <2>5. Elsewhere(v, w, c) /\ Alike(v, w, c)
    BY <2>3, SamePlayers
  <2> QED
    BY <2>3, <2>4, <2>5, FlaggedAlike, SoundElsewhere DEF Sound
<1>4. CASE ok /\ On(w, c) /\ from # None
  <2> DEFINE f == Update(w, from, old)
             u == Update(f, p, start)
             m == ActiveToOld(u, c)
             y == PreparingTo(m, c, "ready")
  <2>1. v = Move(y, c, "ready", "active")
    BY <1>4 DEF SeekingDone, On
  <2> HIDE DEF p, from, start, old
  <2>2. Sound(f) /\ Alike(f, w, c)
    BY <1>0, <1>4, UpdateSound
  <2> HIDE DEF f
  <2>3. Sound(u) /\ Alike(u, f, c)
    BY <1>0, <2>2, UpdateSound
  <2> HIDE DEF u
  <2>4. Sound(m) /\ Shifted(m, u, c, "active", "old")
    BY <2>3, ActiveToOldSound
  <2> HIDE DEF m
  <2>5. ~Has(m, c, "active")
    BY <1>0, <2>4 DEF Shifted, Has
  <2>6. Sound(y) /\ Shifted(y, m, c, "preparing", "ready") /\ Reason(y, c) = "none"
    BY <2>4, <2>5, PreparedReadySound
  <2> HIDE DEF y
  <2>7. ~Has(y, c, "active") /\ On(y, c)
    BY <1>0, <1>4, <2>2, <2>3, <2>4, <2>5, <2>6 DEF Shifted, Alike, Has
  <2> QED
    BY <2>1, <2>6, <2>7, ReadyToActiveSound
<1> QED
  BY <1>1, <1>2, <1>3, <1>4

LEMMA RewindingDoneSound ==
  ASSUME NEW w, Sound(w), NEW c \in Clients, Has(w, c, "preparing"), NEW ok \in BOOLEAN,
         NEW v, v = RewindingDone(w, c, ok)
  PROVE  Sound(v)
<1> DEFINE p == Source(w, c, "preparing")
           none == FadeIn(w, c, "none")
           next == NextFadeIn(w, c)
<1>0. /\ p \in Pipes /\ none \in Slots /\ next \in Slots
      /\ \A r \in {"preparing", "active", "ready", "next"} : r \in Roles
  BY SourceTyped, FadeInTyped DEF Has, Roles, Sound
<1>1. CASE ~ok
  <2>1. v = ReleaseAll(w, c)
    BY <1>1 DEF RewindingDone
  <2> QED
    BY <2>1, ReleaseAllSound
<1>2. CASE ok /\ ~(~Has(w, c, "ready") /\ ~Has(w, c, "active"))
  <2> DEFINE u == Update(w, p, next)
  <2>1. v = PreparingTo(u, c, "next")
    BY <1>2 DEF RewindingDone
  <2> HIDE DEF p, next
  <2>2. Sound(u)
    BY <1>0, UpdateSound
  <2> HIDE DEF u
  <2> QED
    BY <2>1, <2>2, PreparedNextSound
<1>3. CASE ok /\ ~Has(w, c, "ready") /\ ~Has(w, c, "active")
  <2> DEFINE u == Update(w, p, none)
             y == PreparingTo(u, c, "ready")
  <2>1. v = y \/ v = StartReady(y, c)
    BY <1>3 DEF RewindingDone
  <2>2. Sound(u) /\ Alike(u, w, c)
    <3> HIDE DEF p, none
    <3> QED
      BY <1>0, UpdateSound
  <2>3. Has(u, c, "preparing") /\ ~Has(u, c, "active")
    BY <1>0, <1>3, <2>2 DEF Alike, Has
  <2> HIDE DEF u
  <2>4. Sound(y) /\ Shifted(y, u, c, "preparing", "ready")
    BY <2>2, <2>3, PreparedReadySound
  <2> HIDE DEF y
  <2>5. Has(y, c, "ready")
    BY <1>0, <2>3, <2>4 DEF Shifted, Has
  <2> QED
    BY <2>1, <2>4, <2>5, StartReadySound
<1> QED
  BY <1>1, <1>2, <1>3

LEMMA PollPreparingSound ==
  ASSUME NEW w, Sound(w), NEW c \in Clients, NEW v, v = PollPreparing(w, c)
  PROVE  Sound(v)
<1> DEFINE p == Source(w, c, "preparing")
           ok == w.decoder[p] = "prefetched"
           f == [w.decoder EXCEPT ![p] = IF ok THEN "paused" ELSE w.decoder[p]]
           u == [w EXCEPT !.decoder = f]
<1>1. CASE p = None \/ w.decoder[p] = "preparing"
  <2>1. v = w
    BY <1>1 DEF PollPreparing
  <2> QED
    BY <2>1
<1>2. CASE ~(p = None \/ w.decoder[p] = "preparing")
  <2>0. "preparing" \in Roles
    BY DEF Roles
  <2>1. p \in Pipes /\ Has(w, c, "preparing")
    BY <1>2, <2>0, SourceTyped DEF Has, Sound
  <2>2. v = CASE Reason(w, c) = "preparing" -> PreparingDone(u, c, ok)
              [] Reason(w, c) = "seeking"   -> SeekingDone(u, c, ok)
              [] Reason(w, c) = "rewinding" -> RewindingDone(u, c, ok)
    BY <1>2 DEF PollPreparing, Reason
  <2>3. w.decoder \in [Pipes -> DecoderStates]
    BY DEF Sound, Worlds
  <2> HIDE DEF p
  <2>4. f \in [Pipes -> DecoderStates] /\ \A q \in Pipes : f[q] \in Live => Works(w, q)
    BY <2>1, <2>3 DEF DecoderStates, Live, Works
  <2>5. ok \in BOOLEAN
    OBVIOUS
  <2> HIDE DEF f, ok
  <2>6. u \in Worlds /\ Owned(u) /\ u.players = w.players
    BY <2>4, DecoderEffect DEF Sound
  <2> HIDE DEF u
  <2>7. Elsewhere(u, w, c) /\ Alike(u, w, c) /\ Reason(u, c) = Reason(w, c)
    BY <2>6, SamePlayers DEF Reason
  <2>8. Sound(u)
    BY <2>6, <2>7, FlaggedAlike, SoundElsewhere DEF Sound
  <2>9. Has(u, c, "preparing")
    BY <2>0, <2>1, <2>7 DEF Alike, Has
  <2>10. CASE Reason(w, c) = "preparing"
    <3>1. v = PreparingDone(u, c, ok)
      BY <2>2, <2>10
    <3> QED
      BY <2>5, <2>7, <2>8, <2>9, <2>10, <3>1, PreparingDoneSound
  <2>11. CASE Reason(w, c) = "seeking"
    <3>1. v = SeekingDone(u, c, ok)
      BY <2>2, <2>11
    <3> QED
      BY <2>5, <2>8, <2>9, <3>1, SeekingDoneSound
  <2>12. CASE Reason(w, c) = "rewinding"
    <3>1. v = RewindingDone(u, c, ok)
      BY <2>2, <2>12
    <3> QED
      BY <2>5, <2>8, <2>9, <3>1, RewindingDoneSound
  <2>13. Reason(w, c) \in {"preparing", "seeking", "rewinding"}
    <3>1. Reason(w, c) \in Reasons /\ Reason(w, c) # "none"
      BY <2>1 DEF Sound, Flagged, Worlds, PlayerFields, Reason
    <3> QED
      BY <3>1 DEF Reasons
  <2> QED
    BY <2>10, <2>11, <2>12, <2>13
<1> QED
  BY <1>1, <1>2

LEMMA NextToReadySound ==
  ASSUME NEW w, Sound(w), NEW c \in Clients, ~Has(w, c, "active"), NEW v, v = NextToReady(w, c)
  PROVE  Sound(v) /\ Elsewhere(v, w, c) /\ Shifted(v, w, c, "next", "ready") /\ Calm(v, w) /\ Steady(v, w, c)
<1>1. /\ v \in Worlds /\ Owned(v) /\ Elsewhere(v, w, c) /\ Shifted(v, w, c, "next", "ready")
      /\ Calm(v, w) /\ Steady(v, w, c)
  BY NextToReadyEffect DEF Sound
<1>2. Flagged(v, c)
  BY <1>1 DEF Flagged, Shifted, Kept, Has, Sound, Roles
<1> QED
  BY <1>1, <1>2, SoundElsewhere

LEMMA StartAsNextSound ==
  ASSUME NEW w, Sound(w), NEW n \in Clients, CanStartAsNext(w, n), NEW v, v = StartAsNext(w, n)
  PROVE  Sound(v)
<1>0. \A r \in {"active", "ready", "next"} : r \in Roles
  BY DEF Roles
<1>1. ~On(w, n) /\ Has(w, n, "ready")
  BY DEF CanStartAsNext, On
<1>2. ~Has(w, n, "active")
  BY <1>1 DEF Sound, Flagged
<1>3. CASE w.completed[Source(w, n, "ready")] = "no"
  BY <1>1, <1>3, StartReadySound DEF StartAsNext
<1>4. CASE w.completed[Source(w, n, "ready")] # "no"
  <2> DEFINE u == NextToReady(w, n)
  <2>1. Has(w, n, "next")
    BY <1>4 DEF CanStartAsNext, Source
  <2>2. v = StartReady(u, n)
    BY <1>4 DEF StartAsNext
  <2>3. Sound(u) /\ Shifted(u, w, n, "next", "ready")
    BY <1>2, NextToReadySound
  <2> HIDE DEF u
  <2>4. Has(u, n, "ready")
    BY <1>0, <2>1, <2>3 DEF Shifted, Has
  <2> QED
    BY <2>2, <2>3, <2>4, StartReadySound
<1> QED
  BY <1>3, <1>4

LEMMA PendingStartSound ==
  ASSUME NEW w, Sound(w), NEW c \in Clients, NEW v, v = PendingStart(w, c)
  PROVE  Sound(v)
<1> DEFINE n == w.players[c].next_player
           u == IF ~Has(w, c, "ready") /\ Has(w, c, "next") THEN NextToReady(w, c) ELSE w
<1>1. CASE ~Waits(w, c)
  <2>1. v = w
    BY <1>1 DEF PendingStart, Waits
  <2> QED
    BY <2>1
<1>2. CASE Waits(w, c)
  <2>1. \/ n # None /\ CanStartAsNext(w, n) /\ v = ClearPending(StartAsNext(w, n), c)
        \/ Has(u, c, "ready") /\ v = StartReady(u, c)
        \/ v = u
    BY <1>2 DEF PendingStart, Waits
  <2>2. ~Has(w, c, "active")
    BY <1>2 DEF Sound, Flagged
  <2>3. Sound(u)
    <3>1. CASE ~Has(w, c, "ready") /\ Has(w, c, "next")
      BY <2>2, <3>1, NextToReadySound
    <3>2. CASE ~(~Has(w, c, "ready") /\ Has(w, c, "next"))
      BY <3>2
    <3> QED
      BY <3>1, <3>2
  <2> HIDE DEF u
  <2>4. n \in Clients \cup {None}
    BY DEF Sound, Worlds, PlayerFields
  <2> HIDE DEF n
  <2>5. ASSUME n # None, CanStartAsNext(w, n), v = ClearPending(StartAsNext(w, n), c) PROVE Sound(v)
    <3> DEFINE x == StartAsNext(w, n)
    <3>1. Sound(x)
      BY <2>4, <2>5, StartAsNextSound
    <3>2. v = ClearPending(x, c)
      BY <2>5
    <3> HIDE DEF x
    <3> QED
      BY <3>1, <3>2, ClearPendingSound
  <2> QED
    BY <2>1, <2>3, <2>5, StartReadySound
<1> QED
  BY <1>1, <1>2

\* the next source, if there is one, becomes the ready one of a player that has no active one
AfterNext(w, c) == IF Has(w, c, "next") THEN NextToReady(w, c) ELSE w

LEMMA AfterNextSound ==
  ASSUME NEW w, Sound(w), NEW c \in Clients, ~Has(w, c, "active"), NEW v, v = AfterNext(w, c)
  PROVE  /\ Sound(v) /\ Elsewhere(v, w, c) /\ Calm(v, w) /\ Steady(v, w, c)
         /\ \A r \in Roles \ {"next", "ready"} : Source(v, c, r) = Source(w, c, r)
         /\ IF Has(w, c, "next") THEN Source(v, c, "ready") = Source(w, c, "next") /\ ~Has(v, c, "next")
            ELSE Source(v, c, "ready") = Source(w, c, "ready") /\ ~Has(v, c, "next")
         /\ On(v, c) = On(w, c) /\ Waits(v, c) = Waits(w, c) /\ Kept(v, w, c)
<1>1. CASE Has(w, c, "next")
  <2>1. Sound(v) /\ Elsewhere(v, w, c) /\ Shifted(v, w, c, "next", "ready") /\ Calm(v, w) /\ Steady(v, w, c)
    BY <1>1, NextToReadySound DEF AfterNext
  <2> QED
    BY <1>1, <2>1 DEF Shifted, Has, Roles
<1>2. CASE ~Has(w, c, "next")
  BY <1>2 DEF AfterNext, Elsewhere, Calm, Steady, Kept
<1> QED
  BY <1>1, <1>2

LEMMA EndedSound ==
  ASSUME NEW w, Sound(w), NEW c \in Clients, ~Has(w, c, "active"), NEW v, v = SetStarted(w, c, FALSE)
  PROVE  /\ Sound(v) /\ Elsewhere(v, w, c) /\ Calm(v, w) /\ Steady(v, w, c)
         /\ \A r \in Roles : Source(v, c, r) = Source(w, c, r)
         /\ ~On(v, c) /\ Waits(v, c) = Waits(w, c) /\ Reason(v, c) = Reason(w, c)
<1>1. /\ v \in Worlds /\ Owned(v) /\ Elsewhere(v, w, c)
      /\ On(v, c) = FALSE /\ Waits(v, c) = Waits(w, c) /\ Reason(v, c) = Reason(w, c)
      /\ Calm(v, w) /\ Steady(v, w, c)
  BY SetStartedEffect DEF Sound
<1>2. \A r \in Roles : Source(v, c, r) = Source(w, c, r)
  BY SetStartedSources DEF Sound
<1>3. Flagged(v, c)
  BY <1>1, <1>2 DEF Flagged, Sound, Has, Roles
<1> QED
  BY <1>1, <1>2, <1>3, SoundElsewhere

LEMMA PlaybackCompletionSound ==
  ASSUME NEW w, Sound(w), NEW c \in Clients, NEW y \in PlaybackCompletion(w, c)
  PROVE  Sound(y)
<1>1. CASE ~IsCompleted(w, c)
  <2>1. y = w
    BY <1>1 DEF PlaybackCompletion
  <2> QED
    BY <2>1
<1>2. CASE IsCompleted(w, c)
  <2> DEFINE o == Release(w, c, "old")
             a == Release(o, c, "active")
             played == AfterNext(a, c)
             b == Release(w, c, "ready")
             unplayed == AfterNext(b, c)
             u == IF ~On(w, c) THEN unplayed
                  ELSE IF Looped(w, c) THEN Move(played, c, "ready", "active")
                  ELSE SetStarted(played, c, FALSE)
             v == Refresh(u, c)
  <2>0. \A r \in {"old", "active", "ready", "preparing"} : r \in Roles
    BY DEF Roles
  <2>1. y = v \/ (~Has(v, c, "preparing") /\ y \in Creations(v, c, "rewinding"))
    BY <1>2 DEF PlaybackCompletion, AfterNext, On, Roles
  <2>2. Reason(w, c) # "preparing"
    BY <1>2 DEF IsCompleted, Current, Sound, Flagged, Has
  <2>3. Sound(o) /\ Emptied(o, w, c, "old")
    BY <2>0, ReleaseSound
  <2> HIDE DEF o
  <2>4. Sound(a) /\ Emptied(a, o, c, "active")
    BY <2>0, <2>3, ReleaseSound
  <2> HIDE DEF a
  <2>5. ~Has(a, c, "active") /\ On(a, c) = On(w, c) /\ Reason(a, c) # "preparing"
    BY <2>0, <2>2, <2>3, <2>4 DEF Emptied, Kept, Has
  <2>6. Sound(played) /\ ~Has(played, c, "active") /\ On(played, c) = On(w, c) /\ Reason(played, c) # "preparing"
    BY <2>4, <2>5, AfterNextSound DEF Roles, Has, Kept
  <2> HIDE DEF played
  <2>7. Sound(b) /\ Emptied(b, w, c, "ready")
    BY <2>0, ReleaseSound
  <2> HIDE DEF b
  <2>8. Sound(u)
    <3>1. CASE ~On(w, c)
      <4>1. ~Has(b, c, "active")
        BY <2>0, <2>7, <3>1 DEF Emptied, Has, Sound, Flagged
      <4>2. Sound(unplayed)
        BY <2>7, <4>1, AfterNextSound
      <4> QED
        BY <3>1, <4>2
    <3>2. CASE On(w, c) /\ Looped(w, c)
      <4>1. u = Move(played, c, "ready", "active")
        BY <3>2
      <4> HIDE DEF u
      <4> QED
        BY <2>6, <3>2, <4>1, ReadyToActiveSound
    <3>3. CASE On(w, c) /\ ~Looped(w, c)
      <4>1. u = SetStarted(played, c, FALSE)
        BY <3>3
      <4> HIDE DEF u
      <4> QED
        BY <2>6, <4>1, EndedSound
    <3> QED
      BY <3>1, <3>2, <3>3
  <2> HIDE DEF u
  <2>9. Sound(v)
    BY <2>8, RefreshSound
  <2> HIDE DEF v
  <2>10. "rewinding" \in Reasons \ {"none"}
    BY DEF Reasons
  <2> QED
    BY <2>1, <2>9, <2>10, CreationsSound
<1> QED
  BY <1>1, <1>2

LEMMA PollPlayerSound ==
  ASSUME NEW w, Sound(w), NEW c \in Clients, NEW y \in PollPlayer(w, c)
  PROVE  Sound(y)
<1>1. CASE ~PollRequired(w, c)
  BY <1>1 DEF PollPlayer
<1>2. CASE PollRequired(w, c)
  <2>1. PICK v \in PendingSeek(w, c) :
          \E x \in RewoundCreation(v, c) : y \in PlaybackCompletion(PendingStart(PollPreparing(x, c), c), c)
    BY <1>2 DEF PollPlayer
  <2>2. PICK x \in RewoundCreation(v, c) : y \in PlaybackCompletion(PendingStart(PollPreparing(x, c), c), c)
    BY <2>1
  <2> DEFINE p == PollPreparing(x, c)
             s == PendingStart(p, c)
  <2>3. Sound(v)
    BY PendingSeekSound
  <2>4. Sound(x)
    BY <2>3, RewoundCreationSound
  <2>5. Sound(p)
    BY <2>4, PollPreparingSound
  <2>6. y \in PlaybackCompletion(s, c)
    BY <2>2
  <2> HIDE DEF p
  <2>7. Sound(s)
    BY <2>5, PendingStartSound
  <2> HIDE DEF s
  <2> QED
    BY <2>6, <2>7, PlaybackCompletionSound
<1> QED
  BY <1>1, <1>2

-----------------------------------------------------------------------------
(* Induction over the natural numbers, as the least element of a set: the  *)
(* set of the numbers for which a fact fails has none, so it is empty.     *)

\* A set of numbers that is not empty has a least one.
LEMMA LeastNatural ==
  ASSUME NEW T, T \subseteq Nat, T # {}
  PROVE  \E x \in T : \A y \in T : x <= y
<1> DEFINE R == {ss \in Nat \X Nat : ss[1] < ss[2]}
<1>1. IsWellFoundedOn(R, Nat)
  BY NatLessThanWellFounded DEF OpToRel
<1>2. PICK x \in T : \A y \in T : ~(<<y, x>> \in R)
  <2> HIDE DEF R
  <2> QED
    BY <1>1, WFMin
<1>3. ASSUME NEW y \in T PROVE x <= y
  <2>1. x \in Nat /\ y \in Nat /\ <<y, x>> \in Nat \X Nat
    OBVIOUS
  <2>2. y < x => <<y, x>> \in R
    BY <2>1
  <2> HIDE DEF R
  <2> QED
    BY <2>1, <2>2, <1>2
<1> QED
  BY <1>3

\* What holds of 0 and of the successor of each number in a set is the whole of Nat up to a bound.
LEMMA NaturalsUpTo ==
  ASSUME NEW N \in Nat, NEW P, 0 \in P, \A n \in 0 .. N - 1 : n \in P => n + 1 \in P
  PROVE  0 .. N \subseteq P
<1> DEFINE T == {n \in 0 .. N : n \notin P}
<1> SUFFICES ASSUME T # {} PROVE FALSE
  OBVIOUS
<1>0. T \subseteq Nat
  OBVIOUS
<1>1. PICK x \in T : \A y \in T : x <= y
  <2> HIDE DEF T
  <2> QED
    BY <1>0, LeastNatural
<1>2. x \in 0 .. N /\ x \notin P /\ x # 0
  BY <1>1
<1>3. x - 1 \in 0 .. N - 1 /\ x - 1 \notin T /\ (x - 1) + 1 = x
  BY <1>1, <1>2
<1> QED
  BY <1>2, <1>3

-----------------------------------------------------------------------------
(* Polled: the players, one after the other.                               *)

\* the function in its definition, for the first n players
PolledUpTo(f, n) ==
  f = [i \in 0 .. n |-> IF i = 0 THEN {World} ELSE UNION {PollPlayer(w, ClientList[i]) : w \in f[i - 1]}]

\* There is such a function, however many players there are.
LEMMA PolledExists ==
  ASSUME NEW N \in Nat
  PROVE  \E f : PolledUpTo(f, N)
<1> DEFINE P == {n \in 0 .. N : \E f : PolledUpTo(f, n)}
<1>1. 0 \in P
  <2>1. PolledUpTo([i \in 0 .. 0 |-> {World}], 0)
    BY DEF PolledUpTo
  <2> QED
    BY <2>1
<1>2. ASSUME NEW n \in 0 .. N - 1, n \in P PROVE n + 1 \in P
  <2>1. PICK f : PolledUpTo(f, n)
    BY <1>2
  <2> DEFINE g == [i \in 0 .. n + 1 |->
                     IF i <= n THEN f[i] ELSE UNION {PollPlayer(w, ClientList[n + 1]) : w \in f[n]}]
  <2>2. ASSUME NEW i \in 0 .. n + 1
        PROVE  g[i] = IF i = 0 THEN {World} ELSE UNION {PollPlayer(w, ClientList[i]) : w \in g[i - 1]}
    <3>1. CASE i = 0
      BY <2>1, <3>1 DEF PolledUpTo
    <3>2. CASE i # 0 /\ i <= n
      <4>1. /\ i \in 0 .. n /\ i - 1 \in 0 .. n /\ i - 1 <= n /\ i - 1 \in 0 .. n + 1
            /\ g[i] = f[i] /\ g[i - 1] = f[i - 1]
        BY <3>2
      <4>2. f[i] = UNION {PollPlayer(w, ClientList[i]) : w \in f[i - 1]}
        BY <4>1, <3>2, <2>1 DEF PolledUpTo
      <4> QED
        BY <4>1, <4>2, <3>2
    <3>3. CASE i = n + 1
      <4>1. i # 0 /\ i - 1 = n /\ g[i - 1] = f[n]
        BY <3>3
      <4> QED
        BY <4>1, <3>3
    <3> QED
      BY <3>1, <3>2, <3>3
  <2>3. PolledUpTo(g, n + 1)
    BY <2>2 DEF PolledUpTo
  <2> QED
    BY <2>3
<1>3. 0 .. N \subseteq P
  <2> HIDE DEF P
  <2> QED
    BY <1>1, <1>2, NaturalsUpTo
<1> QED
  BY <1>3

\* The world is sound after every player.
LEMMA PolledSound ==
  ASSUME Sound(World), NEW w \in Polled[Len(ClientList)]
  PROVE  Sound(w)
<1> DEFINE N == Len(ClientList)
           f == CHOOSE k : PolledUpTo(k, N)
<1>0. N \in Nat /\ \A i \in 1 .. N : ClientList[i] \in Clients
  BY ClientListAssumption
<1>1. PolledUpTo(f, N)
  BY <1>0, PolledExists
<1>2. Polled = f
  BY DEF Polled, PolledUpTo
<1> HIDE DEF f
<1> DEFINE P == {n \in 0 .. N : \A x \in f[n] : Sound(x)}
<1>3. 0 \in P
  BY <1>0, <1>1 DEF PolledUpTo
<1>4. ASSUME NEW n \in 0 .. N - 1, n \in P PROVE n + 1 \in P
  <2>1. n + 1 \in 0 .. N /\ n + 1 # 0 /\ (n + 1) - 1 = n /\ n + 1 \in 1 .. N
    BY <1>0
  <2>2. f[n + 1] = UNION {PollPlayer(x, ClientList[n + 1]) : x \in f[n]}
    BY <1>1, <2>1 DEF PolledUpTo
  <2>3. ASSUME NEW y \in f[n + 1] PROVE Sound(y)
    <3>1. PICK x \in f[n] : y \in PollPlayer(x, ClientList[n + 1])
      BY <2>2, <2>3
    <3> QED
      BY <1>0, <1>4, <2>1, <3>1, PollPlayerSound
  <2> QED
    BY <2>1, <2>3
<1>5. 0 .. N \subseteq P
  <2> HIDE DEF P
  <2> QED
    BY <1>0, <1>3, <1>4, NaturalsUpTo
<1> QED
  BY <1>0, <1>2, <1>5

-----------------------------------------------------------------------------
(* The mixer's events.                                                     *)

\* a decoder that plays or pauses is at work, before and after
LEMMA ResumedSound ==
  ASSUME NEW w, Sound(w), NEW c \in Clients, NEW p \in Pipes, NEW v, v = Resumed(w, p) \/ v = Paused(w, p)
  PROVE  Sound(v) /\ Alike(v, w, c) /\ Reason(v, c) = Reason(w, c)
<1> DEFINE d == v.decoder
<1>1. w.decoder \in [Pipes -> DecoderStates]
  BY DEF Sound, Worlds
<1>2. \E f \in [Pipes -> DecoderStates] : v = [w EXCEPT !.decoder = f] /\ \A q \in Pipes : f[q] \in Live => Works(w, q)
  <2>1. CASE v = Resumed(w, p)
    <3> DEFINE f == [w.decoder EXCEPT ![p] = IF w.decoder[p] = "paused" THEN "playing" ELSE w.decoder[p]]
    <3>1. f \in [Pipes -> DecoderStates] /\ \A q \in Pipes : f[q] \in Live => Works(w, q)
      BY <1>1 DEF DecoderStates, Live, Works
    <3>2. v = [w EXCEPT !.decoder = f]
      BY <2>1 DEF Resumed
    <3> HIDE DEF f
    <3> QED
      BY <3>1, <3>2
  <2>2. CASE v = Paused(w, p)
    <3> DEFINE f == [w.decoder EXCEPT ![p] = IF w.decoder[p] = "playing" THEN "paused" ELSE w.decoder[p]]
    <3>1. f \in [Pipes -> DecoderStates] /\ \A q \in Pipes : f[q] \in Live => Works(w, q)
      BY <1>1 DEF DecoderStates, Live, Works
    <3>2. v = [w EXCEPT !.decoder = f]
      BY <2>2 DEF Paused
    <3> HIDE DEF f
    <3> QED
      BY <3>1, <3>2
  <2> QED
    BY <2>1, <2>2
<1>3. v \in Worlds /\ Owned(v) /\ v.players = w.players
  BY <1>2, DecoderEffect DEF Sound
<1>4. Elsewhere(v, w, c) /\ Alike(v, w, c)
  BY <1>3, SamePlayers
<1> QED
  BY <1>3, <1>4, FlaggedAlike, SoundElsewhere DEF Sound, Reason

\* the ready source is being mixed: it becomes the active one
LEMMA StartedSound ==
  ASSUME NEW w, Sound(w), NEW c \in Clients, Has(w, c, "ready"),
         NEW v, v = ClearPending(SetStarted(Move(w, c, "ready", "active"), c, TRUE), c)
  PROVE  Sound(v) /\ Elsewhere(v, w, c) /\ Begun(v, w, c) /\ Calm(v, w) /\ Steady(v, w, c)
<1> DEFINE m == Move(w, c, "ready", "active")
           s == SetStarted(m, c, TRUE)
<1>0. /\ "ready" \in Roles /\ "active" \in Roles /\ "preparing" \in Roles /\ "ready" # "active"
      /\ TRUE \in BOOLEAN
  BY DEF Roles
<1>1. ~Has(w, c, "active") /\ Reason(w, c) # "preparing" /\ (Has(w, c, "preparing") => Reason(w, c) # "none")
  BY DEF Sound, Flagged
<1>2. /\ m \in Worlds /\ Owned(m) /\ Elsewhere(m, w, c) /\ Shifted(m, w, c, "ready", "active")
      /\ Calm(m, w) /\ Steady(m, w, c)
  BY <1>0, <1>1, MoveEffect DEF Sound
<1>3. v = ClearPending(s, c)
  OBVIOUS
<1> HIDE DEF m
<1>3a. s = SetStarted(m, c, TRUE)
  OBVIOUS
<1> HIDE DEF s
<1>4. /\ s \in Worlds /\ Owned(s) /\ Elsewhere(s, m, c)
      /\ \A r \in Roles : Source(s, c, r) = Source(m, c, r)
      /\ On(s, c) = TRUE /\ Reason(s, c) = Reason(m, c)
      /\ Calm(s, m) /\ Steady(s, m, c)
  <2>1. /\ s \in Worlds /\ Owned(s) /\ Elsewhere(s, m, c) /\ On(s, c) = TRUE /\ Reason(s, c) = Reason(m, c)
        /\ Calm(s, m) /\ Steady(s, m, c)
    BY <1>0, <1>2, <1>3a, SetStartedEffect
  <2>2. ASSUME NEW r \in Roles PROVE Source(s, c, r) = Source(m, c, r)
    BY <1>0, <1>2, <1>3a, SetStartedSources
  <2> QED
    BY <2>1, <2>2
<1>5. /\ v \in Worlds /\ Owned(v) /\ Elsewhere(v, s, c)
      /\ \A r \in Roles : Source(v, c, r) = Source(s, c, r)
      /\ On(v, c) = TRUE /\ Waits(v, c) = FALSE /\ Reason(v, c) = Reason(s, c)
      /\ Calm(v, s) /\ Steady(v, s, c)
  BY <1>3, <1>4, ClearPendingEffect
<1>6. Elsewhere(v, w, c)
  BY <1>2, <1>4, <1>5 DEF Elsewhere
<1>7. Flagged(v, c)
  <2>1. Reason(v, c) # "preparing"
    BY <1>1, <1>2, <1>4, <1>5 DEF Shifted, Kept
  <2>2. Has(v, c, "preparing") => Reason(v, c) # "none"
    BY <1>0, <1>1, <1>2, <1>4, <1>5 DEF Shifted, Kept, Has
  <2> QED
    BY <1>0, <1>2, <1>4, <1>5, <2>1, <2>2 DEF Flagged, Shifted, Has
<1>8. Begun(v, w, c)
  BY <1>0, <1>2, <1>4, <1>5 DEF Begun, Shifted, Kept, Has
<1>9. Calm(v, w) /\ Steady(v, w, c)
  BY <1>2, <1>4, <1>5, CalmTrans, SteadyTrans
<1> QED
  BY <1>5, <1>6, <1>7, <1>8, <1>9, SoundElsewhere

LEMMA OnMixingStartedSound ==
  ASSUME NEW w, Sound(w), NEW c \in Clients, NEW p \in Pipes, NEW cause, NEW v, v = OnMixingStarted(w, c, p, cause)
  PROVE  Sound(v)
<1> DEFINE u == Resumed(w, p)
<1>1. \/ v = u \/ v = w
      \/ Has(w, c, "ready") /\ v = ClearPending(SetStarted(Move(u, c, "ready", "active"), c, TRUE), c)
  <2> DEFINE x == ClearPending(SetStarted(Move(u, c, "ready", "active"), c, TRUE), c)
             fits == ~w.players[c].started /\ cause = "startedNoLoop"
  <2>1. v = CASE Source(w, c, "active") = p \/ Source(w, c, "old") = p -> u
              [] Source(w, c, "ready") = p -> IF fits THEN x ELSE w
              [] Source(w, c, "next") = p -> IF cause = "startedLoop" THEN u ELSE w
              [] OTHER -> w
    BY DEF OnMixingStarted
  <2> HIDE DEF x, u, fits
  <2>2. v = u \/ v = w \/ (Source(w, c, "ready") = p /\ v = x)
    BY <2>1
  <2>3. Source(w, c, "ready") = p => Has(w, c, "ready")
    BY DEF Has
  <2> QED
    BY <2>2, <2>3 DEF x
<1> HIDE DEF u
<1>2. Sound(u) /\ Alike(u, w, c)
  BY ResumedSound DEF u
<1>3. Has(w, c, "ready") => Has(u, c, "ready")
  BY <1>2 DEF Alike, Has, Roles
<1> QED
  BY <1>1, <1>2, <1>3, StartedSound

LEMMA OnMixingStoppedSound ==
  ASSUME NEW w, Sound(w), NEW c \in Clients, NEW p \in Pipes, NEW cause \in Causes,
         NEW v, v = OnMixingStopped(w, c, p, cause)
  PROVE  Sound(v)
<1> DEFINE pl == [w.players[c] EXCEPT !.stop_cause = cause]
           u == IF Current(w, c) = p THEN Put(w, c, pl) ELSE w
<1>1. v = Paused(u, p) \/ v = Release(u, c, "old") \/ v = u
  BY DEF OnMixingStopped, Put
<1>2. w.players[c] \in PlayerFields
  BY DEF Sound, Worlds
<1>3. /\ pl \in PlayerFields /\ pl.src = w.players[c].src /\ pl.reason = w.players[c].reason
      /\ pl.started = w.players[c].started /\ pl.start_pending = w.players[c].start_pending
  BY <1>2 DEF PlayerFields
<1> HIDE DEF pl
<1>4. Sound(u)
  <2>1. Sound(Put(w, c, pl))
    BY <1>3, QuietSound
  <2> QED
    BY <2>1
<1> HIDE DEF u
<1>5. "old" \in Roles
  BY DEF Roles
<1> QED
  BY <1>1, <1>4, <1>5, ResumedSound, ReleaseSound

-----------------------------------------------------------------------------
(* The invariant and the steps.                                            *)

EventTyped == event \in [pipe : Pipes, state : SlotStates] \cup {None}
PlayersInv == TypeOK /\ EventTyped /\ Sound(World)

\* the world after a step whose players, sources and assertions are those of w
LEMMA NextWorld ==
  ASSUME NEW w, Sound(w), TypeOK', players' = w.players, sources' = w.sources, asserts' = w.asserts,
         decoder' \in [Pipes -> DecoderStates], \A p \in Pipes : decoder'[p] \in Live => Works(w, p),
         completed' \in [Pipes -> {"no", "end", "loop"}]
  PROVE  Sound(World)'
<1> DEFINE v == World'
<1>1. /\ v.players = w.players /\ v.decoder = decoder' /\ v.sources = w.sources /\ v.asserts = w.asserts
  BY DEF World
<1>2. v \in Worlds
  BY DEF World, Worlds, TypeOK, SourceSets, Sound
<1> HIDE DEF v
<1>3. Owned(v)
  BY <1>1, <1>2, OwnedKept DEF Sound, Owned, Source, Works
<1>4. \A c \in Clients : Flagged(v, c)
  BY <1>1 DEF Sound, Flagged, Has, Source, On, Waits, Reason
<1>5. Sound(v)
  BY <1>2, <1>3, <1>4 DEF Sound
<1> QED
  BY <1>5 DEF v

\* the world before the step
LEMMA ThisWorld ==
  /\ World.players = players /\ World.decoder = decoder /\ World.sources = sources /\ World.asserts = asserts
  /\ World.completed = completed /\ World.set = requested /\ World.data_end = data_end /\ World.looping = looping
BY DEF World

\* a step that changes no player
LEMMA QuietStep ==
  ASSUME Sound(World), TypeOK', UNCHANGED <<players, sources, asserts, decoder, completed>>
  PROVE  Sound(World)'
<1>1. decoder \in [Pipes -> DecoderStates] /\ completed \in [Pipes -> {"no", "end", "loop"}]
  BY ThisWorld DEF Sound, Worlds
<1>2. \A p \in Pipes : decoder[p] \in Live => Works(World, p)
  BY ThisWorld DEF Works
<1> QED
  BY <1>1, <1>2, ThisWorld, NextWorld

\* the end of a call
LEMMA CommitStep ==
  ASSUME TypeOK, NEW w, Sound(w), Commit(w)
  PROVE  TypeOK' /\ Sound(World)'
<1>1. /\ w.set \in SourceSets /\ w.sources \subseteq Pipes /\ w.looping \subseteq Clients
      /\ w.data_end \in [Pipes -> {"none", "queued", "end", "loop"}]
      /\ w.decoder \in [Pipes -> DecoderStates] /\ w.completed \in [Pipes -> {"no", "end", "loop"}]
  BY DEF Sound, Worlds
<1>2. requested' \in SourceSets /\ request_free' \in Nat /\ request_queue' \in Seq(Items(Slots))
  BY <1>1, ApplyTyped DEF Commit
<1>3. TypeOK'
  BY <1>1, <1>2 DEF Commit, TypeOK, SourceSets, mixerVars
<1>4. \A p \in Pipes : decoder'[p] \in Live => Works(w, p)
  BY DEF Commit, Works
<1> QED
  BY <1>1, <1>3, <1>4, NextWorld DEF Commit

LEMMA CallStep ==
  ASSUME PlayersInv, scenario.calls \subseteq CallNames, scenario.clients \subseteq Clients, Call
  PROVE  PlayersInv'
<1>1. PICK call \in CallNames, c \in Clients : \E w \in Outcomes(call, World, c) : Commit(w)
  BY DEF Call
<1>2. PICK w \in Outcomes(call, World, c) : Commit(w)
  BY <1>1
<1>3. Sound(w)
  BY <1>2, OutcomesSound DEF PlayersInv
<1>4. UNCHANGED event
  BY DEF Call
<1>5. TypeOK' /\ Sound(World)'
  BY <1>2, <1>3, CommitStep DEF PlayersInv
<1> QED
  BY <1>4, <1>5 DEF PlayersInv, EventTyped

LEMMA PollPlayersStep ==
  ASSUME PlayersInv, PollPlayers
  PROVE  PlayersInv'
<1>1. UNCHANGED event
  BY DEF PollPlayers
<1>2. CASE UNCHANGED <<vars, players, decoder, completed, asserts>>
  <2>1. TypeOK'
    BY <1>2 DEF PlayersInv, TypeOK, vars, requestVars, mixerVars, pipeVars
  <2>2. UNCHANGED <<players, sources, asserts, decoder, completed>>
    BY <1>2 DEF vars, pipeVars
  <2>3. Sound(World)'
    BY <2>1, <2>2, QuietStep DEF PlayersInv
  <2> QED
    BY <1>1, <2>1, <2>3 DEF PlayersInv, EventTyped
<1>3. CASE \E w \in Polled[Len(ClientList)] : Commit(w)
  <2>1. PICK w \in Polled[Len(ClientList)] : Commit(w)
    BY <1>3
  <2>2. Sound(w)
    BY PolledSound DEF PlayersInv
  <2>3. TypeOK' /\ Sound(World)'
    BY <2>1, <2>2, CommitStep DEF PlayersInv
  <2> QED
    BY <1>1, <2>3 DEF PlayersInv, EventTyped
<1> QED
  BY <1>2, <1>3 DEF PollPlayers

LEMMA HandleEventStep ==
  ASSUME PlayersInv, HandleEvent
  PROVE  PlayersInv'
<1>1. PICK c \in Clients : Commit(Handled(World, c))
  BY DEF HandleEvent
<1>2. event.pipe \in Pipes /\ event.state \in Causes
  BY DEF HandleEvent, PlayersInv, EventTyped, Causes
<1> DEFINE w == Handled(World, c)
<1>3. Sound(w)
  BY <1>2, OnMixingStartedSound, OnMixingStoppedSound DEF PlayersInv, Handled
<1> HIDE DEF w
<1>4. TypeOK' /\ Sound(World)'
  BY <1>1, <1>3, CommitStep DEF PlayersInv, w
<1>5. event' = None
  BY DEF HandleEvent
<1> QED
  BY <1>4, <1>5 DEF PlayersInv, EventTyped

LEMMA DispatchStep ==
  ASSUME PlayersInv, NEW p \in Pipes, Dispatch(p)
  PROVE  PlayersInv'
<1>1. HandleSlot(p) /\ UNCHANGED <<players, decoder, completed, asserts, sources>>
  BY DEF Dispatch, HandleSlot
<1>2. TypeOK'
  BY <1>1, HandlerTypes DEF HandlerThread, PlayersInv
<1>3. Sound(World)'
  BY <1>1, <1>2, QuietStep DEF PlayersInv
<1>4. EventTyped'
  <2>1. item \in Items(Reports)
    BY <1>1 DEF HandleSlot, InItem, TypeOK, PlayersInv
  <2>2. item.slots[p] # None => item.slots[p].state \in SlotStates
    BY <2>1 DEF Items, Reports
  <2>3. handler' = "callback" => item.slots[p] # None
    BY <1>1 DEF HandleSlot
  <2> QED
    BY <2>2, <2>3 DEF Dispatch, EventTyped
<1> QED
  BY <1>2, <1>3, <1>4 DEF PlayersInv

LEMMA PollMixerPassStep ==
  ASSUME PlayersInv, PollMixerPass
  PROVE  PlayersInv'
<1>1. /\ PollMixer \/ PollDone \/ ReceiveItem \/ RecycleItem \/ Suspend \/ Resume
      /\ UNCHANGED <<players, decoder, completed, event, asserts>>
  BY DEF PollMixerPass
<1>2. TypeOK'
  BY <1>1, HandlerTypes DEF HandlerThread, PlayersInv
<1>3. UNCHANGED sources
  BY <1>1 DEF PollMixer, PollDone, ReceiveItem, RecycleItem, Suspend, Resume, pipeVars
<1>4. Sound(World)'
  BY <1>1, <1>2, <1>3, QuietStep DEF PlayersInv
<1> QED
  BY <1>1, <1>2, <1>4 DEF PlayersInv, EventTyped

LEMMA MixerStep ==
  ASSUME PlayersInv, MixerSteps
  PROVE  PlayersInv'
<1>1. MixerThread /\ UNCHANGED <<players, decoder, completed, event, asserts>>
  BY DEF MixerSteps, playerVars
<1>2. TypeOK'
  BY <1>1, MixerTypes DEF PlayersInv
<1>3. UNCHANGED sources
  BY <1>1 DEF MixerThread, MixerTop, MixerUnpark, MixerParkedPoll, MixerUpdateRequest, MixerUpdateRecycle,
              MixerMix, ConsumeEnds, pipeVars
<1>4. Sound(World)'
  BY <1>1, <1>2, <1>3, QuietStep DEF PlayersInv
<1> QED
  BY <1>1, <1>2, <1>4 DEF PlayersInv, EventTyped

\* the other steps of the handler thread, and the decoders
LEMMA RestStep ==
  ASSUME PlayersInv, SkipMixer \/ PollPipes \/ DropEvent \/ UNCHANGED allVars
  PROVE  PlayersInv'
<1>1. /\ UNCHANGED <<vars, players, decoder, asserts>> /\ event' \in {event, None}
      /\ completed' = completed \/ PollPipes
  BY DEF SkipMixer, PollPipes, DropEvent, allVars, playerVars
<1>2. TypeOK' /\ sources' = sources
  BY <1>1 DEF PlayersInv, TypeOK, vars, requestVars, mixerVars, pipeVars
<1>3. completed \in [Pipes -> {"no", "end", "loop"}] /\ decoder \in [Pipes -> DecoderStates]
  BY ThisWorld DEF PlayersInv, Sound, Worlds
<1>4. completed' \in [Pipes -> {"no", "end", "loop"}]
  BY <1>1, <1>3 DEF PollPipes
<1>5. \A p \in Pipes : decoder[p] \in Live => Works(World, p)
  BY ThisWorld DEF Works
<1>6. Sound(World)'
  BY <1>1, <1>2, <1>3, <1>4, <1>5, ThisWorld, NextWorld DEF PlayersInv
<1> QED
  BY <1>1, <1>2, <1>6 DEF PlayersInv, EventTyped

LEMMA DecoderStep ==
  ASSUME PlayersInv, NEW p \in Pipes, Prefetched(p) \/ SourceEnds(p)
  PROVE  PlayersInv'
<1>0. completed \in [Pipes -> {"no", "end", "loop"}] /\ decoder \in [Pipes -> DecoderStates]
  BY ThisWorld DEF PlayersInv, Sound, Worlds
<1>1. CASE Prefetched(p)
  <2>1. UNCHANGED <<vars, players, completed, event, asserts>>
    BY <1>1 DEF Prefetched
  <2>2. TypeOK' /\ sources' = sources
    BY <2>1 DEF PlayersInv, TypeOK, vars, requestVars, mixerVars, pipeVars
  <2>3. decoder' \in [Pipes -> DecoderStates]
    BY <1>0, <1>1 DEF Prefetched, DecoderStates
  <2>4. \A q \in Pipes : decoder'[q] \in Live => Works(World, q)
    BY <1>0, <1>1, ThisWorld DEF Prefetched, Works, Live
  <2>5. Sound(World)'
    BY <1>0, <2>1, <2>2, <2>3, <2>4, ThisWorld, NextWorld DEF PlayersInv
  <2> QED
    BY <2>1, <2>2, <2>5 DEF PlayersInv, EventTyped
<1>2. CASE SourceEnds(p)
  <2>1. DecoderEnds(p) /\ UNCHANGED <<players, decoder, completed, event, asserts>>
    BY <1>2 DEF SourceEnds, playerVars
  <2>2. TypeOK' /\ sources' = sources
    BY <2>1, ClientTypes DEF ClientsOfMixer, PlayersInv, DecoderEnds
  <2>3. Sound(World)'
    BY <2>1, <2>2, QuietStep DEF PlayersInv
  <2> QED
    BY <2>1, <2>2, <2>3 DEF PlayersInv, EventTyped
<1> QED
  BY <1>1, <1>2

-----------------------------------------------------------------------------
(* The theorem.                                                            *)

ScenarioKept == scenario \in Scenarios

LEMMA PlayersInit == InitPlayers => ScenarioKept /\ PlayersInv
<1> SUFFICES ASSUME InitPlayers PROVE ScenarioKept /\ PlayersInv
  OBVIOUS
<1>1. TypeOK
  BY TypeInit DEF InitPlayers
<1>2. EventTyped
  BY DEF InitPlayers, EventTyped
<1>3. /\ players = [c \in Clients |-> IdlePlayer] /\ sources = {} /\ asserts = {}
      /\ decoder = [p \in Pipes |-> "none"] /\ completed = [p \in Pipes |-> "no"]
  BY DEF InitPlayers, Init
<1>4. IdlePlayer \in PlayerFields
  BY DEF IdlePlayer, PlayerFields, Reasons, Causes
<1> DEFINE w == World
<1>5. /\ w.players = players /\ w.sources = {} /\ w.asserts = {} /\ w.decoder = decoder
  BY <1>3, ThisWorld
<1>6. w \in Worlds
  BY <1>1, <1>3, <1>4 DEF World, Worlds, TypeOK, SourceSets, DecoderStates
<1> HIDE DEF w
<1>7. \A c \in Clients, r \in Roles : Source(w, c, r) = None
  BY <1>3, <1>5 DEF Source, IdlePlayer
<1>8. Owned(w)
  BY <1>5, <1>7 DEF Owned, Has
<1>9. \A c \in Clients : Flagged(w, c)
  BY <1>3, <1>5, <1>7 DEF Flagged, Has, Roles, Waits, Reason, IdlePlayer
<1>10. Sound(World)
  BY <1>6, <1>8, <1>9 DEF Sound, w
<1> QED
  BY <1>1, <1>2, <1>10 DEF PlayersInv, ScenarioKept, InitPlayers

LEMMA PlayersStep == ScenarioKept /\ PlayersInv /\ [NextPlayers]_allVars => ScenarioKept' /\ PlayersInv'
<1> SUFFICES ASSUME ScenarioKept, PlayersInv, [NextPlayers]_allVars PROVE ScenarioKept' /\ PlayersInv'
  OBVIOUS
<1>1. scenario.calls \subseteq CallNames /\ scenario.clients \subseteq Clients
  BY ScenariosAssumption DEF ScenarioKept, ScenarioRecords
<1>2. UNCHANGED scenario
  BY DEF NextPlayers, HandlerSteps, Call, PollPlayers, SkipMixer, PollPipes, HandleEvent, DropEvent, Dispatch,
         PollMixerPass, MixerSteps, Prefetched, SourceEnds, allVars, playerVars
<1>3. PlayersInv'
  BY <1>1, CallStep, PollPlayersStep, HandleEventStep, DispatchStep, PollMixerPassStep, MixerStep, RestStep,
     DecoderStep DEF NextPlayers, HandlerSteps
<1> QED
  BY <1>2, <1>3 DEF ScenarioKept

LEMMA OwnedSuffices == PlayersInv => SourcesOwned
<1> SUFFICES ASSUME PlayersInv PROVE SourcesOwned
  OBVIOUS
<1> DEFINE w == World
<1>1. /\ \A c \in Clients, r \in Roles : players[c].src[r] = Source(w, c, r)
      /\ \A p \in Pipes : Works(w, p) <=> p \in LiveDecoders
      /\ w.sources = sources /\ w.asserts = asserts
  BY ThisWorld DEF Source, Works, Live, LiveDecoders
<1>2. Sound(w)
  BY DEF PlayersInv
<1> HIDE DEF w
<1>3. \A c \in Clients : SourcesOf(c) = {Source(w, c, r) : r \in Roles} \ {None}
  BY <1>1 DEF SourcesOf
<1>4. \A c \in Clients, r \in Roles : Source(w, c, r) \in Pipes \cup {None}
  BY <1>2, SourceTyped DEF Sound
<1>5. NoAssertFails
  BY <1>1, <1>2 DEF NoAssertFails, Sound, Owned
<1>6. sources = UNION {SourcesOf(c) : c \in Clients}
  <2>1. sources \subseteq Pipes
    BY <1>1, <1>2 DEF Sound, Worlds
  <2>2. \A p \in Pipes : p \in sources <=> \E c \in Clients, r \in Roles : Source(w, c, r) = p
    BY <1>1, <1>2 DEF Sound, Owned
  <2>3. UNION {SourcesOf(c) : c \in Clients} \subseteq Pipes
    BY <1>3, <1>4
  <2>4. \A p \in Pipes : p \in UNION {SourcesOf(c) : c \in Clients} <=> \E c \in Clients, r \in Roles : Source(w, c, r) = p
    BY <1>3
  <2> QED
    BY <2>1, <2>2, <2>3, <2>4
<1>7. \A c \in Clients, r \in Roles : players[c].src[r] # None =>
        \A d \in Clients, s \in Roles : players[d].src[s] = players[c].src[r] => c = d /\ r = s
  BY <1>1, <1>2 DEF Sound, Owned
<1>8. ASSUME NEW c \in Clients PROVE Cardinality(SourcesOf(c) \cap LiveDecoders) <= 1
  <2> DEFINE S == SourcesOf(c) \cap LiveDecoders
  <2>1. \A p, q \in S : p = q
    <3>1. ASSUME NEW p \in S, NEW q \in S PROVE p = q
      <4>1. PICK r \in Roles : p = Source(w, c, r) /\ p # None
        BY <1>3
      <4>2. PICK s \in Roles : q = Source(w, c, s) /\ q # None
        BY <1>3
      <4>3. Works(w, p) /\ Works(w, q)
        BY <1>1 DEF LiveDecoders
      <4> QED
        BY <1>2, <4>1, <4>2, <4>3 DEF Sound, Owned, Has
    <3> QED
      BY <3>1
  <2> HIDE DEF S
  <2>2. CASE S = {}
    BY <2>2, FS_EmptySet DEF S
  <2>3. CASE S # {}
    <3>1. PICK p \in S : TRUE
      BY <2>3
    <3>2. S = {p}
      BY <2>1
    <3>3. Cardinality(S) = 1
      BY <3>2, FS_Singleton
    <3> QED
      BY <3>3 DEF S
  <2> QED
    BY <2>2, <2>3
<1> QED
  BY <1>5, <1>6, <1>7, <1>8 DEF SourcesOwned

\* Whatever the applications ask for and whatever fails on the way, no assertion of checkedMoveAudioSource()
\* fails, every live source is held by one player in one role, and of a player's sources at most one has a
\* decoder at work (AudioPlayer.cpp: the five source pointers of a player).
THEOREM SourcesOwnedHolds == PlayerSpec => []SourcesOwned
BY PlayersInit, PlayersStep, OwnedSuffices, PTL DEF PlayerSpec

-----------------------------------------------------------------------------
(* What a player has to play.  Supplied holds whatever fails, as long as   *)
(* nobody seeks; Promised holds as long as nothing fails.                  *)

Playable == {"active", "ready", "next"}
Playing == {"paused", "playing"}
Unready == {"preparing", "prefetched"}

\* the data of a source is still being produced, or its end is on its way
Fed(w, p) == w.decoder[p] \in Playing \/ w.data_end[p] # "none"

Supplied(w, c) ==
  /\ ~Seeks(w, c) /\ Reason(w, c) # "seeking"
  /\ \A r \in Playable : Has(w, c, r) => Fed(w, Source(w, c, r))

Faultless(w) ==
  /\ ~scenario.preparation_fails /\ ~scenario.creation_fails /\ "no pipe" \notin w.asserts
  /\ NoSeeks \/ NoLoops

\* a started player has a source to play, or gets one; so does a start that waits
ToPlay(w, c) ==
  On(w, c) =>
    /\ ~Has(w, c, "ready")
    /\ Has(w, c, "active") \/ (NoSeeks /\ Has(w, c, "preparing") /\ Reason(w, c) = "rewinding")
ToStart(w, c) ==
  Waits(w, c) => Seeks(w, c) \/ Has(w, c, "ready") \/ Has(w, c, "next") \/ Has(w, c, "preparing")

\* nobody has called a player whose first source is being prepared; only a loop point ends in a loop
Promised(w, c) ==
  /\ "null active_source_" \notin w.asserts
  /\ Reason(w, c) = "preparing" => ~On(w, c) /\ ~Waits(w, c) /\ ~Seeks(w, c) /\ ~Prepared(w, c)
  /\ ToPlay(w, c) /\ ToStart(w, c)
  /\ Cause(w, c) = "stoppedEndLoop" => NoSeeks
Prepares(w, c) == Has(w, c, "preparing") => w.decoder[Source(w, c, "preparing")] \in Unready

ServedAt(w, c) ==
  /\ NoSeeks => Supplied(w, c)
  /\ Faultless(w) => Promised(w, c) /\ Prepares(w, c)

\* no player loops, and no source is asked to go on from its end
Unlooped(w) == w.looping = {} /\ \A p \in Pipes : w.data_end[p] # "loop"
Served(w) ==
  /\ \A c \in Clients : ServedAt(w, c)
  /\ NoLoops => Unlooped(w)
  /\ Faultless(w) => "null active_source_" \notin w.asserts

\* a source is prepared, played and ended as before
Survives(v, w, p) ==
  /\ w.decoder[p] \in Playing => v.decoder[p] \in Playing
  /\ w.decoder[p] \in Unready => v.decoder[p] \in Unready
  /\ w.data_end[p] # "none" => v.data_end[p] # "none"
Spared(v, w, c) == \A d \in Clients \ {c}, r \in Roles : Has(w, d, r) => Survives(v, w, Source(w, d, r))

LEMMA CalmSpares ==
  ASSUME NEW w, NEW v, Sound(v), NEW c, Elsewhere(v, w, c), Calm(v, w)
  PROVE  Spared(v, w, c) /\ w.asserts \subseteq v.asserts /\ (Unlooped(w) => Unlooped(v))
<1>1. ASSUME NEW d \in Clients \ {c}, NEW r \in Roles, Has(w, d, r) PROVE Survives(v, w, Source(w, d, r))
  <2>1. Source(v, d, r) = Source(w, d, r) /\ Has(v, d, r)
    BY <1>1 DEF Elsewhere, Source, Has
  <2>2. Source(v, d, r) \in Pipes
    BY <2>1, SourceTyped DEF Sound, Has
  <2>3. Source(v, d, r) \in v.sources
    BY <2>2 DEF Sound, Owned
  <2> QED
    BY <2>1, <2>3 DEF Calm, Survives
<1> QED
  BY <1>1 DEF Spared, Calm, Unlooped

\* A player whose fields are as they were, and whose sources survive, is served as it was.
LEMMA ServedAtAlike ==
  ASSUME NEW w, NEW v, NEW d, ServedAt(w, d), v.players[d] = w.players[d],
         \A r \in Roles : Has(w, d, r) => Survives(v, w, Source(w, d, r)),
         w.asserts \subseteq v.asserts, Faultless(v) => "null active_source_" \notin v.asserts
  PROVE  ServedAt(v, d)
<1>1. /\ \A r \in Roles : Source(v, d, r) = Source(w, d, r)
      /\ On(v, d) = On(w, d) /\ Waits(v, d) = Waits(w, d) /\ Reason(v, d) = Reason(w, d)
      /\ Seeks(v, d) = Seeks(w, d) /\ Prepared(v, d) = Prepared(w, d) /\ Cause(v, d) = Cause(w, d)
  BY DEF Source, On, Waits, Reason, Seeks, Prepared, Cause
<1>2. \A r \in Playable \cup {"preparing"} : r \in Roles
  BY DEF Playable, Roles
<1>3. NoSeeks => Supplied(v, d)
  BY <1>1, <1>2 DEF ServedAt, Supplied, Has, Fed, Survives
<1>4. Faultless(v) => Faultless(w)
  BY DEF Faultless
<1>5. Faultless(v) => Promised(v, d)
  BY <1>1, <1>4 DEF ServedAt, Promised, ToPlay, ToStart, Has, Roles
<1>6. Faultless(v) => Prepares(v, d)
  BY <1>1, <1>2, <1>4 DEF ServedAt, Prepares, Has, Survives
<1> QED
  BY <1>3, <1>5, <1>6 DEF ServedAt

\* what a step of one player leaves to the others
LEMMA ServedElsewhere ==
  ASSUME NEW w, NEW v, NEW c \in Clients, \A d \in Clients \ {c} : ServedAt(w, d), Elsewhere(v, w, c),
         Spared(v, w, c), w.asserts \subseteq v.asserts, ServedAt(v, c), NoLoops => Unlooped(v)
  PROVE  Served(v)
<1>1. Faultless(v) => "null active_source_" \notin v.asserts
  BY DEF ServedAt, Promised
<1>2. ASSUME NEW d \in Clients \ {c} PROVE ServedAt(v, d)
  BY <1>1, <1>2, ServedAtAlike DEF Elsewhere, Spared
<1> QED
  BY <1>1, <1>2 DEF Served

LEMMA CalmOthers ==
  ASSUME NEW w, Served(w), NEW v, Sound(v), NEW c \in Clients, Elsewhere(v, w, c), Calm(v, w)
  PROVE  (\A d \in Clients \ {c} : ServedAt(v, d)) /\ (NoLoops => Unlooped(v))
<1>1. ASSUME NEW d \in Clients \ {c} PROVE ServedAt(v, d)
  <2>1. Spared(v, w, c) /\ w.asserts \subseteq v.asserts
    BY CalmSpares
  <2>2. ServedAt(w, d) /\ v.players[d] = w.players[d]
    BY DEF Served, Elsewhere
  <2>3. Faultless(v) => "null active_source_" \notin v.asserts
    BY <2>2 DEF ServedAt, Promised, Calm, Faultless
  <2> QED
    BY <2>1, <2>2, <2>3, ServedAtAlike DEF Spared
<1> QED
  BY <1>1, CalmSpares DEF Served

\* what is played was to be played, and what is prepared was being prepared
Rearranged(v, w, c) ==
  /\ \A r \in Playable : Has(v, c, r) => \E s \in Playable : Source(v, c, r) = Source(w, c, s)
  /\ Has(v, c, "preparing") => Source(v, c, "preparing") = Source(w, c, "preparing")
  /\ Reason(v, c) \in {Reason(w, c), "none"}

LEMMA CalmServed ==
  ASSUME NEW w, Served(w), NEW v, Sound(v), NEW c \in Clients, Elsewhere(v, w, c), Calm(v, w), Steady(v, w, c),
         Rearranged(v, w, c),
         Faultless(w) =>
           /\ Reason(v, c) = "preparing" => (On(v, c) => On(w, c)) /\ (Waits(v, c) => Waits(w, c))
           /\ ToPlay(v, c) /\ ToStart(v, c)
  PROVE  Served(v)
<1>0. "preparing" \in Roles /\ \A r \in Playable : r \in Roles
  BY DEF Playable, Roles
<1>1. \A r \in Roles : Has(v, c, r) => Source(v, c, r) \in v.sources
  BY SourceTyped DEF Sound, Owned, Has
<1>2. Faultless(v) = Faultless(w) /\ v.asserts = w.asserts
  BY DEF Faultless, Calm
<1>3. NoSeeks => Supplied(v, c)
  <2> SUFFICES ASSUME NoSeeks PROVE Supplied(v, c)
    OBVIOUS
  <2>1. Supplied(w, c)
    BY DEF Served, ServedAt
  <2>2. ASSUME NEW r \in Playable, Has(v, c, r) PROVE Fed(v, Source(v, c, r))
    <3>1. PICK s \in Playable : Source(v, c, r) = Source(w, c, s)
      BY <2>2 DEF Rearranged
    <3>2. Fed(w, Source(w, c, s))
      BY <2>1, <2>2, <3>1 DEF Supplied, Has
    <3>3. Source(v, c, r) \in v.sources
      BY <1>0, <1>1, <2>2
    <3> QED
      BY <3>1, <3>2, <3>3 DEF Calm, Fed
  <2> QED
    BY <2>1, <2>2 DEF Supplied, Rearranged, Steady
<1>4. Faultless(w) => Promised(v, c)
  BY <1>2 DEF Served, ServedAt, Promised, Rearranged, Steady
<1>5. Faultless(w) => Prepares(v, c)
  <2> SUFFICES ASSUME Faultless(w), Has(v, c, "preparing")
               PROVE  v.decoder[Source(v, c, "preparing")] \in Unready
    BY DEF Prepares
  <2>1. Source(v, c, "preparing") = Source(w, c, "preparing") /\ Source(v, c, "preparing") \in v.sources
    BY <1>0, <1>1 DEF Rearranged
  <2>2. w.decoder[Source(w, c, "preparing")] \in Unready
    BY <2>1 DEF Served, ServedAt, Prepares, Has
  <2> QED
    BY <2>1, <2>2 DEF Calm
<1>6. ServedAt(v, c)
  BY <1>2, <1>3, <1>4, <1>5 DEF ServedAt
<1>7. Spared(v, w, c) /\ w.asserts \subseteq v.asserts /\ (NoLoops => Unlooped(v))
  BY CalmSpares DEF Served
<1> QED
  BY <1>6, <1>7, ServedElsewhere DEF Served

\* A player that has no source and is asked for nothing lacks nothing.
LEMMA EmptyServed ==
  ASSUME NEW w, Served(w), NEW v, Sound(v), NEW c \in Clients, Elsewhere(v, w, c), Calm(v, w),
         Cause(v, c) = Cause(w, c), \A r \in Roles : ~Has(v, c, r), Reason(v, c) = "none",
         ~On(v, c), ~Waits(v, c), ~Seeks(v, c)
  PROVE  Served(v)
<1>1. Faultless(v) = Faultless(w) /\ v.asserts = w.asserts
  BY DEF Faultless, Calm
<1>2. \A r \in Playable \cup {"preparing"} : r \in Roles
  BY DEF Playable, Roles
<1>3. Supplied(v, c)
  BY <1>2 DEF Supplied
<1>4. Faultless(w) => Promised(v, c)
  BY <1>1 DEF Served, ServedAt, Promised, ToPlay, ToStart
<1>5. Prepares(v, c)
  BY <1>2 DEF Prepares
<1>6. Spared(v, w, c) /\ w.asserts \subseteq v.asserts /\ (NoLoops => Unlooped(v))
  BY CalmSpares DEF Served
<1> QED
  BY <1>1, <1>3, <1>4, <1>5, <1>6, ServedElsewhere DEF ServedAt, Served

\* What a player needs before a source is created for it: the decoders stop, so what it plays must have ended.
LEMMA CreationsServed ==
  ASSUME NEW w, Sound(w), NEW c \in Clients, \A d \in Clients \ {c} : ServedAt(w, d), NoLoops => Unlooped(w),
         ~Has(w, c, "preparing"), NEW reason \in Reasons \ {"none"},
         reason = "preparing" => ~Has(w, c, "active") /\ ~Has(w, c, "ready") /\ ~Has(w, c, "next"),
         NoSeeks => reason # "seeking" /\ ~Seeks(w, c)
                    /\ \A r \in Playable : Has(w, c, r) => w.data_end[Source(w, c, r)] # "none",
         Faultless(w) =>
           /\ "null active_source_" \notin w.asserts /\ (Cause(w, c) = "stoppedEndLoop" => NoSeeks)
           /\ reason = "preparing" => ~On(w, c) /\ ~Waits(w, c) /\ ~Seeks(w, c) /\ ~Prepared(w, c)
           /\ On(w, c) => ~Has(w, c, "ready") /\ (Has(w, c, "active") \/ (NoSeeks /\ reason = "rewinding")),
         NEW v \in Creations(w, c, reason)
  PROVE  Sound(v) /\ Served(v) /\ Recreated(v, w, c, reason)
<1>0. "preparing" \in Roles /\ \A r \in Playable : r \in Roles \ {"preparing"}
  BY DEF Playable, Roles
<1>1. Sound(v) /\ Recreated(v, w, c, reason)
  BY CreationsSound
<1>2. /\ Elsewhere(v, w, c) /\ Steady(v, w, c) /\ v.data_end = w.data_end
      /\ \A r \in Roles \ {"preparing"} : Source(v, c, r) = Source(w, c, r)
      /\ On(v, c) = On(w, c) /\ Waits(v, c) = Waits(w, c) /\ Reason(v, c) \in {reason, "none"}
      /\ Has(v, c, "preparing") => Reason(v, c) = reason /\ v.decoder[Source(v, c, "preparing")] = "preparing"
      /\ v.asserts = w.asserts \/ v.asserts = w.asserts \cup {"no pipe"}
      /\ ~Has(v, c, "preparing") => scenario.creation_fails \/ "no pipe" \in v.asserts
  BY <1>1 DEF Recreated
<1>3. Faultless(v) => Faultless(w) /\ Has(v, c, "preparing") /\ Reason(v, c) = reason
  BY <1>2 DEF Faultless
<1>4. Spared(v, w, c)
  BY <1>1 DEF Spared, Survives, Recreated
<1>5. NoSeeks => Supplied(v, c)
  BY <1>0, <1>2 DEF Supplied, Has, Fed, Steady
<1>6. Faultless(v) => ToPlay(v, c) /\ ToStart(v, c)
  BY <1>0, <1>2, <1>3 DEF ToPlay, ToStart, Has, Roles
<1>7. Faultless(v) => Promised(v, c) /\ Prepares(v, c)
  <2> SUFFICES ASSUME Faultless(v) PROVE Promised(v, c) /\ Prepares(v, c)
    OBVIOUS
  <2>1. "null active_source_" \notin v.asserts
    <3>1. "null active_source_" \notin w.asserts
      BY <1>3
    <3>2. v.asserts = w.asserts \/ v.asserts = w.asserts \cup {"no pipe"}
      BY <1>2
    <3>3. CASE v.asserts = w.asserts
      BY <3>1, <3>3
    <3>4. CASE v.asserts = w.asserts \cup {"no pipe"}
      BY <3>1, <3>4
    <3> QED
      BY <3>2, <3>3, <3>4
  <2>2. reason = "preparing" => ~On(v, c) /\ ~Waits(v, c) /\ ~Seeks(v, c) /\ ~Prepared(v, c)
    BY <1>2, <1>3 DEF Steady
  <2>3. Cause(v, c) = "stoppedEndLoop" => NoSeeks
    BY <1>2, <1>3 DEF Steady
  <2> QED
    BY <1>2, <1>3, <1>6, <2>1, <2>2, <2>3 DEF Promised, Prepares, Unready
<1>8. w.asserts \subseteq v.asserts /\ (NoLoops => Unlooped(v))
  BY <1>1 DEF Recreated, Unlooped
<1> QED
  BY <1>1, <1>2, <1>4, <1>5, <1>7, <1>8, ServedElsewhere DEF ServedAt

\* fields that nothing here speaks of
LEMMA AlikeServed ==
  ASSUME NEW w, Served(w), NEW v, Sound(v), NEW c \in Clients, Elsewhere(v, w, c), Calm(v, w), Steady(v, w, c),
         Alike(v, w, c)
  PROVE  Served(v)
<1>0. "preparing" \in Roles /\ \A r \in Playable : r \in Roles
  BY DEF Playable, Roles
<1>1. Rearranged(v, w, c)
  BY <1>0 DEF Rearranged, Alike, Kept
<1>2. Faultless(w) => ToPlay(v, c) /\ ToStart(v, c)
  <2>1. Faultless(w) => ToPlay(w, c) /\ ToStart(w, c)
    BY DEF Served, ServedAt, Promised
  <2> QED
    BY <2>1 DEF Alike, Kept, ToPlay, ToStart, Steady, Has, Roles
<1> QED
  BY <1>1, <1>2, CalmServed DEF Alike

\* the ready source is started
LEMMA BegunServed ==
  ASSUME NEW w, Served(w), NEW v, Sound(v), NEW c \in Clients, Elsewhere(v, w, c), Calm(v, w), Steady(v, w, c),
         Begun(v, w, c), Has(w, c, "ready"), Reason(w, c) # "preparing"
  PROVE  Served(v)
<1>1. Rearranged(v, w, c)
  BY DEF Rearranged, Begun, Kept, Playable, Roles, Has
<1>2. ToPlay(v, c) /\ ToStart(v, c)
  BY DEF ToPlay, ToStart, Begun, Roles, Has
<1>3. Reason(v, c) # "preparing"
  BY DEF Begun, Kept
<1> QED
  BY <1>1, <1>2, <1>3, CalmServed

\* the active source is paused
LEMMA HaltedServed ==
  ASSUME NEW w, Served(w), NEW v, Sound(v), NEW c \in Clients, Elsewhere(v, w, c), Calm(v, w), Steady(v, w, c),
         Halted(v, w, c)
  PROVE  Served(v)
<1>1. Rearranged(v, w, c)
  BY DEF Rearranged, Halted, Kept, Playable, Roles, Has
<1>2. ToPlay(v, c) /\ ToStart(v, c)
  BY DEF ToPlay, ToStart, Halted
<1> QED
  BY <1>1, <1>2, CalmServed DEF Halted

LEMMA StartReadyServed ==
  ASSUME NEW w, Sound(w), Served(w), NEW c \in Clients, Has(w, c, "ready"), NEW v, v = StartReady(w, c)
  PROVE  Sound(v) /\ Served(v)
<1>1. Sound(v) /\ Elsewhere(v, w, c) /\ Begun(v, w, c) /\ Calm(v, w) /\ Steady(v, w, c)
  BY StartReadySound
<1>2. Reason(w, c) # "preparing"
  BY DEF Sound, Flagged
<1> QED
  BY <1>1, <1>2, BegunServed

LEMMA ClearPendingServed ==
  ASSUME NEW w, Sound(w), Served(w), NEW c \in Clients, NEW v, v = ClearPending(w, c)
  PROVE  Sound(v) /\ Served(v)
<1>1. /\ Sound(v) /\ Elsewhere(v, w, c) /\ Calm(v, w) /\ Steady(v, w, c)
      /\ \A r \in Roles : Source(v, c, r) = Source(w, c, r)
      /\ On(v, c) = On(w, c) /\ ~Waits(v, c) /\ Reason(v, c) = Reason(w, c)
  BY ClearPendingSound
<1>2. Rearranged(v, w, c)
  BY <1>1 DEF Rearranged, Playable, Roles
<1>3. Faultless(w) => ToPlay(v, c) /\ ToStart(v, c)
  <2>1. Faultless(w) => ToPlay(w, c)
    BY DEF Served, ServedAt, Promised
  <2> QED
    BY <1>1, <2>1 DEF ToPlay, ToStart, Has, Roles
<1> QED
  BY <1>1, <1>2, <1>3, CalmServed

-----------------------------------------------------------------------------
(* The calls, of what there is to play.                                    *)

\* a step that changes no player
LEMMA SurvivesServed ==
  ASSUME NEW w, Served(w), NEW v, v.players = w.players, v.asserts = w.asserts,
         \A d \in Clients, r \in Roles : Has(w, d, r) => Survives(v, w, Source(w, d, r)),
         NoLoops => Unlooped(v)
  PROVE  Served(v)
<1>1. ASSUME NEW d \in Clients PROVE ServedAt(v, d)
  <2>1. ServedAt(w, d) /\ v.players[d] = w.players[d]
    BY DEF Served
  <2>2. Faultless(v) => "null active_source_" \notin v.asserts
    BY <2>1 DEF ServedAt, Promised, Faultless
  <2> QED
    BY <2>1, <2>2, ServedAtAlike
<1>2. Faultless(v) => "null active_source_" \notin v.asserts
  BY DEF Served, Faultless
<1> QED
  BY <1>1, <1>2 DEF Served

LEMMA StopServed ==
  ASSUME NEW w, Sound(w), Served(w), NEW c \in Clients, NEW v, v = Stop(w, c)
  PROVE  Sound(v) /\ Served(v)
<1>1. /\ Sound(v) /\ Elsewhere(v, w, c) /\ Calm(v, w) /\ \A r \in Roles : ~Has(v, c, r)
      /\ ~On(v, c) /\ ~Waits(v, c) /\ ~Seeks(v, c) /\ ~Prepared(v, c) /\ Reason(v, c) = "none"
      /\ Cause(v, c) = Cause(w, c)
  BY StopSound
<1> QED
  BY <1>1, EmptyServed

LEMMA PrepareServed ==
  ASSUME NEW w, Sound(w), Served(w), NEW c \in Clients, NEW v \in Prepare(w, c)
  PROVE  Sound(v) /\ Served(v)
<1> DEFINE u == Stop(w, c)
<1>1. /\ \A r \in Roles : ~Has(u, c, r)
      /\ ~On(u, c) /\ ~Waits(u, c) /\ ~Seeks(u, c) /\ ~Prepared(u, c)
  BY StopSound
<1>2. Sound(u) /\ Served(u)
  BY StopServed
<1>3. v \in Creations(u, c, "preparing") /\ "preparing" \in Reasons \ {"none"}
  BY DEF Prepare, Reasons
<1> HIDE DEF u
<1>4. /\ ~Has(u, c, "preparing") /\ ~Has(u, c, "active") /\ ~Has(u, c, "ready") /\ ~Has(u, c, "next")
      /\ \A r \in Playable : ~Has(u, c, r)
  BY <1>1 DEF Roles, Playable
<1>5. Faultless(u) => "null active_source_" \notin u.asserts /\ (Cause(u, c) = "stoppedEndLoop" => NoSeeks)
  BY <1>2 DEF Served, ServedAt, Promised
<1>6. (\A d \in Clients \ {c} : ServedAt(u, d)) /\ (NoLoops => Unlooped(u))
  BY <1>2 DEF Served
<1> QED
  BY <1>1, <1>2, <1>3, <1>4, <1>5, <1>6, CreationsServed

LEMMA StartServed ==
  ASSUME NEW w, Sound(w), Served(w), NEW c \in Clients, NEW v \in Start(w, c)
  PROVE  Sound(v) /\ Served(v)
<1> DEFINE u == [w EXCEPT !.players[c].start_pending = TRUE]
           pl == [w.players[c] EXCEPT !.start_pending = TRUE]
<1>1. ~On(w, c) /\ Prepared(w, c)
  BY DEF Start, On, Prepared
<1>2. w.players[c] \in PlayerFields
  BY DEF Sound, Worlds
<1>3. /\ pl \in PlayerFields /\ pl.src = w.players[c].src /\ pl.reason = w.players[c].reason
      /\ pl.started = w.players[c].started /\ pl.start_pending = TRUE
      /\ pl.seek_pending = w.players[c].seek_pending /\ pl.prepared = w.players[c].prepared
      /\ pl.stop_cause = w.players[c].stop_cause
  BY <1>2 DEF PlayerFields
<1>4. u = Put(w, c, pl)
  BY DEF Put
<1>5. \/ Has(w, c, "ready") /\ v = StartReady(w, c)
      \/ (Has(w, c, "next") \/ Has(w, c, "preparing")) /\ v = u
      \/ ~Has(w, c, "ready") /\ ~Has(w, c, "next") /\ ~Has(w, c, "preparing") /\ v \in Creations(u, c, "rewinding")
  BY DEF Start
<1> HIDE DEF u, pl
<1>6. /\ u \in Worlds /\ Owned(u) /\ Elsewhere(u, w, c)
      /\ \A r \in Roles : Source(u, c, r) = Source(w, c, r)
      /\ On(u, c) = pl.started /\ Reason(u, c) = pl.reason /\ Waits(u, c) = pl.start_pending
      /\ Calm(u, w) /\ Seeks(u, c) = pl.seek_pending /\ Prepared(u, c) = pl.prepared /\ Cause(u, c) = pl.stop_cause
  BY <1>3, <1>4, NeutralFields DEF Sound
<1>6a. On(u, c) = On(w, c) /\ Reason(u, c) = Reason(w, c) /\ Steady(u, w, c)
  BY <1>3, <1>6 DEF On, Reason, Steady, Seeks, Prepared, Cause
<1>7. Flagged(u, c)
  BY <1>1, <1>6, <1>6a DEF Flagged, Sound, Has, Roles
<1>8. Sound(u)
  BY <1>6, <1>7, SoundElsewhere
<1>9. ASSUME Has(w, c, "next") \/ Has(w, c, "preparing") PROVE Served(u)
  <2>1. Rearranged(u, w, c)
    BY <1>6, <1>6a DEF Rearranged, Playable, Roles
  <2>2. ToPlay(u, c) /\ ToStart(u, c)
    BY <1>1, <1>6, <1>6a, <1>9 DEF ToPlay, ToStart, Has, Roles
  <2>3. Faultless(w) => Reason(u, c) # "preparing"
    BY <1>1, <1>6a DEF Served, ServedAt, Promised
  <2> QED
    BY <1>6, <1>6a, <1>8, <2>1, <2>2, <2>3, CalmServed
<1>10. ASSUME ~Has(w, c, "ready"), ~Has(w, c, "next"), ~Has(w, c, "preparing"), v \in Creations(u, c, "rewinding")
       PROVE  Sound(v) /\ Served(v)
  <2>1. ~Has(u, c, "preparing") /\ "rewinding" \in Reasons \ {"none"} /\ "rewinding" \notin {"preparing", "seeking"}
    BY <1>6, <1>10 DEF Has, Roles, Reasons
  <2>2. ~Has(w, c, "active")
    BY <1>1 DEF Sound, Flagged
  <2>3. \A r \in Playable : ~Has(u, c, r)
    BY <1>6, <1>10, <2>2 DEF Has, Roles, Playable
  <2>4. NoSeeks => ~Seeks(u, c)
    BY <1>6a DEF Served, ServedAt, Supplied, Steady
  <2>5. Faultless(u) => "null active_source_" \notin u.asserts /\ (Cause(u, c) = "stoppedEndLoop" => NoSeeks)
    BY <1>6, <1>6a DEF Served, ServedAt, Promised, Steady, Faultless, Calm
  <2>6. (\A d \in Clients \ {c} : ServedAt(u, d)) /\ (NoLoops => Unlooped(u))
    BY <1>6, <1>8, CalmOthers
  <2>7. ~On(u, c)
    BY <1>1, <1>6a
  <2> QED
    BY <1>8, <1>10, <2>1, <2>3, <2>4, <2>5, <2>6, <2>7, CreationsServed
<1> QED
  BY <1>5, <1>8, <1>9, <1>10, StartReadyServed

LEMMA PauseServed ==
  ASSUME NEW w, Sound(w), Served(w), NEW c \in Clients, NEW v \in Pause(w, c)
  PROVE  Sound(v) /\ Served(v)
<1> DEFINE p == Source(w, c, "active")
           args == Args!ActiveFadeOutParams(c)
           u == Update(w, p, args)
<1>0. "active" \in Roles /\ w \in Worlds
  BY DEF Roles, Sound
<1>1. \/ Has(w, c, "active") /\ v = ClearPending(SetStarted(Move(u, c, "active", "ready"), c, FALSE), c)
      \/ v = ClearPending(w, c)
  BY DEF Pause, Source
<1>2. args \in Slots
  BY <1>0, FadeInTyped
<1>3. ASSUME Has(w, c, "active"), v = ClearPending(SetStarted(Move(u, c, "active", "ready"), c, FALSE), c)
      PROVE  Sound(v) /\ Served(v)
  <2>1. p \in Pipes
    BY <1>0, <1>3, SourceTyped DEF Has
  <2> HIDE DEF args, p
  <2>2. Sound(u) /\ Alike(u, w, c) /\ Elsewhere(u, w, c) /\ Calm(u, w) /\ Steady(u, w, c)
    BY <1>2, <2>1, UpdateSound
  <2> HIDE DEF u
  <2>3. Has(u, c, "active")
    BY <1>0, <1>3, <2>2 DEF Alike, Has
  <2>4. Served(u)
    BY <2>2, AlikeServed
  <2>5. Sound(v) /\ Elsewhere(v, u, c) /\ Halted(v, u, c) /\ Calm(v, u) /\ Steady(v, u, c)
    BY <1>3, <2>2, <2>3, PausedSound
  <2> QED
    BY <2>4, <2>5, HaltedServed
<1> QED
  BY <1>1, <1>3, ClearPendingServed

LEMMA SeekNowServed ==
  ASSUME NEW w, Sound(w), Served(w), ~NoSeeks, NEW c \in Clients, NEW v \in SeekNow(w, c)
  PROVE  Sound(v) /\ Served(v)
<1> DEFINE u == Release(w, c, "preparing")
           t == [u EXCEPT !.players[c].seek_pending = FALSE]
           pl == [u.players[c] EXCEPT !.seek_pending = FALSE]
<1>0. "preparing" \in Roles /\ "seeking" \in Reasons \ {"none"}
  BY DEF Roles, Reasons
<1>1. PICK x \in Creations(t, c, "seeking") : v = [x EXCEPT !.players[c].sought = @ \/ Has(x, c, "preparing")]
  BY DEF SeekNow
<1>2. /\ Sound(u) /\ Emptied(u, w, c, "preparing") /\ Elsewhere(u, w, c) /\ Calm(u, w) /\ Steady(u, w, c)
      /\ Reason(u, c) = "none"
  BY <1>0, ReleaseSound
<1>3. t = Put(u, c, pl)
  BY DEF Put
<1> HIDE DEF u
<1>4. u.players[c] \in PlayerFields
  BY <1>2 DEF Sound, Worlds
<1>5. /\ pl \in PlayerFields /\ pl.src = u.players[c].src /\ pl.reason = u.players[c].reason
      /\ pl.started = u.players[c].started /\ pl.start_pending = u.players[c].start_pending
      /\ pl.stop_cause = u.players[c].stop_cause
  BY <1>4 DEF PlayerFields
<1> HIDE DEF pl, t
<1>6. Sound(t) /\ Alike(t, u, c) /\ Elsewhere(t, u, c) /\ Calm(t, u) /\ Cause(t, c) = pl.stop_cause
  BY <1>2, <1>3, <1>5, QuietSound
<1>7. ~Has(t, c, "preparing")
  BY <1>0, <1>2, <1>6 DEF Alike, Emptied, Has
<1>8. (\A d \in Clients \ {c} : ServedAt(t, d)) /\ (NoLoops => Unlooped(t))
  <2>1. Elsewhere(t, w, c) /\ Calm(t, w)
    BY <1>2, <1>6, ElsewhereTrans, CalmTrans
  <2> QED
    BY <1>6, <2>1, CalmOthers
<1>9. Faultless(t) => /\ "null active_source_" \notin t.asserts /\ Cause(t, c) # "stoppedEndLoop"
                      /\ On(t, c) => Has(t, c, "active") /\ ~Has(t, c, "ready")
  <2> SUFFICES ASSUME Faultless(t)
               PROVE  /\ "null active_source_" \notin t.asserts /\ Cause(t, c) # "stoppedEndLoop"
                      /\ On(t, c) => Has(t, c, "active") /\ ~Has(t, c, "ready")
    OBVIOUS
  <2>1. Faultless(w) /\ t.asserts = w.asserts
    BY <1>2, <1>6 DEF Faultless, Calm
  <2>2. Promised(w, c)
    BY <2>1 DEF Served, ServedAt
  <2>3. /\ Cause(t, c) = Cause(w, c) /\ On(t, c) = On(w, c) /\ Source(t, c, "active") = Source(w, c, "active")
        /\ Source(t, c, "ready") = Source(w, c, "ready")
    BY <1>2, <1>5, <1>6 DEF Cause, Steady, Alike, Emptied, Roles
  <2> QED
    BY <2>1, <2>2, <2>3 DEF Promised, ToPlay, Has
<1>10. Sound(x) /\ Served(x)
  <2>1. "seeking" # "preparing"
    OBVIOUS
  <2> QED
    BY <1>0, <1>6, <1>7, <1>8, <1>9, <2>1, CreationsServed
<1> DEFINE sought == x.players[c].sought \/ Has(x, c, "preparing")
           px == [x.players[c] EXCEPT !.sought = sought]
<1>11. v = Put(x, c, px)
  BY <1>1 DEF Put
<1>12. x.players[c] \in PlayerFields /\ sought \in BOOLEAN
  BY <1>10 DEF Sound, Worlds
<1> HIDE DEF sought
<1>13. /\ px \in PlayerFields /\ px.src = x.players[c].src /\ px.reason = x.players[c].reason
       /\ px.started = x.players[c].started /\ px.start_pending = x.players[c].start_pending
       /\ px.seek_pending = x.players[c].seek_pending /\ px.prepared = x.players[c].prepared
       /\ px.stop_cause = x.players[c].stop_cause
  BY <1>12 DEF PlayerFields
<1> HIDE DEF px
<1>14. /\ Sound(v) /\ Alike(v, x, c) /\ Elsewhere(v, x, c) /\ Calm(v, x)
       /\ Seeks(v, c) = px.seek_pending /\ Prepared(v, c) = px.prepared /\ Cause(v, c) = px.stop_cause
  BY <1>10, <1>11, <1>13, QuietSound
<1>15. Steady(v, x, c)
  BY <1>13, <1>14 DEF Steady, Seeks, Prepared, Cause
<1> QED
  BY <1>10, <1>14, <1>15, AlikeServed

LEMMA SeekLaterServed ==
  ASSUME NEW w, Sound(w), Served(w), ~NoSeeks, NEW c \in Clients, NEW v, v = SeekLater(w, c)
  PROVE  Sound(v) /\ Served(v)
<1> DEFINE fades == ~w.players[c].seek_pending /\ Has(w, c, "active")
           p == Source(w, c, "active")
           args == Args!ActiveFadeOutParams(c)
           t == IF fades THEN Update(w, p, args) ELSE w
           u == Release(t, c, "preparing")
           pl == [u.players[c] EXCEPT !.seek_pending = TRUE]
<1>0. "preparing" \in Roles /\ "active" \in Roles /\ w \in Worlds
  BY DEF Roles, Sound
<1>1. v = Put(u, c, pl)
  BY DEF SeekLater, Put
<1>2. Sound(t) /\ Alike(t, w, c) /\ Elsewhere(t, w, c) /\ Calm(t, w) /\ Steady(t, w, c)
  <2>1. CASE fades
    <3>1. p \in Pipes /\ args \in Slots
      BY <1>0, <2>1, SourceTyped, FadeInTyped DEF Has
    <3>2. t = Update(w, p, args)
      BY <2>1
    <3> HIDE DEF t, p, args
    <3> QED
      BY <3>1, <3>2, UpdateSound
  <2>2. CASE ~fades
    BY <2>2 DEF Alike, Kept, Elsewhere, Calm, Steady
  <2> QED
    BY <2>1, <2>2
<1> HIDE DEF t
<1>3. /\ Sound(u) /\ Emptied(u, t, c, "preparing") /\ Elsewhere(u, t, c) /\ Calm(u, t) /\ Steady(u, t, c)
      /\ Reason(u, c) = "none"
  BY <1>0, <1>2, ReleaseSound
<1> HIDE DEF u
<1>4. u.players[c] \in PlayerFields
  BY <1>3 DEF Sound, Worlds
<1>5. /\ pl \in PlayerFields /\ pl.src = u.players[c].src /\ pl.reason = u.players[c].reason
      /\ pl.started = u.players[c].started /\ pl.start_pending = u.players[c].start_pending
      /\ pl.seek_pending = TRUE /\ pl.stop_cause = u.players[c].stop_cause
  BY <1>4 DEF PlayerFields
<1> HIDE DEF pl
<1>6. /\ Sound(v) /\ Elsewhere(v, u, c) /\ Alike(v, u, c) /\ Calm(v, u) /\ Reason(v, c) = Reason(u, c)
      /\ Seeks(v, c) = pl.seek_pending /\ Cause(v, c) = pl.stop_cause
  BY <1>1, <1>3, <1>5, QuietSound
<1>7. Elsewhere(v, w, c) /\ Calm(v, w)
  BY <1>2, <1>3, <1>6, ElsewhereTrans, CalmTrans
<1>8. /\ Reason(v, c) = "none" /\ Seeks(v, c) /\ Cause(v, c) = Cause(w, c) /\ On(v, c) = On(w, c)
      /\ ~Has(v, c, "preparing") /\ Source(v, c, "active") = Source(w, c, "active")
      /\ Source(v, c, "ready") = Source(w, c, "ready")
  BY <1>0, <1>2, <1>3, <1>5, <1>6 DEF Cause, Steady, Alike, Emptied, Has, Roles
<1>9. ServedAt(v, c)
  <2> SUFFICES ASSUME Faultless(v) PROVE Promised(v, c) /\ Prepares(v, c)
    BY DEF ServedAt
  <2>1. Faultless(w) /\ v.asserts = w.asserts
    BY <1>7 DEF Faultless, Calm
  <2>2. Promised(w, c)
    BY <2>1 DEF Served, ServedAt
  <2> QED
    BY <1>8, <2>1, <2>2 DEF Promised, Prepares, ToPlay, ToStart, Has
<1>10. Spared(v, w, c) /\ w.asserts \subseteq v.asserts /\ (NoLoops => Unlooped(v))
  BY <1>6, <1>7, CalmSpares DEF Served
<1>11. \A d \in Clients \ {c} : ServedAt(w, d)
  BY DEF Served
<1> QED
  BY <1>6, <1>7, <1>9, <1>10, <1>11, ServedElsewhere

LEMMA RefreshServed ==
  ASSUME NEW w, Sound(w), Served(w), NEW c \in Clients, NEW v, v = Refresh(w, c)
  PROVE  Sound(v) /\ Served(v)
<1>1. Sound(v) /\ Elsewhere(v, w, c) /\ Alike(v, w, c) /\ Calm(v, w) /\ Steady(v, w, c)
  BY RefreshSound
<1> QED
  BY <1>1, AlikeServed

LEMMA SetNextPlayerServed ==
  ASSUME NEW w, Sound(w), Served(w), NEW c \in Clients, NEW v \in SetNextPlayer(w, c)
  PROVE  Sound(v) /\ Served(v)
<1>1. PICK n \in Clients \cup {None} : v = Refresh([w EXCEPT !.players[c].next_player = n], c)
  BY DEF SetNextPlayer
<1> DEFINE u == [w EXCEPT !.players[c].next_player = n]
           pl == [w.players[c] EXCEPT !.next_player = n]
<1>2. w.players[c] \in PlayerFields
  BY DEF Sound, Worlds
<1>3. /\ pl \in PlayerFields /\ pl.src = w.players[c].src /\ pl.reason = w.players[c].reason
      /\ pl.started = w.players[c].started /\ pl.start_pending = w.players[c].start_pending
      /\ pl.seek_pending = w.players[c].seek_pending /\ pl.prepared = w.players[c].prepared
      /\ pl.stop_cause = w.players[c].stop_cause
  BY <1>2 DEF PlayerFields
<1>4. u = Put(w, c, pl)
  BY DEF Put
<1> HIDE DEF pl
<1>5. v = Refresh(u, c)
  BY <1>1
<1> HIDE DEF u
<1>6. /\ Sound(u) /\ Alike(u, w, c) /\ Elsewhere(u, w, c) /\ Calm(u, w)
      /\ Seeks(u, c) = pl.seek_pending /\ Prepared(u, c) = pl.prepared /\ Cause(u, c) = pl.stop_cause
  BY <1>3, <1>4, QuietSound
<1>7. Steady(u, w, c)
  BY <1>3, <1>6 DEF Steady, Seeks, Prepared, Cause
<1>8. Served(u)
  BY <1>6, <1>7, AlikeServed
<1> QED
  BY <1>5, <1>6, <1>8, RefreshServed

LEMMA ToggleLoopingServed ==
  ASSUME NEW w, Sound(w), Served(w), ~NoLoops, NEW c \in Clients, NEW v \in ToggleLooping(w, c)
  PROVE  Sound(v) /\ Served(v)
<1> DEFINE loopers == IF c \in w.looping THEN w.looping \ {c} ELSE w.looping \cup {c}
<1>1. v = [w EXCEPT !.looping = loopers]
  BY DEF ToggleLooping
<1>2. v.players = w.players /\ v.asserts = w.asserts /\ v.decoder = w.decoder /\ v.data_end = w.data_end
  BY <1>1 DEF Sound, Worlds
<1>3. Served(v)
  BY <1>2, SurvivesServed DEF Survives
<1> QED
  BY <1>3, ToggleLoopingSound

LEMMA OutcomesServed ==
  ASSUME NEW w, Sound(w), Served(w), NEW c \in Clients, NEW call \in CallNames \cap scenario.calls,
         NEW v \in Outcomes(call, w, c)
  PROVE  Sound(v) /\ Served(v)
<1>1. \/ v \in Prepare(w, c) \/ v \in Start(w, c) \/ v \in Pause(w, c) \/ v = Stop(w, c)
      \/ (call = "seek" /\ v \in SeekTo(w, c)) \/ (call = "setLooping" /\ v \in ToggleLooping(w, c))
      \/ v \in SetNextPlayer(w, c)
  BY DEF Outcomes, CallNames
<1>2. v \in SeekTo(w, c) => v \in SeekNow(w, c) \/ v = SeekLater(w, c)
  BY DEF SeekTo
<1>3. (call = "seek" => ~NoSeeks) /\ (call = "setLooping" => ~NoLoops)
  BY DEF NoSeeks, NoLoops
<1> QED
  BY <1>1, <1>2, <1>3, PrepareServed, StartServed, PauseServed, StopServed, SeekNowServed, SeekLaterServed,
     ToggleLoopingServed, SetNextPlayerServed

-----------------------------------------------------------------------------
(* The poll, of what there is to play.                                     *)

LEMMA PendingSeekServed ==
  ASSUME NEW w, Sound(w), Served(w), NEW c \in Clients, NEW v \in PendingSeek(w, c)
  PROVE  Sound(v) /\ Served(v)
<1>1. v = w \/ (Seeks(w, c) /\ v \in SeekNow(w, c))
  BY DEF PendingSeek, Seeks
<1>2. Seeks(w, c) => ~NoSeeks
  BY DEF Served, ServedAt, Supplied
<1> QED
  BY <1>1, <1>2, SeekNowServed

LEMMA RewoundCreationServed ==
  ASSUME NEW w, Sound(w), Served(w), NEW c \in Clients, NEW v \in RewoundCreation(w, c)
  PROVE  Sound(v) /\ Served(v)
<1>1. CASE RewoundSourceWanted(w, c)
  <2>1. ~Has(w, c, "preparing") /\ "rewinding" \in Reasons \ {"none"} /\ v \in Creations(w, c, "rewinding")
    BY <1>1 DEF RewoundSourceWanted, RewoundCreation, Reasons
  <2>2. \A r \in Playable : Has(w, c, r) => Source(w, c, r) = Current(w, c)
    BY <1>1 DEF RewoundSourceWanted, Playable, Current, Sound, Flagged
  <2>3. NoSeeks => ~Seeks(w, c) /\ \A r \in Playable : Has(w, c, r) => w.data_end[Source(w, c, r)] # "none"
    BY <1>1, <2>2 DEF RewoundSourceWanted, Served, ServedAt, Supplied
  <2>4. Faultless(w) =>
          /\ "null active_source_" \notin w.asserts /\ (Cause(w, c) = "stoppedEndLoop" => NoSeeks)
          /\ On(w, c) => ~Has(w, c, "ready") /\ (Has(w, c, "active") \/ NoSeeks)
    BY DEF Served, ServedAt, Promised, ToPlay
  <2>5. (\A d \in Clients \ {c} : ServedAt(w, d)) /\ (NoLoops => Unlooped(w))
    BY DEF Served
  <2>6. "rewinding" # "preparing" /\ "rewinding" # "seeking"
    OBVIOUS
  <2> QED
    BY <2>1, <2>3, <2>4, <2>5, <2>6, CreationsServed
<1>2. CASE ~RewoundSourceWanted(w, c)
  BY <1>2 DEF RewoundCreation
<1> QED
  BY <1>1, <1>2

\* the source that was being prepared is ready to be played, or it has failed
Outcome(w, c, ok) ==
  /\ \A d \in Clients \ {c} : ServedAt(w, d)
  /\ NoLoops => Unlooped(w)
  /\ Has(w, c, "preparing")
  /\ NoSeeks => Supplied(w, c)
  /\ Faultless(w) => Promised(w, c) /\ ok
  /\ ok => w.decoder[Source(w, c, "preparing")] \in Playing

\* the roles the sources may get then
Disposed(v, w, c, ok) ==
  /\ \A r \in Playable : Has(v, c, r) =>
       \/ \E s \in Playable : Source(v, c, r) = Source(w, c, s)
       \/ ok /\ Source(v, c, r) = Source(w, c, "preparing")
  /\ ~Has(v, c, "preparing") /\ Reason(v, c) = "none"

LEMMA OutcomeServed ==
  ASSUME NEW w, NEW ok, NEW c \in Clients, Outcome(w, c, ok), NEW v, Sound(v), Elsewhere(v, w, c), Calm(v, w),
         Seeks(v, c) = Seeks(w, c), Cause(v, c) = Cause(w, c), Disposed(v, w, c, ok),
         Faultless(w) => ToPlay(v, c) /\ ToStart(v, c)
  PROVE  Served(v)
<1>0. "preparing" \in Roles /\ \A r \in Playable : r \in Roles
  BY DEF Playable, Roles
<1>1. \A r \in Roles : Has(v, c, r) => Source(v, c, r) \in v.sources
  BY SourceTyped DEF Sound, Owned, Has
<1>2. Faultless(v) = Faultless(w) /\ v.asserts = w.asserts
  BY DEF Faultless, Calm
<1>3. NoSeeks => Supplied(v, c)
  <2> SUFFICES ASSUME NoSeeks PROVE Supplied(v, c)
    OBVIOUS
  <2>1. Supplied(w, c)
    BY DEF Outcome
  <2>2. ASSUME NEW r \in Playable, Has(v, c, r) PROVE Fed(v, Source(v, c, r))
    <3>1. Fed(w, Source(v, c, r))
      <4>1. CASE \E s \in Playable : Source(v, c, r) = Source(w, c, s)
        BY <2>1, <2>2, <4>1 DEF Supplied, Has
      <4>2. CASE ok /\ Source(v, c, r) = Source(w, c, "preparing")
        BY <4>2 DEF Outcome, Fed
      <4> QED
        BY <2>2, <4>1, <4>2 DEF Disposed
    <3>2. Source(v, c, r) \in v.sources
      BY <1>0, <1>1, <2>2
    <3> QED
      BY <3>1, <3>2 DEF Calm, Fed
  <2> QED
    BY <2>1, <2>2 DEF Supplied, Disposed
<1>4. Faultless(w) => Promised(v, c)
  BY <1>2 DEF Outcome, Promised, Disposed
<1>5. Prepares(v, c)
  BY DEF Prepares, Disposed
<1>6. ServedAt(v, c)
  BY <1>2, <1>3, <1>4, <1>5 DEF ServedAt
<1>7. Spared(v, w, c) /\ w.asserts \subseteq v.asserts /\ (NoLoops => Unlooped(v))
  BY CalmSpares DEF Outcome
<1>8. \A d \in Clients \ {c} : ServedAt(w, d)
  BY DEF Outcome
<1> QED
  BY <1>6, <1>7, <1>8, ServedElsewhere

\* it has failed, and the player loses all its sources, or this one
LEMMA FailedServed ==
  ASSUME NEW w, Sound(w), NEW c \in Clients, Outcome(w, c, FALSE), NEW v,
         v = ReleaseAll(w, c) \/ v = Release(w, c, "preparing")
  PROVE  Sound(v) /\ Served(v)
<1>0. "preparing" \in Roles
  BY DEF Roles
<1>1. ~Faultless(w)
  BY DEF Outcome
<1>2. CASE v = ReleaseAll(w, c)
  <2>1. /\ Sound(v) /\ Elsewhere(v, w, c) /\ \A r \in Roles : ~Has(v, c, r)
        /\ Reason(v, c) = "none" /\ Calm(v, w) /\ Steady(v, w, c)
    BY <1>2, ReleaseAllSound
  <2>2. Disposed(v, w, c, FALSE)
    BY <2>1 DEF Disposed, Playable, Roles
  <2> QED
    BY <1>1, <2>1, <2>2, OutcomeServed DEF Steady
<1>3. CASE v = Release(w, c, "preparing")
  <2>1. /\ Sound(v) /\ Elsewhere(v, w, c) /\ Emptied(v, w, c, "preparing")
        /\ Reason(v, c) = "none" /\ Calm(v, w) /\ Steady(v, w, c)
    BY <1>0, <1>3, ReleaseSound
  <2>2. Disposed(v, w, c, FALSE)
    BY <2>1 DEF Disposed, Emptied, Has, Playable, Roles
  <2> QED
    BY <1>1, <2>1, <2>2, OutcomeServed DEF Steady
<1> QED
  BY <1>2, <1>3

LEMMA PreparingDoneServed ==
  ASSUME NEW w, Sound(w), NEW c \in Clients, Reason(w, c) = "preparing",
         NEW ok \in BOOLEAN, Outcome(w, c, ok), NEW v, v = PreparingDone(w, c, ok)
  PROVE  Sound(v) /\ Served(v)
<1>0. Has(w, c, "preparing")
  BY DEF Outcome
<1>1. CASE ok
  <2> DEFINE p == Source(w, c, "preparing")
             args == FadeIn(w, c, "none")
             u == Update(w, p, args)
             m == PreparingTo(u, c, "ready")
             pl == [m.players[c] EXCEPT !.prepared = TRUE]
  <2>1. p \in Pipes /\ args \in Slots
    BY <1>0, SourceTyped, FadeInTyped DEF Has, Roles, Sound
  <2>2. v = Put(m, c, pl)
    BY <1>1 DEF PreparingDone, Put
  <2> HIDE DEF p, args
  <2>3. u = Update(w, p, args)
    OBVIOUS
  <2> HIDE DEF u
  <2>4. Sound(u) /\ Alike(u, w, c) /\ Elsewhere(u, w, c) /\ Calm(u, w) /\ Steady(u, w, c)
    BY <2>1, <2>3, UpdateSound
  <2>5. ~Has(u, c, "active")
    BY <1>0, <2>4 DEF Alike, Has, Sound, Flagged, Roles
  <2>6. /\ Sound(m) /\ Elsewhere(m, u, c) /\ Shifted(m, u, c, "preparing", "ready") /\ Reason(m, c) = "none"
        /\ Calm(m, u) /\ Steady(m, u, c)
    BY <2>4, <2>5, PreparedReadySound
  <2> HIDE DEF m
  <2>7. m.players[c] \in PlayerFields
    BY <2>6 DEF Sound, Worlds
  <2>8. /\ pl \in PlayerFields /\ pl.src = m.players[c].src /\ pl.reason = m.players[c].reason
        /\ pl.started = m.players[c].started /\ pl.start_pending = m.players[c].start_pending
        /\ pl.seek_pending = m.players[c].seek_pending /\ pl.stop_cause = m.players[c].stop_cause
    BY <2>7 DEF PlayerFields
  <2> HIDE DEF pl
  <2>9. /\ Sound(v) /\ Elsewhere(v, m, c) /\ Alike(v, m, c) /\ Calm(v, m) /\ Reason(v, c) = Reason(m, c)
        /\ Seeks(v, c) = pl.seek_pending /\ Cause(v, c) = pl.stop_cause
    BY <2>2, <2>6, <2>8, QuietSound
  <2>10. Elsewhere(v, w, c) /\ Calm(v, w)
    BY <2>4, <2>6, <2>9, ElsewhereTrans, CalmTrans
  <2>11. Seeks(v, c) = Seeks(w, c) /\ Cause(v, c) = Cause(w, c)
    BY <2>4, <2>6, <2>8, <2>9 DEF Steady, Seeks, Cause
  <2>12. Disposed(v, w, c, ok)
    BY <1>1, <2>4, <2>6, <2>9 DEF Disposed, Alike, Shifted, Has, Playable, Roles
  <2>13. On(v, c) = On(w, c) /\ Waits(v, c) = Waits(w, c)
    BY <2>4, <2>6, <2>9 DEF Alike, Shifted
  <2>14. Faultless(w) => ToPlay(v, c) /\ ToStart(v, c)
    BY <2>13 DEF Outcome, Promised, ToPlay, ToStart
  <2> QED
    BY <2>9, <2>10, <2>11, <2>12, <2>14, OutcomeServed
<1>2. CASE ~ok
  <2>1. v = ReleaseAll(w, c) /\ ok = FALSE
    BY <1>2 DEF PreparingDone
  <2> QED
    BY <2>1, FailedServed
<1> QED
  BY <1>1, <1>2

LEMMA SeekingDoneServed ==
  ASSUME NEW w, Sound(w), NEW c \in Clients, Reason(w, c) = "seeking",
         NEW ok \in BOOLEAN, Outcome(w, c, ok), NEW v, v = SeekingDone(w, c, ok)
  PROVE  Sound(v) /\ Served(v)
<1> DEFINE p == Source(w, c, "preparing")
           from == Source(w, c, "active")
           none == FadeIn(w, c, "none")
           start == FadeIn(w, c, "start")
           old == OldFadeOut(w, c)
<1>0. /\ p \in Pipes /\ from \in Pipes \cup {None} /\ none \in Slots /\ start \in Slots /\ old \in Slots
      /\ Has(w, c, "preparing") /\ \A r \in {"preparing", "active", "ready", "old", "next"} : r \in Roles
  BY SourceTyped, FadeInTyped DEF Has, Roles, Sound, Outcome
<1>0a. ~NoSeeks
  BY DEF Outcome, Supplied
<1>1. CASE ~ok
  <2>1. v = Release(w, c, "preparing") /\ ok = FALSE
    BY <1>1 DEF SeekingDone
  <2> QED
    BY <2>1, FailedServed
<1>2. CASE ok /\ ~On(w, c)
  <2> DEFINE u == Update(w, p, none)
             m == ActiveToOld(u, c)
  <2>1. v = PreparingTo(m, c, "ready")
    BY <1>2 DEF SeekingDone, On
  <2> HIDE DEF p, none
  <2>2. Sound(u) /\ Alike(u, w, c) /\ Elsewhere(u, w, c) /\ Calm(u, w) /\ Steady(u, w, c)
    BY <1>0, UpdateSound
  <2> HIDE DEF u
  <2>3. Sound(m) /\ Shifted(m, u, c, "active", "old") /\ Elsewhere(m, u, c) /\ Calm(m, u) /\ Steady(m, u, c)
    BY <2>2, ActiveToOldSound
  <2> HIDE DEF m
  <2>4. ~Has(m, c, "active")
    BY <1>0, <2>3 DEF Shifted, Has
  <2>5. /\ Sound(v) /\ Elsewhere(v, m, c) /\ Shifted(v, m, c, "preparing", "ready") /\ Reason(v, c) = "none"
        /\ Calm(v, m) /\ Steady(v, m, c)
    BY <2>1, <2>3, <2>4, PreparedReadySound
  <2>6. Elsewhere(v, w, c) /\ Calm(v, w) /\ Steady(v, w, c)
    BY <2>2, <2>3, <2>5, ElsewhereTrans, CalmTrans, SteadyTrans
  <2>7. Disposed(v, w, c, ok)
    BY <1>2, <2>2, <2>3, <2>5 DEF Disposed, Alike, Shifted, Has, Playable, Roles
  <2>8. ~On(v, c) /\ Has(v, c, "ready")
    BY <1>0, <1>2, <2>2, <2>3, <2>5 DEF Alike, Shifted, Has
  <2>9. ToPlay(v, c) /\ ToStart(v, c)
    BY <2>8 DEF ToPlay, ToStart
  <2> QED
    BY <2>5, <2>6, <2>7, <2>9, OutcomeServed DEF Steady
<1>3. CASE ok /\ On(w, c) /\ from = None
  <2>1. v = Expect(w, FALSE, "null active_source_")
    BY <1>3 DEF SeekingDone, On
  <2>2. ~Faultless(w)
    BY <1>0a, <1>3 DEF Outcome, Promised, ToPlay, Has
  <2>3a. w \in Worlds /\ Owned(w) /\ "null active_source_" \in {"null active_source_", "no pipe"}
    BY DEF Sound
  <2>3b. /\ v.players = w.players /\ v.decoder = w.decoder
         /\ v.asserts = w.asserts \cup {"null active_source_"} /\ v.data_end = w.data_end /\ v.looping = w.looping
    BY <2>1, <2>3a, ExpectEffect
  <2>3. /\ v.players = w.players /\ v.decoder = w.decoder /\ w.asserts \subseteq v.asserts
        /\ v.data_end = w.data_end
    BY <2>3b
  <2>4. ~Faultless(v)
    BY <2>2, <2>3 DEF Faultless
  <2>5. ServedAt(v, c)
    BY <1>0a, <2>4 DEF ServedAt
  <2>6. Elsewhere(v, w, c) /\ Spared(v, w, c) /\ (NoLoops => Unlooped(v))
    BY <2>3, <2>3b DEF Elsewhere, Spared, Survives, Outcome, Unlooped
  <2>7. Served(v)
    BY <2>3, <2>5, <2>6, ServedElsewhere DEF Outcome
  <2> QED
    BY <1>0, <2>7, SeekingDoneSound
<1>4. CASE ok /\ On(w, c) /\ from # None
  <2> DEFINE f == Update(w, from, old)
             u == Update(f, p, start)
             m == ActiveToOld(u, c)
             y == PreparingTo(m, c, "ready")
  <2>1. v = Move(y, c, "ready", "active")
    BY <1>4 DEF SeekingDone, On
  <2> HIDE DEF p, from, start, old
  <2>2. Sound(f) /\ Alike(f, w, c) /\ Elsewhere(f, w, c) /\ Calm(f, w) /\ Steady(f, w, c)
    BY <1>0, <1>4, UpdateSound
  <2> HIDE DEF f
  <2>3. Sound(u) /\ Alike(u, f, c) /\ Elsewhere(u, f, c) /\ Calm(u, f) /\ Steady(u, f, c)
    BY <1>0, <2>2, UpdateSound
  <2> HIDE DEF u
  <2>4. Sound(m) /\ Shifted(m, u, c, "active", "old") /\ Elsewhere(m, u, c) /\ Calm(m, u) /\ Steady(m, u, c)
    BY <2>3, ActiveToOldSound
  <2> HIDE DEF m
  <2>5. ~Has(m, c, "active")
    BY <1>0, <2>4 DEF Shifted, Has
  <2>6. /\ Sound(y) /\ Shifted(y, m, c, "preparing", "ready") /\ Reason(y, c) = "none"
        /\ Elsewhere(y, m, c) /\ Calm(y, m) /\ Steady(y, m, c)
    BY <2>4, <2>5, PreparedReadySound
  <2> HIDE DEF y
  <2>7. ~Has(y, c, "active") /\ On(y, c)
    BY <1>0, <1>4, <2>2, <2>3, <2>4, <2>5, <2>6 DEF Shifted, Alike, Has
  <2>8. Sound(v) /\ Elsewhere(v, y, c) /\ Shifted(v, y, c, "ready", "active") /\ Calm(v, y) /\ Steady(v, y, c)
    BY <2>1, <2>6, <2>7, ReadyToActiveSound
  <2>9. Elsewhere(v, w, c) /\ Calm(v, w) /\ Steady(v, w, c)
    BY <2>2, <2>3, <2>4, <2>6, <2>8, ElsewhereTrans, CalmTrans, SteadyTrans
  <2>10. /\ Source(v, c, "active") = Source(w, c, "preparing") /\ ~Has(v, c, "ready") /\ ~Has(v, c, "preparing")
         /\ Source(v, c, "next") = Source(w, c, "next") /\ Reason(v, c) = "none" /\ On(v, c)
    <3>1. \A r \in Roles : Source(u, c, r) = Source(w, c, r)
      BY <2>2, <2>3 DEF Alike
    <3>2. /\ Source(m, c, "preparing") = Source(u, c, "preparing") /\ Source(m, c, "next") = Source(u, c, "next")
      BY <1>0, <2>4 DEF Shifted
    <3>3. /\ Source(y, c, "ready") = Source(m, c, "preparing") /\ Source(y, c, "next") = Source(m, c, "next")
          /\ ~Has(y, c, "preparing")
      BY <1>0, <2>6 DEF Shifted, Has
    <3>4. /\ Source(v, c, "active") = Source(y, c, "ready") /\ Source(v, c, "next") = Source(y, c, "next")
          /\ ~Has(v, c, "preparing") /\ ~Has(v, c, "ready")
      BY <1>0, <2>8, <3>3 DEF Shifted, Has
    <3>5. Reason(v, c) = "none" /\ On(v, c)
      BY <2>6, <2>7, <2>8 DEF Shifted, Kept
    <3> QED
      BY <1>0, <3>1, <3>2, <3>3, <3>4, <3>5
  <2>11. Disposed(v, w, c, ok)
    BY <1>4, <2>10 DEF Disposed, Has, Playable
  <2>12. ~Waits(v, c) /\ Has(v, c, "active")
    BY <1>0, <2>8, <2>10 DEF Sound, Flagged, Has
  <2>13. ToPlay(v, c) /\ ToStart(v, c)
    BY <2>10, <2>12 DEF ToPlay, ToStart
  <2> QED
    BY <2>8, <2>9, <2>11, <2>13, OutcomeServed DEF Steady
<1> QED
  BY <1>1, <1>2, <1>3, <1>4

LEMMA RewindingDoneServed ==
  ASSUME NEW w, Sound(w), NEW c \in Clients, Reason(w, c) = "rewinding",
         NEW ok \in BOOLEAN, Outcome(w, c, ok), NEW v, v = RewindingDone(w, c, ok)
  PROVE  Sound(v) /\ Served(v)
<1> DEFINE p == Source(w, c, "preparing")
           none == FadeIn(w, c, "none")
           next == NextFadeIn(w, c)
<1>0. /\ p \in Pipes /\ none \in Slots /\ next \in Slots
      /\ Has(w, c, "preparing") /\ \A r \in {"preparing", "active", "ready", "next"} : r \in Roles
  BY SourceTyped, FadeInTyped DEF Has, Roles, Sound, Outcome
<1>1. CASE ~ok
  <2>1. v = ReleaseAll(w, c) /\ ok = FALSE
    BY <1>1 DEF RewindingDone
  <2> QED
    BY <2>1, FailedServed
<1>2. CASE ok /\ ~(~Has(w, c, "ready") /\ ~Has(w, c, "active"))
  <2> DEFINE u == Update(w, p, next)
  <2>1. v = PreparingTo(u, c, "next")
    BY <1>2 DEF RewindingDone
  <2> HIDE DEF p, next
  <2>2. Sound(u) /\ Alike(u, w, c) /\ Elsewhere(u, w, c) /\ Calm(u, w) /\ Steady(u, w, c)
    BY <1>0, UpdateSound
  <2> HIDE DEF u
  <2>3. /\ Sound(v) /\ Elsewhere(v, u, c) /\ Shifted(v, u, c, "preparing", "next") /\ Reason(v, c) = "none"
        /\ Calm(v, u) /\ Steady(v, u, c)
    BY <2>1, <2>2, PreparedNextSound
  <2>4. Elsewhere(v, w, c) /\ Calm(v, w) /\ Steady(v, w, c)
    BY <2>2, <2>3, ElsewhereTrans, CalmTrans, SteadyTrans
  <2>5. Disposed(v, w, c, ok)
    BY <1>2, <2>2, <2>3 DEF Disposed, Alike, Shifted, Has, Playable, Roles
  <2>6. /\ On(v, c) = On(w, c) /\ Has(v, c, "next")
        /\ Source(v, c, "active") = Source(w, c, "active") /\ Source(v, c, "ready") = Source(w, c, "ready")
    BY <1>0, <2>2, <2>3 DEF Alike, Shifted, Has
  <2>7. Faultless(w) => ToPlay(v, c) /\ ToStart(v, c)
    BY <1>2, <2>6 DEF Outcome, Promised, ToPlay, ToStart, Has
  <2> QED
    BY <2>3, <2>4, <2>5, <2>7, OutcomeServed DEF Steady
<1>3. CASE ok /\ ~Has(w, c, "ready") /\ ~Has(w, c, "active")
  <2> DEFINE u == Update(w, p, none)
             y == PreparingTo(u, c, "ready")
  <2>1. \/ ~On(w, c) /\ v = y
        \/ v = StartReady(y, c)
    BY <1>3 DEF RewindingDone, On
  <2>2. Sound(u) /\ Alike(u, w, c) /\ Elsewhere(u, w, c) /\ Calm(u, w) /\ Steady(u, w, c)
    <3> HIDE DEF p, none
    <3> QED
      BY <1>0, UpdateSound
  <2>3. Has(u, c, "preparing") /\ ~Has(u, c, "active")
    BY <1>0, <1>3, <2>2 DEF Alike, Has
  <2> HIDE DEF u
  <2>4. /\ Sound(y) /\ Shifted(y, u, c, "preparing", "ready") /\ Reason(y, c) = "none"
        /\ Elsewhere(y, u, c) /\ Calm(y, u) /\ Steady(y, u, c)
    BY <2>2, <2>3, PreparedReadySound
  <2> HIDE DEF y
  <2>5. Has(y, c, "ready") /\ Source(y, c, "ready") = Source(w, c, "preparing") /\ On(y, c) = On(w, c)
    BY <1>0, <2>2, <2>3, <2>4 DEF Alike, Shifted, Has
  <2>6. Elsewhere(y, w, c) /\ Calm(y, w) /\ Steady(y, w, c)
    BY <2>2, <2>4, ElsewhereTrans, CalmTrans, SteadyTrans
  <2>7. Disposed(y, w, c, ok)
    BY <1>3, <2>2, <2>4 DEF Disposed, Alike, Shifted, Has, Playable, Roles
  <2>8. ASSUME ~On(w, c), v = y PROVE Sound(v) /\ Served(v)
    <3>1. ToPlay(v, c) /\ ToStart(v, c)
      BY <2>5, <2>8 DEF ToPlay, ToStart
    <3> QED
      BY <2>4, <2>6, <2>7, <2>8, <3>1, OutcomeServed DEF Steady
  <2>9. ASSUME v = StartReady(y, c) PROVE Sound(v) /\ Served(v)
    <3>1. Sound(v) /\ Elsewhere(v, y, c) /\ Begun(v, y, c) /\ Calm(v, y) /\ Steady(v, y, c)
      BY <2>4, <2>5, <2>9, StartReadySound
    <3>2. Elsewhere(v, w, c) /\ Calm(v, w) /\ Steady(v, w, c)
      BY <2>6, <3>1, ElsewhereTrans, CalmTrans, SteadyTrans
    <3>3. Disposed(v, w, c, ok)
      BY <2>4, <2>7, <3>1 DEF Disposed, Begun, Kept, Has, Playable, Roles
    <3>4. ToPlay(v, c) /\ ToStart(v, c)
      BY <1>0, <2>5, <3>1 DEF ToPlay, ToStart, Begun, Has
    <3> QED
      BY <3>1, <3>2, <3>3, <3>4, OutcomeServed DEF Steady
  <2> QED
    BY <2>1, <2>8, <2>9
<1> QED
  BY <1>1, <1>2, <1>3

LEMMA PollPreparingServed ==
  ASSUME NEW w, Sound(w), Served(w), NEW c \in Clients, NEW v, v = PollPreparing(w, c)
  PROVE  Sound(v) /\ Served(v)
<1> DEFINE p == Source(w, c, "preparing")
           ok == w.decoder[p] = "prefetched"
           f == [w.decoder EXCEPT ![p] = IF ok THEN "paused" ELSE w.decoder[p]]
           u == [w EXCEPT !.decoder = f]
<1>1. CASE p = None \/ w.decoder[p] = "preparing"
  <2>1. v = w
    BY <1>1 DEF PollPreparing
  <2> QED
    BY <2>1
<1>2. CASE ~(p = None \/ w.decoder[p] = "preparing")
  <2>0. "preparing" \in Roles /\ \A r \in Playable : r \in Roles \ {"preparing"}
    BY DEF Roles, Playable
  <2>1. p \in Pipes /\ Has(w, c, "preparing")
    BY <1>2, <2>0, SourceTyped DEF Has, Sound
  <2>2. v = CASE Reason(w, c) = "preparing" -> PreparingDone(u, c, ok)
              [] Reason(w, c) = "seeking"   -> SeekingDone(u, c, ok)
              [] Reason(w, c) = "rewinding" -> RewindingDone(u, c, ok)
    BY <1>2 DEF PollPreparing, Reason
  <2>3. w.decoder \in [Pipes -> DecoderStates]
    BY DEF Sound, Worlds
  <2>3a. Faultless(w) => ok
    BY <1>2, <2>1 DEF Served, ServedAt, Prepares, Unready
  <2>3b. \A d \in Clients, r \in Roles : Has(w, d, r) /\ ~(d = c /\ r = "preparing") => Source(w, d, r) # p
    BY <2>0 DEF Sound, Owned, Has
  <2>3c. p = Source(w, c, "preparing")
    OBVIOUS
  <2> HIDE DEF p
  <2>4. f \in [Pipes -> DecoderStates] /\ \A q \in Pipes : f[q] \in Live => Works(w, q)
    BY <2>1, <2>3 DEF DecoderStates, Live, Works
  <2>4a. ok => f[p] = "paused"
    BY <2>1, <2>3
  <2>4b. \A d \in Clients, r \in Roles :
           Has(w, d, r) /\ ~(d = c /\ r = "preparing") => f[Source(w, d, r)] = w.decoder[Source(w, d, r)]
    <3>1. \A d \in Clients, r \in Roles : Has(w, d, r) => Source(w, d, r) \in Pipes
      BY SourceTyped DEF Has, Sound
    <3> QED
      BY <2>3, <2>3b, <3>1
  <2>5. ok \in BOOLEAN
    OBVIOUS
  <2> HIDE DEF f, ok
  <2>6. /\ u \in Worlds /\ Owned(u) /\ u.players = w.players /\ u.decoder = f
        /\ u.asserts = w.asserts /\ u.looping = w.looping /\ u.data_end = w.data_end
    BY <2>4, DecoderEffect DEF Sound
  <2> HIDE DEF u
  <2>7. Elsewhere(u, w, c) /\ Alike(u, w, c) /\ Reason(u, c) = Reason(w, c) /\ Steady(u, w, c)
    BY <2>6, SamePlayers DEF Reason
  <2>8. Sound(u)
    BY <2>6, <2>7, FlaggedAlike, SoundElsewhere DEF Sound
  <2>9. Has(u, c, "preparing") /\ Source(u, c, "preparing") = p
    BY <2>0, <2>1, <2>3c, <2>7 DEF Alike, Has
  <2>9a. Outcome(u, c, ok)
    <3>1. Faultless(u) = Faultless(w)
      BY <2>6 DEF Faultless
    <3>2. ASSUME NEW d \in Clients \ {c} PROVE ServedAt(u, d)
      <4>1. \A r \in Roles : Has(w, d, r) => Survives(u, w, Source(w, d, r))
        BY <2>4b, <2>6 DEF Survives
      <4>2. ServedAt(w, d) /\ u.players[d] = w.players[d] /\ w.asserts \subseteq u.asserts
        BY <2>6 DEF Served
      <4>3. Faultless(u) => "null active_source_" \notin u.asserts
        BY <2>6, <3>1, <4>2 DEF ServedAt, Promised
      <4> QED
        BY <4>1, <4>2, <4>3, ServedAtAlike
    <3>3. NoSeeks => Supplied(u, c)
      <4> SUFFICES ASSUME NoSeeks PROVE Supplied(u, c)
        OBVIOUS
      <4>1. Supplied(w, c)
        BY DEF Served, ServedAt
      <4>2. ASSUME NEW r \in Playable, Has(u, c, r) PROVE Fed(u, Source(u, c, r))
        <5>1. Source(u, c, r) = Source(w, c, r) /\ Has(w, c, r)
          BY <2>0, <2>7, <4>2 DEF Alike, Has
        <5>2. u.decoder[Source(w, c, r)] = w.decoder[Source(w, c, r)]
          BY <2>0, <2>4b, <2>6, <5>1
        <5> QED
          BY <2>6, <4>1, <5>1, <5>2 DEF Supplied, Fed
      <4> QED
        BY <2>7, <4>1, <4>2 DEF Supplied, Steady
    <3>4. Faultless(w) => Promised(u, c)
      BY <2>6, <2>7 DEF Served, ServedAt, Promised, ToPlay, ToStart, Alike, Steady, Has, Roles
    <3>5. NoLoops => Unlooped(u)
      BY <2>6 DEF Served, Unlooped
    <3> QED
      BY <3>5, <2>3a, <2>4a, <2>6, <2>9, <3>1, <3>2, <3>3, <3>4 DEF Outcome, Playing
  <2>10. CASE Reason(w, c) = "preparing"
    <3>1. v = PreparingDone(u, c, ok)
      BY <2>2, <2>10
    <3> QED
      BY <2>5, <2>7, <2>8, <2>9a, <2>10, <3>1, PreparingDoneServed
  <2>11. CASE Reason(w, c) = "seeking"
    <3>1. v = SeekingDone(u, c, ok)
      BY <2>2, <2>11
    <3> QED
      BY <2>5, <2>7, <2>8, <2>9a, <2>11, <3>1, SeekingDoneServed
  <2>12. CASE Reason(w, c) = "rewinding"
    <3>1. v = RewindingDone(u, c, ok)
      BY <2>2, <2>12
    <3> QED
      BY <2>5, <2>7, <2>8, <2>9a, <2>12, <3>1, RewindingDoneServed
  <2>13. Reason(w, c) \in {"preparing", "seeking", "rewinding"}
    <3>1. Reason(w, c) \in Reasons /\ Reason(w, c) # "none"
      BY <2>1 DEF Sound, Flagged, Worlds, PlayerFields, Reason
    <3> QED
      BY <3>1 DEF Reasons
  <2> QED
    BY <2>10, <2>11, <2>12, <2>13
<1> QED
  BY <1>1, <1>2

\* the next source is to be played by a player that is not started
LEMMA NextToReadyServed ==
  ASSUME NEW w, Sound(w), Served(w), NEW c \in Clients, ~On(w, c), Has(w, c, "next"),
         NEW v, v = NextToReady(w, c)
  PROVE  Sound(v) /\ Served(v) /\ Has(v, c, "ready")
<1>0. \A r \in {"next", "ready", "active"} : r \in Roles
  BY DEF Roles
<1>1. ~Has(w, c, "active")
  BY DEF Sound, Flagged
<1>2. Sound(v) /\ Elsewhere(v, w, c) /\ Shifted(v, w, c, "next", "ready") /\ Calm(v, w) /\ Steady(v, w, c)
  BY <1>1, NextToReadySound
<1>3. /\ Has(v, c, "ready") /\ ~On(v, c) /\ Waits(v, c) = Waits(w, c) /\ Kept(v, w, c)
  BY <1>0, <1>2 DEF Shifted, Has
<1>4. Rearranged(v, w, c)
  BY <1>2 DEF Rearranged, Shifted, Kept, Has, Playable, Roles
<1>5. ToPlay(v, c) /\ ToStart(v, c)
  BY <1>3 DEF ToPlay, ToStart
<1> QED
  BY <1>2, <1>3, <1>4, <1>5, CalmServed

LEMMA StartAsNextServed ==
  ASSUME NEW w, Sound(w), Served(w), NEW n \in Clients, CanStartAsNext(w, n), NEW v, v = StartAsNext(w, n)
  PROVE  Sound(v) /\ Served(v)
<1>1. ~On(w, n) /\ Has(w, n, "ready")
  BY DEF CanStartAsNext, On
<1>2. CASE w.completed[Source(w, n, "ready")] = "no"
  BY <1>1, <1>2, StartReadyServed DEF StartAsNext
<1>3. CASE w.completed[Source(w, n, "ready")] # "no"
  <2> DEFINE u == NextToReady(w, n)
  <2>1. Has(w, n, "next")
    BY <1>3 DEF CanStartAsNext, Source
  <2>2. v = StartReady(u, n)
    BY <1>3 DEF StartAsNext
  <2>3. Sound(u) /\ Served(u) /\ Has(u, n, "ready")
    BY <1>1, <2>1, NextToReadyServed
  <2> HIDE DEF u
  <2> QED
    BY <2>2, <2>3, StartReadyServed
<1> QED
  BY <1>2, <1>3

LEMMA PendingStartServed ==
  ASSUME NEW w, Sound(w), Served(w), NEW c \in Clients, NEW v, v = PendingStart(w, c)
  PROVE  Sound(v) /\ Served(v)
<1> DEFINE n == w.players[c].next_player
           u == IF ~Has(w, c, "ready") /\ Has(w, c, "next") THEN NextToReady(w, c) ELSE w
<1>1. CASE ~Waits(w, c)
  <2>1. v = w
    BY <1>1 DEF PendingStart, Waits
  <2> QED
    BY <2>1
<1>2. CASE Waits(w, c)
  <2>1. \/ n # None /\ CanStartAsNext(w, n) /\ v = ClearPending(StartAsNext(w, n), c)
        \/ Has(u, c, "ready") /\ v = StartReady(u, c)
        \/ v = u
    BY <1>2 DEF PendingStart, Waits
  <2>2. ~On(w, c)
    BY <1>2 DEF Sound, Flagged
  <2>3. Sound(u) /\ Served(u)
    BY <2>2, NextToReadyServed
  <2> HIDE DEF u
  <2>4. n \in Clients \cup {None}
    BY DEF Sound, Worlds, PlayerFields
  <2> HIDE DEF n
  <2>5. ASSUME n # None, CanStartAsNext(w, n), v = ClearPending(StartAsNext(w, n), c)
        PROVE  Sound(v) /\ Served(v)
    <3> DEFINE x == StartAsNext(w, n)
    <3>1. Sound(x) /\ Served(x)
      BY <2>4, <2>5, StartAsNextServed
    <3>2. v = ClearPending(x, c)
      BY <2>5
    <3> HIDE DEF x
    <3> QED
      BY <3>1, <3>2, ClearPendingServed
  <2> QED
    BY <2>1, <2>3, <2>5, StartReadyServed
<1> QED
  BY <1>1, <1>2

\* what the end of a source leaves: only a loop point keeps its player started
Completed(u, w, c) ==
  /\ Sound(u) /\ Elsewhere(u, w, c) /\ Calm(u, w) /\ Steady(u, w, c)
  /\ \A r \in Playable : Has(u, c, r) => \E s \in Playable : Source(u, c, r) = Source(w, c, s)
  /\ Source(u, c, "preparing") = Source(w, c, "preparing") /\ Kept(u, w, c) /\ ~Has(u, c, "next")
  /\ On(u, c) => Looped(w, c) /\ ~Has(u, c, "ready")

LEMMA CompletedUnplayed ==
  ASSUME NEW w, Sound(w), NEW c \in Clients, ~On(w, c), NEW u, u = AfterNext(Release(w, c, "ready"), c)
  PROVE  Completed(u, w, c)
<1> DEFINE b == Release(w, c, "ready")
<1>0. \A r \in {"ready", "active", "next", "preparing"} : r \in Roles
  BY DEF Roles
<1>1. Sound(b) /\ Emptied(b, w, c, "ready") /\ Elsewhere(b, w, c) /\ Calm(b, w) /\ Steady(b, w, c)
  BY <1>0, ReleaseSound
<1>2. u = AfterNext(b, c)
  OBVIOUS
<1> HIDE DEF b
<1>3. ~Has(b, c, "active")
  BY <1>0, <1>1 DEF Emptied, Has, Sound, Flagged
<1>4. Sound(u) /\ Elsewhere(u, b, c) /\ Calm(u, b) /\ Steady(u, b, c)
  BY <1>1, <1>2, <1>3, AfterNextSound
<1>5. /\ \A r \in Roles \ {"next", "ready"} : Source(u, c, r) = Source(b, c, r)
      /\ Source(u, c, "ready") \in {Source(b, c, "next"), Source(b, c, "ready")} /\ ~Has(u, c, "next")
      /\ On(u, c) = On(b, c) /\ Kept(u, b, c)
  BY <1>1, <1>2, <1>3, AfterNextSound
<1>6. Elsewhere(u, w, c) /\ Calm(u, w) /\ Steady(u, w, c)
  BY <1>1, <1>4, ElsewhereTrans, CalmTrans, SteadyTrans
<1>7. Source(u, c, "preparing") = Source(w, c, "preparing") /\ Source(u, c, "active") = Source(w, c, "active")
  BY <1>0, <1>1, <1>5 DEF Emptied
<1>8. Has(u, c, "ready") => Source(u, c, "ready") = Source(w, c, "next")
  BY <1>0, <1>1, <1>5 DEF Emptied, Has
<1>9. Kept(u, w, c)
  <2>1. Source(b, c, "preparing") = Source(w, c, "preparing") /\ Kept(b, w, c)
    BY <1>0, <1>1 DEF Emptied
  <2>2. Kept(u, b, c)
    BY <1>5
  <2> QED
    BY <1>7, <2>1, <2>2 DEF Kept, Has
<1> QED
  BY <1>1, <1>4, <1>5, <1>6, <1>7, <1>8, <1>9 DEF Completed, Playable, Emptied

\* the source played is released, and the next one, if there is one, is ready
LEMMA CompletedPlayed ==
  ASSUME NEW w, Sound(w), NEW c \in Clients, On(w, c), Reason(w, c) # "preparing",
         NEW x, x = AfterNext(Release(Release(w, c, "old"), c, "active"), c),
         NEW u, u = IF Looped(w, c) THEN Move(x, c, "ready", "active") ELSE SetStarted(x, c, FALSE)
  PROVE  Completed(u, w, c)
<1> DEFINE o == Release(w, c, "old")
           a == Release(o, c, "active")
<1>0. \A r \in {"old", "ready", "active", "next", "preparing"} : r \in Roles
  BY DEF Roles
<1>1. Sound(o) /\ Emptied(o, w, c, "old") /\ Elsewhere(o, w, c) /\ Calm(o, w) /\ Steady(o, w, c)
  BY <1>0, ReleaseSound
<1>2. x = AfterNext(a, c)
  OBVIOUS
<1> HIDE DEF o
<1>3. Sound(a) /\ Emptied(a, o, c, "active") /\ Elsewhere(a, o, c) /\ Calm(a, o) /\ Steady(a, o, c)
  BY <1>0, <1>1, ReleaseSound
<1> HIDE DEF a
<1>4. ~Has(a, c, "active")
  BY <1>0, <1>3 DEF Emptied, Has
<1>5. Sound(x) /\ Elsewhere(x, a, c) /\ Calm(x, a) /\ Steady(x, a, c)
  BY <1>2, <1>3, <1>4, AfterNextSound
<1>6. /\ \A r \in Roles \ {"next", "ready"} : Source(x, c, r) = Source(a, c, r)
      /\ Source(x, c, "ready") \in {Source(a, c, "next"), Source(a, c, "ready")} /\ ~Has(x, c, "next")
      /\ On(x, c) = On(a, c) /\ Kept(x, a, c)
  BY <1>2, <1>3, <1>4, AfterNextSound
<1>7. Elsewhere(x, w, c) /\ Calm(x, w) /\ Steady(x, w, c)
  BY <1>1, <1>3, <1>5, ElsewhereTrans, CalmTrans, SteadyTrans
<1>8. /\ Source(x, c, "preparing") = Source(w, c, "preparing") /\ ~Has(x, c, "active")
      /\ Source(x, c, "ready") \in {Source(w, c, "next"), Source(w, c, "ready")}
      /\ On(x, c)
  BY <1>0, <1>1, <1>3, <1>6 DEF Emptied, Has
<1>9. Kept(x, w, c)
  <2>1. Source(a, c, "preparing") = Source(w, c, "preparing") /\ Source(o, c, "preparing") = Source(w, c, "preparing")
    BY <1>0, <1>1, <1>3 DEF Emptied
  <2> QED
    BY <1>1, <1>3, <1>6, <1>8, <2>1 DEF Emptied, Kept, Has
<1>10. CASE Looped(w, c)
  <2>1. u = Move(x, c, "ready", "active")
    BY <1>10
  <2> HIDE DEF Looped
  <2>2. Reason(x, c) # "preparing"
    BY <1>9 DEF Kept
  <2>3. Sound(u) /\ Elsewhere(u, x, c) /\ Shifted(u, x, c, "ready", "active") /\ Calm(u, x) /\ Steady(u, x, c)
    BY <1>5, <1>8, <2>1, <2>2, ReadyToActiveSound
  <2>4. Elsewhere(u, w, c) /\ Calm(u, w) /\ Steady(u, w, c)
    BY <1>7, <2>3, ElsewhereTrans, CalmTrans, SteadyTrans
  <2>5. /\ Source(u, c, "preparing") = Source(w, c, "preparing") /\ ~Has(u, c, "next") /\ ~Has(u, c, "ready")
        /\ Source(u, c, "active") = Source(x, c, "ready")
    BY <1>0, <1>6, <1>8, <2>3 DEF Shifted, Has
  <2>6. Kept(u, w, c)
    BY <1>8, <1>9, <2>3, <2>5 DEF Shifted, Kept, Has
  <2>7. \A r \in Playable : Has(u, c, r) => \E s \in Playable : Source(u, c, r) = Source(w, c, s)
    BY <1>8, <2>5 DEF Playable
  <2> QED
    BY <1>10, <2>3, <2>4, <2>5, <2>6, <2>7 DEF Completed
<1>11. CASE ~Looped(w, c)
  <2>1. u = SetStarted(x, c, FALSE)
    BY <1>11
  <2>2. /\ Sound(u) /\ Elsewhere(u, x, c) /\ Calm(u, x) /\ Steady(u, x, c)
        /\ \A r \in Roles : Source(u, c, r) = Source(x, c, r)
        /\ ~On(u, c) /\ Waits(u, c) = Waits(x, c) /\ Reason(u, c) = Reason(x, c)
    BY <1>5, <1>8, <2>1, EndedSound
  <2>4. Elsewhere(u, w, c) /\ Calm(u, w) /\ Steady(u, w, c)
    BY <1>7, <2>2, ElsewhereTrans, CalmTrans, SteadyTrans
  <2>5. /\ Source(u, c, "preparing") = Source(w, c, "preparing") /\ ~Has(u, c, "next") /\ ~Has(u, c, "active")
        /\ Source(u, c, "ready") = Source(x, c, "ready")
    BY <1>0, <1>6, <1>8, <2>2 DEF Has
  <2>6. Kept(u, w, c)
    BY <1>8, <1>9, <2>2, <2>5 DEF Kept, Has
  <2>7. \A r \in Playable : Has(u, c, r) => \E s \in Playable : Source(u, c, r) = Source(w, c, s)
    BY <1>8, <2>5 DEF Playable
  <2> QED
    BY <2>2, <2>4, <2>5, <2>6, <2>7 DEF Completed
<1> QED
  BY <1>10, <1>11

LEMMA PlaybackCompletionServed ==
  ASSUME NEW w, Sound(w), Served(w), NEW c \in Clients, NEW y \in PlaybackCompletion(w, c)
  PROVE  Sound(y) /\ Served(y)
<1>1. CASE ~IsCompleted(w, c)
  <2>1. y = w
    BY <1>1 DEF PlaybackCompletion
  <2> QED
    BY <2>1
<1>2. CASE IsCompleted(w, c)
  <2> DEFINE x == AfterNext(Release(Release(w, c, "old"), c, "active"), c)
             u == IF ~On(w, c) THEN AfterNext(Release(w, c, "ready"), c)
                  ELSE IF Looped(w, c) THEN Move(x, c, "ready", "active")
                  ELSE SetStarted(x, c, FALSE)
             v == Refresh(u, c)
             none == \A r \in Roles \ {"old"} : ~Has(v, c, r)
  <2>0. \A r \in {"ready", "active", "next", "preparing"} : r \in Roles \ {"old"}
    BY DEF Roles
  <2>1. IF none THEN y \in Creations(v, c, "rewinding") ELSE y = v
    BY <1>2 DEF PlaybackCompletion, AfterNext, On
  <2>2. Reason(w, c) # "preparing"
    BY <1>2 DEF IsCompleted, Current, Sound, Flagged, Has
  <2>3. Completed(u, w, c)
    <3>1. CASE ~On(w, c)
      BY <3>1, CompletedUnplayed
    <3>2. CASE On(w, c)
      <4>1. u = IF Looped(w, c) THEN Move(x, c, "ready", "active") ELSE SetStarted(x, c, FALSE)
        BY <3>2
      <4>2. x = AfterNext(Release(Release(w, c, "old"), c, "active"), c)
        OBVIOUS
      <4> HIDE DEF u, x
      <4> QED
        BY <2>2, <3>2, <4>1, <4>2, CompletedPlayed
    <3> QED
      BY <3>1, <3>2
  <2> HIDE DEF u
  <2>4. Sound(v) /\ Elsewhere(v, u, c) /\ Alike(v, u, c) /\ Calm(v, u) /\ Steady(v, u, c)
    BY <2>3, RefreshSound DEF Completed
  <2> HIDE DEF v
  <2>5. Elsewhere(v, w, c) /\ Calm(v, w) /\ Steady(v, w, c)
    BY <2>3, <2>4, ElsewhereTrans, CalmTrans, SteadyTrans DEF Completed
  <2>6. /\ Source(v, c, "preparing") = Source(w, c, "preparing") /\ ~Has(v, c, "next")
        /\ On(v, c) => Looped(w, c) /\ ~Has(v, c, "ready")
    BY <2>0, <2>3, <2>4 DEF Completed, Alike, Has
  <2>7. Kept(v, w, c)
    BY <2>3, <2>4, <2>6 DEF Completed, Alike, Kept, Has
  <2>8. Rearranged(v, w, c)
    <3>1. ASSUME NEW r \in Playable, Has(v, c, r) PROVE \E s \in Playable : Source(v, c, r) = Source(w, c, s)
      <4>1. Source(v, c, r) = Source(u, c, r) /\ Has(u, c, r)
        BY <3>1, <2>4 DEF Alike, Has, Playable, Roles
      <4> QED
        BY <4>1, <2>3 DEF Completed
    <3> QED
      BY <2>6, <2>7, <3>1 DEF Rearranged, Kept
  <2>9. NoSeeks => Supplied(w, c)
    BY DEF Served, ServedAt
  <2>10. Faultless(w) => Promised(w, c)
    BY DEF Served, ServedAt
  <2>11. Looped(w, c) => Cause(w, c) = "stoppedEndLoop"
    BY DEF Looped, Cause
  <2>12. CASE none
    <3>1. \A r \in Playable \cup {"preparing"} : ~Has(v, c, r)
      BY <2>12, <2>0 DEF Playable
    <3>2. NoSeeks => ~Seeks(v, c)
      BY <2>5, <2>9 DEF Supplied, Steady
    <3>3. Faultless(v) => /\ "null active_source_" \notin v.asserts /\ (Cause(v, c) = "stoppedEndLoop" => NoSeeks)
                          /\ On(v, c) => NoSeeks /\ ~Has(v, c, "ready")
      BY <2>5, <2>6, <2>10, <2>11 DEF Promised, Faultless, Calm, Steady
    <3>4. (\A d \in Clients \ {c} : ServedAt(v, d)) /\ (NoLoops => Unlooped(v))
      BY <2>4, <2>5, CalmOthers
    <3>5. "rewinding" \in Reasons \ {"none"} /\ "rewinding" \notin {"preparing", "seeking"}
      BY DEF Reasons
    <3>6. y \in Creations(v, c, "rewinding")
      BY <2>1, <2>12
    <3> QED
      BY <2>4, <3>1, <3>2, <3>3, <3>4, <3>5, <3>6, CreationsServed
  <2>13. CASE ~none
    <3>0. y = v
      BY <2>1, <2>13
    <3>1. Has(v, c, "active") \/ Has(v, c, "ready") \/ Has(v, c, "preparing")
      BY <2>6, <2>13 DEF Roles
    <3>2. Faultless(w) => ToPlay(v, c)
      <4> SUFFICES ASSUME Faultless(w), On(v, c), ~Has(v, c, "active")
                   PROVE  NoSeeks /\ Has(v, c, "preparing") /\ Reason(v, c) = "rewinding"
        BY <2>6 DEF ToPlay
      <4>1. NoSeeks
        BY <2>6, <2>10, <2>11 DEF Promised
      <4>2. Has(v, c, "preparing") /\ Has(w, c, "preparing")
        BY <3>1, <2>6 DEF Has
      <4>3. Reason(v, c) = Reason(w, c) /\ Reason(w, c) \notin {"none", "preparing", "seeking"}
        BY <2>2, <2>7, <2>9, <4>1, <4>2 DEF Kept, Supplied, Sound, Flagged
      <4>4. Reason(w, c) \in Reasons
        BY DEF Sound, Worlds, PlayerFields, Reason
      <4> QED
        BY <4>1, <4>2, <4>3, <4>4 DEF Reasons
    <3>3. ToStart(v, c)
      BY <2>4, <3>1 DEF ToStart, Sound, Flagged
    <3>4. Reason(v, c) # "preparing"
      BY <2>2, <2>7 DEF Kept
    <3> QED
      BY <2>4, <2>5, <2>8, <3>0, <3>2, <3>3, <3>4, CalmServed
  <2> QED
    BY <2>12, <2>13
<1> QED
  BY <1>1, <1>2

LEMMA PollPlayerServed ==
  ASSUME NEW w, Sound(w), Served(w), NEW c \in Clients, NEW y \in PollPlayer(w, c)
  PROVE  Sound(y) /\ Served(y)
<1>1. CASE ~PollRequired(w, c)
  BY <1>1 DEF PollPlayer
<1>2. CASE PollRequired(w, c)
  <2>1. PICK v \in PendingSeek(w, c) :
          \E x \in RewoundCreation(v, c) : y \in PlaybackCompletion(PendingStart(PollPreparing(x, c), c), c)
    BY <1>2 DEF PollPlayer
  <2>2. PICK x \in RewoundCreation(v, c) : y \in PlaybackCompletion(PendingStart(PollPreparing(x, c), c), c)
    BY <2>1
  <2> DEFINE p == PollPreparing(x, c)
             s == PendingStart(p, c)
  <2>3. Sound(v) /\ Served(v)
    BY PendingSeekServed
  <2>4. Sound(x) /\ Served(x)
    BY <2>3, RewoundCreationServed
  <2>5. Sound(p) /\ Served(p)
    BY <2>4, PollPreparingServed
  <2>6. y \in PlaybackCompletion(s, c)
    BY <2>2
  <2> HIDE DEF p
  <2>7. Sound(s) /\ Served(s)
    BY <2>5, PendingStartServed
  <2> HIDE DEF s
  <2> QED
    BY <2>6, <2>7, PlaybackCompletionServed
<1> QED
  BY <1>1, <1>2

\* Every player is served after every player has been polled.
LEMMA PolledServed ==
  ASSUME Sound(World), Served(World), NEW w \in Polled[Len(ClientList)]
  PROVE  Sound(w) /\ Served(w)
<1> DEFINE N == Len(ClientList)
           f == CHOOSE k : PolledUpTo(k, N)
<1>0. N \in Nat /\ \A i \in 1 .. N : ClientList[i] \in Clients
  BY ClientListAssumption
<1>1. PolledUpTo(f, N)
  BY <1>0, PolledExists
<1>2. Polled = f
  BY DEF Polled, PolledUpTo
<1> HIDE DEF f
<1> DEFINE P == {n \in 0 .. N : \A x \in f[n] : Sound(x) /\ Served(x)}
<1>3. 0 \in P
  BY <1>0, <1>1 DEF PolledUpTo
<1>4. ASSUME NEW n \in 0 .. N - 1, n \in P PROVE n + 1 \in P
  <2>1. n + 1 \in 0 .. N /\ n + 1 # 0 /\ (n + 1) - 1 = n /\ n + 1 \in 1 .. N
    BY <1>0
  <2>2. f[n + 1] = UNION {PollPlayer(x, ClientList[n + 1]) : x \in f[n]}
    BY <1>1, <2>1 DEF PolledUpTo
  <2>3. ASSUME NEW y \in f[n + 1] PROVE Sound(y) /\ Served(y)
    <3>1. PICK x \in f[n] : y \in PollPlayer(x, ClientList[n + 1])
      BY <2>2, <2>3
    <3> QED
      BY <1>0, <1>4, <2>1, <3>1, PollPlayerServed
  <2> QED
    BY <2>1, <2>3
<1>5. 0 .. N \subseteq P
  <2> HIDE DEF P
  <2> QED
    BY <1>0, <1>3, <1>4, NaturalsUpTo
<1> QED
  BY <1>0, <1>2, <1>5

-----------------------------------------------------------------------------
(* What the mixer's events leave to play.                                  *)

LEMMA ResumedServed ==
  ASSUME NEW w, Sound(w), Served(w), NEW p \in Pipes, NEW v, v = Resumed(w, p) \/ v = Paused(w, p)
  PROVE  Served(v)
<1>1. w.decoder \in [Pipes -> DecoderStates]
  BY DEF Sound, Worlds
<1>2. /\ v.players = w.players /\ v.asserts = w.asserts /\ v.data_end = w.data_end /\ v.looping = w.looping
      /\ \A q \in Pipes : \/ v.decoder[q] = w.decoder[q]
                          \/ w.decoder[q] \in Playing /\ v.decoder[q] \in Playing
  <2> DEFINE r == [w.decoder EXCEPT ![p] = IF w.decoder[p] = "paused" THEN "playing" ELSE w.decoder[p]]
             s == [w.decoder EXCEPT ![p] = IF w.decoder[p] = "playing" THEN "paused" ELSE w.decoder[p]]
  <2>1. \A q \in Pipes : r[q] = w.decoder[q] \/ (w.decoder[q] \in Playing /\ r[q] \in Playing)
    BY <1>1 DEF Playing
  <2>2. \A q \in Pipes : s[q] = w.decoder[q] \/ (w.decoder[q] \in Playing /\ s[q] \in Playing)
    BY <1>1 DEF Playing
  <2>3. v = [w EXCEPT !.decoder = r] \/ v = [w EXCEPT !.decoder = s]
    BY DEF Resumed, Paused
  <2> HIDE DEF r, s
  <2> QED
    BY <2>1, <2>2, <2>3 DEF Sound, Worlds
<1>3. \A d \in Clients, r \in Roles : Has(w, d, r) => Source(w, d, r) \in Pipes
  BY SourceTyped DEF Has, Sound
<1>4. \A q \in Pipes : Survives(v, w, q)
  BY <1>2 DEF Survives, Playing, Unready
<1>5. NoLoops => Unlooped(v)
  BY <1>2 DEF Served, Unlooped
<1> QED
  BY <1>2, <1>3, <1>4, <1>5, SurvivesServed

LEMMA OnMixingStartedServed ==
  ASSUME NEW w, Sound(w), Served(w), NEW c \in Clients, NEW p \in Pipes, NEW cause,
         NEW v, v = OnMixingStarted(w, c, p, cause)
  PROVE  Sound(v) /\ Served(v)
<1> DEFINE u == Resumed(w, p)
<1>1. \/ v = u \/ v = w
      \/ Has(w, c, "ready") /\ v = ClearPending(SetStarted(Move(u, c, "ready", "active"), c, TRUE), c)
  <2> DEFINE x == ClearPending(SetStarted(Move(u, c, "ready", "active"), c, TRUE), c)
             fits == ~w.players[c].started /\ cause = "startedNoLoop"
  <2>1. v = CASE Source(w, c, "active") = p \/ Source(w, c, "old") = p -> u
              [] Source(w, c, "ready") = p -> IF fits THEN x ELSE w
              [] Source(w, c, "next") = p -> IF cause = "startedLoop" THEN u ELSE w
              [] OTHER -> w
    BY DEF OnMixingStarted
  <2> HIDE DEF x, u, fits
  <2>2. v = u \/ v = w \/ (Source(w, c, "ready") = p /\ v = x)
    BY <2>1
  <2>3. Source(w, c, "ready") = p => Has(w, c, "ready")
    BY DEF Has
  <2> QED
    BY <2>2, <2>3 DEF x
<1>2. Sound(u) /\ Alike(u, w, c) /\ Served(u)
  BY ResumedSound, ResumedServed
<1> HIDE DEF u
<1>3. Has(w, c, "ready") => Has(u, c, "ready")
  BY <1>2 DEF Alike, Has, Roles
<1>4. ASSUME Has(w, c, "ready"), v = ClearPending(SetStarted(Move(u, c, "ready", "active"), c, TRUE), c)
      PROVE  Sound(v) /\ Served(v)
  <2>1. Sound(v) /\ Elsewhere(v, u, c) /\ Begun(v, u, c) /\ Calm(v, u) /\ Steady(v, u, c)
    BY <1>2, <1>3, <1>4, StartedSound
  <2>2. Reason(u, c) # "preparing"
    BY <1>2, <1>3, <1>4 DEF Sound, Flagged
  <2> QED
    BY <1>2, <1>3, <1>4, <2>1, <2>2, BegunServed
<1> QED
  BY <1>1, <1>2, <1>4

\* Only where something loops does a source stop at a loop point.
LEMMA OnMixingStoppedServed ==
  ASSUME NEW w, Sound(w), Served(w), NEW c \in Clients, NEW p \in Pipes, NEW cause \in Causes,
         NoLoops => cause # "stoppedEndLoop", NEW v, v = OnMixingStopped(w, c, p, cause)
  PROVE  Sound(v) /\ Served(v)
<1> DEFINE pl == [w.players[c] EXCEPT !.stop_cause = cause]
           x == Put(w, c, pl)
           u == IF Current(w, c) = p THEN x ELSE w
<1>1. v = Paused(u, p) \/ v = Release(u, c, "old") \/ v = u
  BY DEF OnMixingStopped, Put
<1>2. w.players[c] \in PlayerFields
  BY DEF Sound, Worlds
<1>3. /\ pl \in PlayerFields /\ pl.src = w.players[c].src /\ pl.reason = w.players[c].reason
      /\ pl.started = w.players[c].started /\ pl.start_pending = w.players[c].start_pending
      /\ pl.seek_pending = w.players[c].seek_pending /\ pl.prepared = w.players[c].prepared
      /\ pl.stop_cause = cause
  BY <1>2 DEF PlayerFields
<1> HIDE DEF pl
<1>4. /\ Sound(x) /\ Elsewhere(x, w, c) /\ Alike(x, w, c) /\ Calm(x, w) /\ Reason(x, c) = Reason(w, c)
      /\ Seeks(x, c) = pl.seek_pending /\ Prepared(x, c) = pl.prepared /\ Cause(x, c) = pl.stop_cause
  BY <1>3, QuietSound
<1> HIDE DEF x
<1>5. Seeks(x, c) = Seeks(w, c) /\ Prepared(x, c) = Prepared(w, c) /\ Cause(x, c) = cause
  BY <1>3, <1>4 DEF Seeks, Prepared
<1>6. \A r \in Roles : Has(x, c, r) =>
        /\ Has(w, c, r) /\ Source(x, c, r) = Source(w, c, r)
        /\ x.decoder[Source(x, c, r)] = w.decoder[Source(x, c, r)]
        /\ x.data_end[Source(x, c, r)] = w.data_end[Source(x, c, r)]
  <2>1. \A r \in Roles : Has(x, c, r) => Source(x, c, r) \in x.sources
    BY <1>4, SourceTyped DEF Sound, Owned, Has
  <2> QED
    BY <1>4, <2>1 DEF Alike, Has, Calm
<1>7. "preparing" \in Roles /\ \A r \in Playable : r \in Roles
  BY DEF Playable, Roles
<1>8. NoSeeks => Supplied(x, c)
  BY <1>4, <1>5, <1>6, <1>7 DEF Served, ServedAt, Supplied, Fed
<1>9. Faultless(x) = Faultless(w) /\ x.asserts = w.asserts
  BY <1>4 DEF Faultless, Calm
<1>10. Faultless(w) => Promised(x, c)
  <2> SUFFICES ASSUME Faultless(w) PROVE Promised(x, c)
    OBVIOUS
  <2>1. Promised(w, c)
    BY DEF Served, ServedAt
  <2>2. ToPlay(x, c) /\ ToStart(x, c)
    BY <1>4, <1>5, <2>1 DEF Promised, ToPlay, ToStart, Alike, Has, Roles
  <2>3. Cause(x, c) = "stoppedEndLoop" => NoSeeks
    BY <1>5 DEF Faultless
  <2> QED
    BY <1>4, <1>5, <1>9, <2>1, <2>2, <2>3 DEF Promised, Alike
<1>11. Faultless(w) => Prepares(x, c)
  BY <1>6, <1>7 DEF Served, ServedAt, Prepares
<1>12. Served(x)
  <2>1. ServedAt(x, c)
    BY <1>8, <1>9, <1>10, <1>11 DEF ServedAt
  <2>2. Spared(x, w, c) /\ w.asserts \subseteq x.asserts /\ (NoLoops => Unlooped(x))
    BY <1>4, CalmSpares DEF Served
  <2>3. \A d \in Clients \ {c} : ServedAt(w, d)
    BY DEF Served
  <2> QED
    BY <1>4, <2>1, <2>2, <2>3, ServedElsewhere
<1>13. Sound(u) /\ Served(u)
  BY <1>4, <1>12
<1> HIDE DEF u
<1>14. ASSUME v = Paused(u, p) PROVE Sound(v) /\ Served(v)
  BY <1>13, <1>14, ResumedSound, ResumedServed
<1>15. ASSUME v = Release(u, c, "old") PROVE Sound(v) /\ Served(v)
  <2>1. Sound(v) /\ Elsewhere(v, u, c) /\ Emptied(v, u, c, "old") /\ Calm(v, u) /\ Steady(v, u, c)
    BY <1>13, <1>15, ReleaseSound DEF Roles
  <2>2. \A r \in Roles \ {"old"} : Source(v, c, r) = Source(u, c, r)
    BY <2>1 DEF Emptied
  <2>3. Rearranged(v, u, c)
    BY <2>1, <2>2 DEF Rearranged, Emptied, Kept, Playable, Roles
  <2>4. On(v, c) = On(u, c) /\ Waits(v, c) = Waits(u, c)
    BY <2>1 DEF Emptied
  <2>5. Faultless(u) => ToPlay(v, c) /\ ToStart(v, c)
    <3>1. Faultless(u) => ToPlay(u, c) /\ ToStart(u, c)
      BY <1>13 DEF Served, ServedAt, Promised
    <3>2. Kept(v, u, c) /\ Seeks(v, c) = Seeks(u, c)
      BY <2>1 DEF Emptied, Steady
    <3> QED
      BY <2>2, <2>4, <3>1, <3>2 DEF ToPlay, ToStart, Kept, Has, Roles
  <2> QED
    BY <1>13, <2>1, <2>3, <2>4, <2>5, CalmServed
<1> QED
  BY <1>1, <1>13, <1>14, <1>15

-----------------------------------------------------------------------------
(* Where no client loops, no source stops at a loop point: the mixer sees  *)
(* no loop, marks none, and reports none.                                  *)

LooplessSlots(c) == \A p \in Pipes : "looped" \notin c.flags[p] /\ c.state[p] # "stoppedEndLoop"
LooplessReport(slots) == \A p \in Pipes : slots[p] # None => slots[p].state # "stoppedEndLoop"
Loopless ==
  /\ looping = {} /\ seen_looping = {} /\ \A p \in Pipes : data_end[p] # "loop"
  /\ LooplessSlots(Context)
  /\ \A i \in 1..Len(notify_queue) : LooplessReport(notify_queue[i].slots)
  /\ item # None => LooplessReport(item.slots)

LEMMA LooplessInitialize ==
  ASSUME LooplessSlots(Context), \A p \in Pipes : data_end[p] # "loop", NEW request
  PROVE  LooplessSlots(InitializeSources(request))
<1>1. \A f, o : "looped" \notin f => "looped" \notin OperationFlags(f, o)
  BY DEF OperationFlags
<1>2. \A p \in Pipes : "looped" \notin EndFlags(p)
  BY DEF EndFlags
<1>3. \A s, o : s # "stoppedEndLoop" => UpdatedState(s, o) # "stoppedEndLoop"
  BY DEF UpdatedState
<1>4. \A o : AttachedState(o) # "stoppedEndLoop"
  BY DEF AttachedState
<1>5. ASSUME NEW p \in Pipes
      PROVE  "looped" \notin InitializeSources(request).flags[p] /\ InitializeSources(request).state[p] # "stoppedEndLoop"
  <2>1. "looped" \notin flags[p] /\ slot_state[p] # "stoppedEndLoop"
    BY DEF LooplessSlots, Context
  <2>2. InitializeSources(request).flags[p] = flags[p]
        \/ \E f, o : InitializeSources(request).flags[p] = OperationFlags(f \cup EndFlags(p), o) /\ f \in {flags[p], {}}
    BY DEF InitializeSources
  <2>3. \/ InitializeSources(request).state[p] = slot_state[p]
        \/ \E o : InitializeSources(request).state[p] = UpdatedState(slot_state[p], o)
        \/ \E o : InitializeSources(request).state[p] = AttachedState(o)
    BY DEF InitializeSources
  <2>4. "looped" \notin InitializeSources(request).flags[p]
    <3>1. \A f \in {flags[p], {}} : "looped" \notin f \cup EndFlags(p)
      BY <1>2, <2>1
    <3> QED
      BY <1>1, <2>1, <2>2, <3>1
  <2> QED
    BY <1>3, <1>4, <2>1, <2>3, <2>4
<1> QED
  BY <1>5 DEF LooplessSlots

LEMMA LooplessEnds ==
  ASSUME NEW c \in Contexts, LooplessSlots(c), seen_looping = {}, NEW S
  PROVE  LooplessSlots(EndsAfter(c, S))
BY DEF EndsAfter, Contexts, LooplessSlots

LEMMA LooplessStart ==
  ASSUME NEW c \in Contexts, LooplessSlots(c), NEW fire
  PROVE  LooplessSlots(CheckStartConditions(c, fire))
BY DEF CheckStartConditions, LooplessSlots

LEMMA LooplessStop ==
  ASSUME NEW c \in Contexts, LooplessSlots(c), NEW faded
  PROVE  LooplessSlots(CheckStopConditions(c, faded))
<1>1. \A p \in Pipes : StopState(c.flags[p]) # "stoppedEndLoop"
  BY DEF StopState, LooplessSlots
<1> QED
  BY <1>1 DEF CheckStopConditions, LooplessSlots

LEMMA LooplessCleanUp ==
  ASSUME NEW c \in Contexts, LooplessSlots(c)
  PROVE  LooplessSlots(CleanUp(c))
BY DEF CleanUp, LooplessSlots

LEMMA LooplessReports ==
  ASSUME NEW c \in Contexts, LooplessSlots(c), NEW D
  PROVE  LooplessReport(ReportOf(c, D))
BY DEF ReportOf, LooplessSlots, LooplessReport

LEMMA LooplessConsume ==
  ASSUME Loopless, NEW c, NEW S, ConsumeEnds(c, S)
  PROVE  \A p \in Pipes : data_end'[p] # "loop"
BY DEF Loopless, ConsumeEnds

LEMMA LooplessContext ==
  ASSUME NEW c, NEW updated, SetContext(c, updated), LooplessSlots(c)
  PROVE  LooplessSlots(Context)'
BY DEF SetContext, LooplessSlots, Context

LEMMA LooplessMix ==
  ASSUME TypeOK, Loopless, MixerMix
  PROVE  /\ LooplessSlots(Context)' /\ \A p \in Pipes : data_end'[p] # "loop"
         /\ \/ UNCHANGED notify_queue
            \/ \E sent : notify_queue' = Append(notify_queue, sent) /\ LooplessReport(sent.slots)
<1>1. PICK S \in SUBSET ReachedEnd(Context), e \in Contexts, updated \in SUBSET Pipes :
        /\ ConsumeEnds(Context, S)
        /\ \E fire \in Firings(EndsAfter(Context, S)), faded \in SUBSET Pipes :
             e = CheckStopConditions(CheckStartConditions(EndsAfter(Context, S), fire), faded)
        /\ (SetContext(e, updated) /\ UNCHANGED notify_queue) \/ Notify(e, updated)
  BY MixerMixOutcome
<1> DEFINE c == EndsAfter(Context, S)
<1>2. PICK fire \in Firings(c), faded \in SUBSET Pipes : e = CheckStopConditions(CheckStartConditions(c, fire), faded)
  BY <1>1
<1>3. c \in Contexts /\ LooplessSlots(c)
  BY ContextTyped, EndsAfterTyped, LooplessEnds DEF Loopless
<1> HIDE DEF c
<1> DEFINE d == CheckStartConditions(c, fire)
<1>4. d \in Contexts /\ LooplessSlots(d)
  BY <1>3, CheckStartConditionsTyped, LooplessStart
<1>5. e = CheckStopConditions(d, faded)
  BY <1>2
<1> HIDE DEF d
<1>6. LooplessSlots(e)
  BY <1>4, <1>5, LooplessStop
<1>7. \A p \in Pipes : data_end'[p] # "loop"
  BY <1>1, LooplessConsume
<1>8. CASE SetContext(e, updated) /\ UNCHANGED notify_queue
  BY <1>6, <1>7, <1>8, LooplessContext
<1>9. CASE Notify(e, updated)
  <2> DEFINE sent == MixerItem(updated, ReportOf(e, updated))
  <2>1. \/ SetContext(e, {}) /\ notify_queue' = Append(notify_queue, sent)
        \/ SetContext(e, updated) /\ UNCHANGED notify_queue
    BY <1>9 DEF Notify
  <2>2. LooplessReport(sent.slots)
    BY <1>6, LooplessReports DEF MixerItem
  <2> HIDE DEF sent
  <2> QED
    BY <1>6, <1>7, <2>1, <2>2, LooplessContext
<1> QED
  BY <1>1, <1>8, <1>9

LEMMA LooplessRequest ==
  ASSUME TypeOK, Loopless, MixerUpdateRequest
  PROVE  /\ LooplessSlots(Context)'
         /\ \E sent : notify_queue' = Append(notify_queue, sent) /\ LooplessReport(sent.slots)
<1> DEFINE request == Head(request_queue)
           c == InitializeSources(request)
           updated == current.updated \cup request.updated
           sent == RequestItem(updated, ReportOf(c, updated))
<1>1. request \in Items(Slots)
  BY DEF MixerUpdateRequest, TypeOK
<1>2. c \in Contexts /\ LooplessSlots(c)
  BY <1>1, InitializeSourcesTyped, LooplessInitialize DEF Loopless
<1>3. PICK fire \in Firings(c) : SetContext(CleanUp(CheckStartConditions(c, fire)), {})
  BY DEF MixerUpdateRequest
<1>4. notify_queue' = Append(notify_queue, sent)
  BY DEF MixerUpdateRequest
<1> HIDE DEF c
<1>5. LooplessSlots(Context)'
  BY <1>2, <1>3, CheckStartConditionsTyped, LooplessStart, LooplessCleanUp, LooplessContext
<1>6. LooplessReport(sent.slots)
  BY <1>2, LooplessReports DEF RequestItem
<1> HIDE DEF sent
<1> QED
  BY <1>4, <1>5, <1>6

\* what the mixer thread does
LEMMA LooplessMixer ==
  ASSUME TypeOK, Loopless, MixerThread
  PROVE  Loopless'
<1> USE DEF requestVars, mixerVars, pipeVars
<1>0. notify_queue \in Seq(Items(Reports)) /\ UNCHANGED <<looping, item>>
  BY DEF TypeOK, MixerThread, MixerTop, MixerUnpark, MixerParkedPoll, MixerUpdateRequest, MixerUpdateRecycle, MixerMix
<1>1. ASSUME NEW sent, notify_queue' = Append(notify_queue, sent), LooplessReport(sent.slots)
      PROVE  \A i \in 1..Len(notify_queue') : LooplessReport(notify_queue'[i].slots)
  BY <1>0, <1>1, AppendQueue DEF Loopless
<1>2. ASSUME UNCHANGED notify_queue
      PROVE  \A i \in 1..Len(notify_queue') : LooplessReport(notify_queue'[i].slots)
  BY <1>2 DEF Loopless
<1>3. CASE MixerTop \/ MixerUnpark
  BY <1>0, <1>2, <1>3 DEF MixerTop, MixerUnpark, BeginIteration, Loopless, LooplessSlots, Context
<1>4. CASE MixerParkedPoll
  <2>1. PICK S \in SUBSET ReachedEnd(Context) : ConsumeEnds(Context, S) /\ flags' = EndsAfter(Context, S).flags
    BY <1>4 DEF MixerParkedPoll
  <2>2. LooplessSlots(EndsAfter(Context, S)) /\ EndsAfter(Context, S).state = slot_state
    <3>1. EndsAfter(Context, S).state = slot_state
      BY DEF EndsAfter, Context
    <3> QED
      BY <3>1, ContextTyped, LooplessEnds DEF Loopless
  <2>3. LooplessSlots(Context)'
    BY <1>4, <2>1, <2>2 DEF MixerParkedPoll, LooplessSlots, Context
  <2>4. \A p \in Pipes : data_end'[p] # "loop"
    BY <2>1, LooplessConsume
  <2> QED
    BY <1>0, <1>2, <1>4, <2>3, <2>4 DEF MixerParkedPoll, Loopless
<1>5. CASE MixerUpdateRequest
  <2>1. \A i \in 1..Len(notify_queue') : LooplessReport(notify_queue'[i].slots)
    BY <1>1, <1>5, LooplessRequest
  <2>2. LooplessSlots(Context)'
    BY <1>5, LooplessRequest
  <2>3. UNCHANGED <<seen_looping, data_end>>
    BY <1>5 DEF MixerUpdateRequest
  <2> QED
    BY <1>0, <2>1, <2>2, <2>3 DEF Loopless
<1>6. CASE MixerUpdateRecycle
  <2>1. PICK fire \in Firings(Context) :
          SetContext(CheckStartConditions(Context, fire), current.updated \cup DOMAIN fire)
    BY <1>6 DEF MixerUpdateRecycle
  <2>2. LooplessSlots(Context)'
    BY <2>1, ContextTyped, LooplessStart, LooplessContext DEF Loopless
  <2>3. UNCHANGED <<seen_looping, data_end, notify_queue>>
    BY <1>6 DEF MixerUpdateRecycle
  <2> QED
    BY <1>0, <1>2, <2>2, <2>3 DEF Loopless
<1>7. CASE MixerMix
  <2>1. \A i \in 1..Len(notify_queue') : LooplessReport(notify_queue'[i].slots)
    BY <1>1, <1>2, <1>7, LooplessMix
  <2>2. LooplessSlots(Context)' /\ \A p \in Pipes : data_end'[p] # "loop"
    BY <1>7, LooplessMix
  <2>3. UNCHANGED seen_looping
    BY <1>7 DEF MixerMix
  <2> QED
    BY <1>0, <2>1, <2>2, <2>3 DEF Loopless
<1> QED
  BY <1>3, <1>4, <1>5, <1>6, <1>7 DEF MixerThread

\* what the handler thread does on its side of the queues, and the decoders
LEMMA LooplessHandler ==
  ASSUME TypeOK, Loopless,
         \/ PollMixer \/ PollDone \/ ReceiveItem \/ RecycleItem \/ Suspend \/ Resume
         \/ \E p \in Pipes : HandleSlot(p) \/ DecoderEnds(p)
  PROVE  Loopless'
<1> USE DEF requestVars, mixerVars, pipeVars
<1>0. notify_queue \in Seq(Items(Reports))
  BY DEF TypeOK
<1>1. CASE PollMixer \/ PollDone \/ Suspend \/ Resume \/ RecycleItem
  BY <1>1 DEF PollMixer, PollDone, Suspend, Resume, RecycleItem, Loopless, LooplessSlots, Context
<1>2. CASE ReceiveItem
  <2>1. /\ notify_queue # <<>> /\ notify_queue' = Tail(notify_queue) /\ item' = Head(notify_queue)
        /\ UNCHANGED <<flags, slot_state, looping, seen_looping, data_end>>
    BY <1>2 DEF ReceiveItem
  <2>2. item' = notify_queue[1] /\ 1 \in 1..Len(notify_queue)
        /\ \A i \in 1..Len(notify_queue') : notify_queue'[i] = notify_queue[i + 1]
                                            /\ i + 1 \in 1..Len(notify_queue)
    BY <1>0, <2>1, TailQueue
  <2> QED
    BY <2>1, <2>2 DEF Loopless, LooplessSlots, Context
<1>3. ASSUME NEW p \in Pipes, HandleSlot(p)
      PROVE  Loopless'
  <2>1. item \in Items(Reports) /\ item # None
    BY <1>3 DEF HandleSlot, InItem, TypeOK
  <2>2. LooplessReport(item'.slots)
    <3>1. item.slots \in [Pipes -> Reports \cup {None}]
      BY <2>1 DEF Items
    <3>2. item'.slots = [item.slots EXCEPT ![p] = None]
      BY <1>3 DEF HandleSlot
    <3> QED
      BY <2>1, <3>1, <3>2 DEF LooplessReport, Loopless
  <2>3. UNCHANGED <<flags, slot_state, looping, seen_looping, notify_queue>>
    BY <1>3 DEF HandleSlot
  <2>4. \A q \in Pipes : data_end'[q] # "loop"
    BY <1>3 DEF HandleSlot, Loopless, TypeOK
  <2> QED
    BY <2>2, <2>3, <2>4 DEF Loopless, LooplessSlots, Context
<1>4. ASSUME NEW p \in Pipes, DecoderEnds(p)
      PROVE  Loopless'
  <2>1. \A q \in Pipes : data_end'[q] # "loop"
    BY <1>4 DEF DecoderEnds, Loopless, TypeOK
  <2> QED
    BY <1>4, <2>1 DEF DecoderEnds, Loopless, LooplessSlots, Context
<1> QED
  BY <1>1, <1>2, <1>3, <1>4

-----------------------------------------------------------------------------
(* The steps, of what the players have to play.                            *)

\* what is served is served in the next state, in which the scenario is the same
LEMMA ServedNext ==
  ASSUME NEW v, Served(v), v = World', UNCHANGED scenario
  PROVE  Served(World)'
<1>1. (NoSeeks' <=> NoSeeks) /\ (NoLoops' <=> NoLoops)
  BY DEF NoSeeks, NoLoops
<1>2. Faultless(World)' <=> Faultless(v)
  BY <1>1 DEF Faultless
<1>3. ASSUME NEW c \in Clients PROVE ServedAt(World, c)'
  <2>0. ServedAt(v, c)
    BY DEF Served
  <2>1. NoSeeks' => Supplied(World, c)'
    BY <1>1, <2>0 DEF ServedAt, Supplied, Seeks, Reason, Playable, Has, Source, Fed, Playing
  <2>2. Faultless(World)' => Promised(World, c)'
    BY <1>1, <1>2, <2>0 DEF ServedAt, Promised, ToPlay, ToStart, On, Waits, Seeks, Prepared, Cause, Reason, Has, Source
  <2>3. Faultless(World)' => Prepares(World, c)'
    BY <1>2, <2>0 DEF ServedAt, Prepares, Unready, Has, Source
  <2> QED
    BY <2>1, <2>2, <2>3 DEF ServedAt
<1>4. NoLoops' => Unlooped(World)'
  BY <1>1 DEF Served, Unlooped
<1>5. Faultless(World)' => "null active_source_" \notin World.asserts'
  BY <1>2 DEF Served
<1> QED
  BY <1>3, <1>4, <1>5 DEF Served

\* the world after a step whose players, data and assertions are those of w
LEMMA NextServed ==
  ASSUME NEW w, Served(w), UNCHANGED scenario, players' = w.players, asserts' = w.asserts,
         \A d \in Clients, r \in Roles : Has(w, d, r) =>
           /\ w.decoder[Source(w, d, r)] \in Playing => decoder'[Source(w, d, r)] \in Playing
           /\ w.decoder[Source(w, d, r)] \in Unready => decoder'[Source(w, d, r)] \in Unready
           /\ w.data_end[Source(w, d, r)] # "none" => data_end'[Source(w, d, r)] # "none",
         NoLoops => looping' = {} /\ \A p \in Pipes : data_end'[p] # "loop"
  PROVE  Served(World)'
<1>1. PICK v : v = World'
  OBVIOUS
<1>2. /\ v.players = w.players /\ v.asserts = w.asserts /\ v.decoder = decoder' /\ v.data_end = data_end'
      /\ v.looping = looping'
  BY <1>1 DEF World
<1>3. Served(v)
  BY <1>2, SurvivesServed DEF Survives, Unlooped
<1> QED
  BY <1>1, <1>3, ServedNext

\* Where nothing loops, no end of data is a loop point, nor does the mixer raise one.
ServedInv ==
  /\ Served(World)
  /\ NoLoops => Loopless /\ (event # None => event.state # "stoppedEndLoop")

\* the end of a call
LEMMA CommitServed ==
  ASSUME ServedInv, NEW w, Served(w), Commit(w), UNCHANGED scenario, event' \in {event, None}
  PROVE  ServedInv'
<1>1. NoLoops => looping' = {} /\ \A p \in Pipes : data_end'[p] # "loop"
  BY DEF Commit, Served, Unlooped
<1>2. Served(World)'
  BY <1>1, NextServed DEF Commit
<1>3. NoLoops' <=> NoLoops
  BY DEF NoLoops
<1>4. NoLoops => Loopless'
  BY <1>1 DEF ServedInv, Commit, Loopless, LooplessSlots, Context, mixerVars
<1>5. NoLoops => (event' # None => event'.state # "stoppedEndLoop")
  BY DEF ServedInv
<1> QED
  BY <1>2, <1>3, <1>4, <1>5 DEF ServedInv

\* a step of the mixer's threads or of a decoder that ends: no data that had ended goes on
LEMMA MixerServed ==
  ASSUME ServedInv, UNCHANGED <<scenario, players, asserts, decoder>>,
         NoLoops => Loopless' /\ (event' # None => event'.state # "stoppedEndLoop"),
         \A d \in Clients, r \in Roles :
           Has(World, d, r) /\ data_end[Source(World, d, r)] # "none" => data_end'[Source(World, d, r)] # "none"
  PROVE  ServedInv'
<1>1. PICK w : w = World
  OBVIOUS
<1>2. /\ w.players = players /\ w.asserts = asserts /\ w.decoder = decoder /\ w.data_end = data_end
      /\ Served(w)
  BY <1>1, ThisWorld DEF ServedInv
<1>3. \A d \in Clients, r \in Roles :
        Has(w, d, r) /\ w.data_end[Source(w, d, r)] # "none" => data_end'[Source(w, d, r)] # "none"
  BY <1>1, <1>2
<1>4. NoLoops => looping' = {} /\ \A p \in Pipes : data_end'[p] # "loop"
  BY DEF Loopless
<1>5. Served(World)'
  BY <1>2, <1>3, <1>4, NextServed
<1>6. NoLoops' <=> NoLoops
  BY DEF NoLoops
<1> QED
  BY <1>5, <1>6 DEF ServedInv

\* A source that a player holds is one of sources.
LEMMA HeldSources ==
  ASSUME Sound(World)
  PROVE  \A d \in Clients, r \in Roles : Has(World, d, r) => Source(World, d, r) \in Pipes \cap sources
<1> DEFINE w == World
<1>1. w.sources = sources
  BY ThisWorld
<1>2. Sound(w)
  OBVIOUS
<1> HIDE DEF w
<1>3. \A d \in Clients, r \in Roles : Has(w, d, r) => Source(w, d, r) \in Pipes /\ Source(w, d, r) \in w.sources
  BY <1>2, SourceTyped DEF Sound, Owned, Has
<1> QED
  BY <1>1, <1>3 DEF w

LEMMA CallServed ==
  ASSUME PlayersInv, ServedInv, scenario.calls \subseteq CallNames, scenario.clients \subseteq Clients, Call
  PROVE  ServedInv'
<1>1. PICK call \in CallNames \cap scenario.calls, c \in Clients : \E w \in Outcomes(call, World, c) : Commit(w)
  BY DEF Call
<1>2. PICK w \in Outcomes(call, World, c) : Commit(w)
  BY <1>1
<1>3. Served(w)
  BY <1>2, OutcomesServed DEF PlayersInv, ServedInv
<1>4. UNCHANGED <<scenario, event>>
  BY DEF Call
<1> QED
  BY <1>2, <1>3, <1>4, CommitServed

LEMMA HandleEventServed ==
  ASSUME PlayersInv, ServedInv, HandleEvent
  PROVE  ServedInv'
<1>1. PICK c \in Clients : Commit(Handled(World, c))
  BY DEF HandleEvent
<1>2. event.pipe \in Pipes /\ event.state \in Causes /\ (NoLoops => event.state # "stoppedEndLoop")
  BY DEF HandleEvent, PlayersInv, EventTyped, Causes, ServedInv
<1> DEFINE w == Handled(World, c)
<1>3. Served(w)
  BY <1>2, OnMixingStartedServed, OnMixingStoppedServed DEF PlayersInv, ServedInv, Handled
<1> HIDE DEF w
<1>4. UNCHANGED scenario /\ event' = None
  BY DEF HandleEvent
<1> QED
  BY <1>1, <1>3, <1>4, CommitServed DEF w

\* a step that leaves all this alone
LEMMA QuietServed ==
  ASSUME PlayersInv, ServedInv,
         \/ SkipMixer \/ PollPipes \/ DropEvent \/ UNCHANGED allVars
         \/ PollPlayers /\ UNCHANGED <<vars, players, decoder, completed, asserts>>
  PROVE  ServedInv'
<1>1. UNCHANGED <<vars, scenario, players, decoder, asserts>> /\ event' \in {event, None}
  BY DEF SkipMixer, PollPipes, DropEvent, PollPlayers, allVars, playerVars
<1>2. NoLoops => Loopless'
  BY <1>1 DEF ServedInv, Loopless, LooplessSlots, Context, vars, requestVars, mixerVars, pipeVars
<1>3. NoLoops => (event' # None => event'.state # "stoppedEndLoop")
  BY <1>1 DEF ServedInv
<1>4. UNCHANGED data_end
  BY <1>1 DEF vars, pipeVars
<1> QED
  BY <1>1, <1>2, <1>3, <1>4, MixerServed

LEMMA PollPlayersServed ==
  ASSUME PlayersInv, ServedInv, PollPlayers
  PROVE  ServedInv'
<1>1. CASE UNCHANGED <<vars, players, decoder, completed, asserts>>
  BY <1>1, QuietServed
<1>2. CASE \E w \in Polled[Len(ClientList)] : Commit(w)
  <2>1. PICK w \in Polled[Len(ClientList)] : Commit(w)
    BY <1>2
  <2>2. Served(w)
    BY PolledServed DEF PlayersInv, ServedInv
  <2>3. UNCHANGED <<scenario, event>>
    BY DEF PollPlayers
  <2> QED
    BY <2>1, <2>2, <2>3, CommitServed
<1> QED
  BY <1>1, <1>2 DEF PollPlayers

\* the end of data of a source that is held is not forgotten
LEMMA DispatchServed ==
  ASSUME PlayersInv, ServedInv, NEW p \in Pipes, Dispatch(p)
  PROVE  ServedInv'
<1>1. HandleSlot(p) /\ UNCHANGED <<scenario, players, decoder, asserts>>
  BY DEF Dispatch
<1>2. item \in Items(Reports) /\ item # None
  BY <1>1 DEF HandleSlot, InItem, TypeOK, PlayersInv
<1>3. NoLoops => Loopless'
  BY <1>1, LooplessHandler DEF PlayersInv, ServedInv
<1>4. NoLoops => (event' # None => event'.state # "stoppedEndLoop")
  <2>1. handler' = "callback" => item.slots[p] # None
    BY <1>1 DEF HandleSlot
  <2>2. NoLoops => (item.slots[p] # None => item.slots[p].state # "stoppedEndLoop")
    BY <1>2 DEF ServedInv, Loopless, LooplessReport
  <2> QED
    BY <2>1, <2>2 DEF Dispatch
<1>5. \A q \in Pipes \cap sources : data_end[q] # "none" => data_end'[q] # "none"
  BY <1>1 DEF HandleSlot, PlayersInv, TypeOK
<1> QED
  BY <1>1, <1>3, <1>4, <1>5, HeldSources, MixerServed DEF PlayersInv

LEMMA PollMixerPassServed ==
  ASSUME PlayersInv, ServedInv, PollMixerPass
  PROVE  ServedInv'
<1>1. /\ PollMixer \/ PollDone \/ ReceiveItem \/ RecycleItem \/ Suspend \/ Resume
      /\ UNCHANGED <<scenario, players, decoder, event, asserts>>
  BY DEF PollMixerPass
<1>2. NoLoops => Loopless'
  BY <1>1, LooplessHandler DEF PlayersInv, ServedInv
<1>3. UNCHANGED data_end
  BY <1>1 DEF PollMixer, PollDone, ReceiveItem, RecycleItem, Suspend, Resume, pipeVars
<1> QED
  BY <1>1, <1>2, <1>3, MixerServed DEF ServedInv

LEMMA MixerStepServed ==
  ASSUME PlayersInv, ServedInv, MixerSteps
  PROVE  ServedInv'
<1>1. MixerThread /\ UNCHANGED <<scenario, players, decoder, event, asserts>>
  BY DEF MixerSteps, playerVars
<1>2. NoLoops => Loopless'
  BY <1>1, LooplessMixer DEF PlayersInv, ServedInv
<1>3. UNCHANGED data_end \/ \E S : ConsumeEnds(Context, S)
  BY <1>1 DEF MixerThread, MixerTop, MixerUnpark, MixerParkedPoll, MixerUpdateRequest, MixerUpdateRecycle,
              MixerMix, pipeVars
<1>4. \A q \in Pipes : data_end[q] # "none" => data_end'[q] # "none"
  BY <1>3 DEF ConsumeEnds
<1> QED
  BY <1>1, <1>2, <1>4, HeldSources, MixerServed DEF PlayersInv, ServedInv

LEMMA DecoderServed ==
  ASSUME PlayersInv, ServedInv, NEW p \in Pipes, Prefetched(p) \/ SourceEnds(p)
  PROVE  ServedInv'
<1>0. decoder \in [Pipes -> DecoderStates]
  BY ThisWorld DEF PlayersInv, Sound, Worlds
<1>1. CASE Prefetched(p)
  <2>1. UNCHANGED <<vars, scenario, players, asserts, event>> /\ UNCHANGED <<looping, data_end>>
    BY <1>1 DEF Prefetched, vars, requestVars, pipeVars
  <2>2. PICK w : w = World
    OBVIOUS
  <2>3. /\ w.players = players /\ w.asserts = asserts /\ w.decoder = decoder /\ w.data_end = data_end
        /\ w.looping = looping /\ Served(w)
    BY <2>2, ThisWorld DEF ServedInv
  <2>4. PICK v : v = World'
    OBVIOUS
  <2>5. /\ v.players = players /\ v.asserts = asserts /\ v.decoder = decoder' /\ v.data_end = data_end
        /\ v.looping = looping
    BY <2>1, <2>4 DEF World
  <2>6. /\ decoder[p] = "preparing" /\ decoder' \in [Pipes -> DecoderStates]
        /\ \A q \in Pipes \ {p} : decoder'[q] = decoder[q]
        /\ decoder'[p] = "prefetched" \/ (decoder'[p] = "failed" /\ scenario.preparation_fails)
    BY <1>0, <1>1 DEF Prefetched, DecoderStates
  <2>7. \A d \in Clients, r \in Roles : Has(w, d, r) => Source(w, d, r) \in Pipes
    BY <2>2, HeldSources DEF PlayersInv
  <2>8. Served(v)
    <3>1. CASE decoder'[p] = "prefetched"
      <4>1. \A q \in Pipes : Survives(v, w, q)
        BY <2>3, <2>5, <2>6, <3>1 DEF Survives, Playing, Unready
      <4> QED
        BY <2>3, <2>5, <2>7, <4>1, SurvivesServed DEF Served, Unlooped
    <3>2. CASE scenario.preparation_fails
      <4>1. \A q \in Pipes : Fed(w, q) => Fed(v, q)
        BY <2>3, <2>5, <2>6 DEF Fed, Playing
      <4>2. ASSUME NEW d \in Clients, NoSeeks PROVE Supplied(v, d)
        <5>1. Supplied(w, d)
          BY <2>3, <4>2 DEF Served, ServedAt
        <5>2. \A r \in Playable : r \in Roles
          BY DEF Playable, Roles
        <5> QED
          BY <2>3, <2>5, <2>7, <4>1, <5>1, <5>2 DEF Supplied, Seeks, Reason, Has, Source
      <4> QED
        BY <2>3, <2>5, <3>2, <4>2 DEF Served, ServedAt, Faultless, Unlooped
    <3> QED
      BY <2>6, <3>1, <3>2
  <2>9. Served(World)'
    BY <2>1, <2>4, <2>8, ServedNext
  <2>10. NoLoops => Loopless'
    BY <2>1 DEF ServedInv, Loopless, LooplessSlots, Context, vars, requestVars, mixerVars, pipeVars
  <2>11. NoLoops' <=> NoLoops
    BY <2>1 DEF NoLoops
  <2> QED
    BY <2>1, <2>9, <2>10, <2>11 DEF ServedInv
<1>2. CASE SourceEnds(p)
  <2>1. DecoderEnds(p) /\ UNCHANGED <<scenario, players, decoder, event, asserts>>
    BY <1>2 DEF SourceEnds, playerVars
  <2>2. NoLoops => Loopless'
    BY <2>1, LooplessHandler DEF PlayersInv, ServedInv
  <2>3. \A q \in Pipes : data_end[q] # "none" => data_end'[q] # "none"
    BY <2>1 DEF DecoderEnds, PlayersInv, TypeOK
  <2> QED
    BY <2>1, <2>2, <2>3, HeldSources, MixerServed DEF PlayersInv, ServedInv
<1> QED
  BY <1>1, <1>2

-----------------------------------------------------------------------------
(* The theorems.                                                           *)

LEMMA ServedInit == InitPlayers => ServedInv
<1> SUFFICES ASSUME InitPlayers PROVE ServedInv
  OBVIOUS
<1>1. PICK w : w = World
  OBVIOUS
<1>2. /\ w.players = [c \in Clients |-> IdlePlayer] /\ w.asserts = {} /\ w.looping = Loopers
      /\ w.data_end = [p \in Pipes |-> "none"]
  BY <1>1, ThisWorld DEF InitPlayers, Init
<1>3. ASSUME NEW c \in Clients PROVE ServedAt(w, c)
  <2>1. /\ \A r \in Roles : ~Has(w, c, r)
        /\ ~On(w, c) /\ ~Waits(w, c) /\ ~Seeks(w, c) /\ Reason(w, c) = "none" /\ Cause(w, c) = "invalid"
    BY <1>2, <1>3 DEF Has, Source, On, Waits, Seeks, Reason, Cause, IdlePlayer
  <2>2. \A r \in Playable \cup {"preparing"} : r \in Roles
    BY DEF Playable, Roles
  <2> QED
    BY <1>2, <2>1, <2>2 DEF ServedAt, Supplied, Promised, ToPlay, ToStart, Prepares
<1>4. Served(World)
  BY <1>1, <1>2, <1>3 DEF Served, NoLoops, Unlooped
<1>5. NoLoops => Loopless
  BY DEF InitPlayers, Init, NoLoops, Loopless, LooplessSlots, Context
<1>6. event = None
  BY DEF InitPlayers
<1> QED
  BY <1>4, <1>5, <1>6 DEF ServedInv

LEMMA ServedStep == ScenarioKept /\ PlayersInv /\ ServedInv /\ [NextPlayers]_allVars => ServedInv'
<1> SUFFICES ASSUME ScenarioKept, PlayersInv, ServedInv, [NextPlayers]_allVars PROVE ServedInv'
  OBVIOUS
<1>1. scenario.calls \subseteq CallNames /\ scenario.clients \subseteq Clients
  BY ScenariosAssumption DEF ScenarioKept, ScenarioRecords
<1> QED
  BY <1>1, CallServed, PollPlayersServed, HandleEventServed, DispatchServed, PollMixerPassServed, MixerStepServed,
     QuietServed, DecoderServed DEF NextPlayers, HandlerSteps

\* what the invariant says of the variables
LEMMA ServedFields ==
  ASSUME NEW c \in Clients
  PROVE  /\ \A r \in Roles : Source(World, c, r) = players[c].src[r]
         /\ \A r \in Roles : Has(World, c, r) <=> players[c].src[r] # None
         /\ On(World, c) = players[c].started /\ Waits(World, c) = players[c].start_pending
         /\ Seeks(World, c) = players[c].seek_pending /\ Reason(World, c) = players[c].reason
BY ThisWorld DEF Source, Has, On, Waits, Seeks, Reason

LEMMA FedSuffices == PlayersInv /\ ServedInv => PlaysToItsEnd
<1> SUFFICES ASSUME PlayersInv, ServedInv, NEW c \in Clients, NEW p, p = players[c].src["active"], p # None, NoSeeks
             PROVE  p \in LiveDecoders \/ data_end[p] # "none"
  BY DEF PlaysToItsEnd
<1>1. "active" \in Playable /\ "active" \in Roles
  BY DEF Playable, Roles
<1>2. Has(World, c, "active") /\ Source(World, c, "active") = p
  BY <1>1, ServedFields
<1>3. Fed(World, p)
  BY <1>1, <1>2 DEF ServedInv, Served, ServedAt, Supplied
<1>4. p \in Pipes
  BY <1>1, <1>2, HeldSources DEF PlayersInv
<1> QED
  BY <1>3, <1>4, ThisWorld DEF Fed, Playing, LiveDecoders

LEMMA PromisedSuffices == ServedInv => SourceToPlay
<1> SUFFICES ASSUME ServedInv, NothingFails, NoSeeks \/ NoLoops
             PROVE  /\ NoNullSource
                    /\ \A c \in Clients :
                         /\ players[c].started =>
                              \/ players[c].src["active"] # None
                              \/ players[c].src["preparing"] # None /\ players[c].reason = "rewinding"
                         /\ players[c].start_pending =>
                              players[c].seek_pending \/ \E r \in {"ready", "next", "preparing"} : players[c].src[r] # None
  BY DEF SourceToPlay
<1>1. Faultless(World)
  BY ThisWorld DEF Faultless, NothingFails
<1>2. \A c \in Clients : Promised(World, c)
  BY <1>1 DEF ServedInv, Served, ServedAt
<1>3. "active" \in Roles /\ "ready" \in Roles /\ "next" \in Roles /\ "preparing" \in Roles
  BY DEF Roles
<1>4. NoNullSource
  BY <1>1, ThisWorld DEF ServedInv, Served, NoNullSource
<1>5. ASSUME NEW c \in Clients
      PROVE  /\ players[c].started =>
                  \/ players[c].src["active"] # None
                  \/ players[c].src["preparing"] # None /\ players[c].reason = "rewinding"
             /\ players[c].start_pending =>
                  players[c].seek_pending \/ \E r \in {"ready", "next", "preparing"} : players[c].src[r] # None
  BY <1>2, <1>3, <1>5, ServedFields DEF Promised, ToPlay, ToStart
<1> QED
  BY <1>4, <1>5

\* Whatever the applications ask for, seeks apart, and whatever fails on the way, the source that a started player
\* plays is played to its end: no source created for the same player has stopped its decoder before all its data
\* was there (AudioPlayer.cpp, createAndStartPreparingNextAudioSource()).
THEOREM PlaysToItsEndHolds == PlayerSpec => []PlaysToItsEnd
<1>1. InitPlayers => ScenarioKept /\ PlayersInv /\ ServedInv
  BY PlayersInit, ServedInit
<1>2. ScenarioKept /\ PlayersInv /\ ServedInv /\ [NextPlayers]_allVars => ScenarioKept' /\ PlayersInv' /\ ServedInv'
  BY PlayersStep, ServedStep
<1> QED
  BY <1>1, <1>2, FedSuffices, PTL DEF PlayerSpec

\* As long as no source fails to be created or prepared, and players seek or loop but not both, a started player has
\* a source to play or one being rewound, a start that waits gets a source, and a seek that ends finds the source it
\* replaces (AudioPlayer.cpp, handlePreparationCompleteForSeeking(), pollHandleStartPending()).
THEOREM SourceToPlayHolds == PlayerSpec => []SourceToPlay
<1>1. InitPlayers => ScenarioKept /\ PlayersInv /\ ServedInv
  BY PlayersInit, ServedInit
<1>2. ScenarioKept /\ PlayersInv /\ ServedInv /\ [NextPlayers]_allVars => ScenarioKept' /\ PlayersInv' /\ ServedInv'
  BY PlayersStep, ServedStep
<1> QED
  BY <1>1, <1>2, PromisedSuffices, PTL DEF PlayerSpec
==============================================================================
