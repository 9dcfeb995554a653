----------------------------- MODULE CacheProofs -----------------------------
(***************************************************************************)
(* The disk cache: its types, its honesty, its bounded leftovers and its   *)
(* promise, for any number of Sessions, groups and revisions and any       *)
(* number of mishaps.                                                      *)
(***************************************************************************)
EXTENDS CacheInvariant, FiniteSetTheorems, TLAPS

(* A step of one fetch, by the action it is.                               *)
FetchSteps(f) ==
    \/ FetchIndex(f) \/ LookUp(f) \/ AskLive(f)
    \/ MakeDirectory(f) \/ CreateTemp(f) \/ Write(f) \/ Rename(f)
    \/ Glob(f) \/ Evict(f) \/ FinishEviction(f)
    \/ End(f)

LEMMA StepKinds ==
    ASSUME [Next]_vars
    PROVE  \/ \E f \in Fetches : FetchSteps(f)
           \/ Revise \/ Damage \/ DeleteDirectory
           \/ UNCHANGED vars
BY DEF Next, FetchSteps

-----------------------------------------------------------------------------
(* Types.                                                                  *)

LEMMA Indexed ==
    ASSUME TypeOK, NEW g \in Groups
    PROVE  /\ <<g, cluster[g]>> \in Documents
           /\ [group |-> g, hash |-> Hash[<<g, cluster[g]>>]] \in Keys
BY DEF TypeOK, Documents, Keys

LEMMA Replied ==
    ASSUME TypeOK, NEW k \in Keys, NEW body \in LiveReplies(k)
    PROVE  body \in Bodies \cup {Refused}
BY DEF TypeOK, LiveReplies, Bodies, Documents, Keys

LEMMA NameOf ==
    ASSUME NEW k \in Keys, k.hash # NoHash
    PROVE  File(k) \in Names
BY DEF Names

LEMMA NoneIsNone ==
    /\ None \notin Keys /\ None \notin Bodies /\ None # Refused
    /\ Refused \notin Bodies /\ Corrupt \in Bodies /\ Corrupt \notin Documents
BY CacheAssumption DEF Bodies

(* Between its request and the end of its write, a fetch has a reply.      *)
LEMMA HasReply ==
    ASSUME TypeOK, FetchInv, NEW f \in Fetches, stage[f] \in Caching
    PROVE  /\ key[f] \in Keys /\ File(key[f]) \in Names
           /\ reply[f] \in Bodies /\ reply[f] # None
<1>1. key[f] \in Keys
  BY DEF TypeOK, Caching
<1>. QED  BY <1>1, NameOf, NoneIsNone DEF FetchInv

LEMMA TypeInit == Init => TypeOK
<1>. SUFFICES ASSUME Init PROVE TypeOK
  OBVIOUS
<1>1. DOMAIN files = {}
  BY DEF Init
<1>2. stage \in [Fetches -> Stages]
  BY DEF Init, Stages
<1>. QED  BY <1>1, <1>2 DEF Init, TypeOK

LEMMA TypeDropped ==
    ASSUME TypeOK, FetchInv, NEW f \in Fetches, stage[f] \in Caching, DropTemp(f),
           UNCHANGED <<cluster, directory, files, key, reply, siblings>>
    PROVE  TypeOK'
<1>1. orphans' \in Nat /\ mishaps' \in Nat
  BY DEF TypeOK, DropTemp
<1>. QED  BY <1>1, HasReply, NoneIsNone DEF TypeOK, DropTemp, Return, Advance, Caching, Stages

LEMMA TypeStep ==
    ASSUME TypeOK, FetchInv, FilesInv, [Next]_vars
    PROVE  TypeOK'
<1>. USE NoneIsNone
<1>1. ASSUME NEW f \in Fetches, FetchIndex(f) PROVE TypeOK'
  BY <1>1, Indexed DEF TypeOK, FetchIndex, Advance, disk, Stages
<1>2. ASSUME NEW f \in Fetches, LookUp(f) PROVE TypeOK'
  <2>1. CASE stage' = [stage EXCEPT ![f] = "asking"] /\ UNCHANGED answer
    BY <1>2, <2>1 DEF TypeOK, LookUp, disk, Stages
  <2>2. CASE /\ File(key[f]) \in DOMAIN files
             /\ Return(f, files[File(key[f])])
    <3>1. files[File(key[f])] \in Bodies /\ files[File(key[f])] # None
      BY <2>2 DEF FilesInv
    <3>. QED  BY <1>2, <2>2, <3>1 DEF TypeOK, LookUp, Return, Advance, disk, Stages
  <2>. QED  BY <1>2, <2>1, <2>2 DEF LookUp, Advance
<1>3. ASSUME NEW f \in Fetches, AskLive(f) PROVE TypeOK'
  <2>1. key[f] \in Keys
    BY <1>3 DEF TypeOK, AskLive
  <2>2. PICK body \in LiveReplies(key[f]) :
           /\ reply' = [reply EXCEPT ![f] = body]
           /\ \/ Return(f, body)
              \/ Advance(f, "making") /\ UNCHANGED answer
    BY <1>3 DEF AskLive
  <2>3. body \in Bodies \cup {Refused} /\ body # None
    BY <2>1, <2>2, Replied
  <2>. QED  BY <1>3, <2>2, <2>3 DEF TypeOK, AskLive, Return, Advance, disk, Stages
<1>4. ASSUME NEW f \in Fetches, MakeDirectory(f) PROVE TypeOK'
  <2>1. CASE directory' = TRUE /\ Advance(f, "creating") /\ UNCHANGED answer
    BY <1>4, <2>1 DEF TypeOK, MakeDirectory, Advance, Stages
  <2>2. CASE Return(f, reply[f]) /\ UNCHANGED directory
    <3>1. reply[f] \in Bodies
      BY <1>4, HasReply DEF MakeDirectory, Caching
    <3>. QED  BY <1>4, <2>2, <3>1 DEF TypeOK, MakeDirectory, Return, Advance, Stages
  <2>. QED  BY <1>4, <2>1, <2>2 DEF MakeDirectory
<1>5. ASSUME NEW f \in Fetches, CreateTemp(f) PROVE TypeOK'
  BY <1>5, HasReply DEF TypeOK, CreateTemp, Return, Advance, Caching, Stages
<1>6. ASSUME NEW f \in Fetches, Write(f) PROVE TypeOK'
  <2>1. CASE Advance(f, "renaming") /\ UNCHANGED <<temps, orphans, answer, mishaps>>
    BY <1>6, <2>1 DEF TypeOK, Write, Advance, Stages
  <2>2. CASE DropTemp(f)
    BY <1>6, <2>2, TypeDropped DEF Write, Caching
  <2>. QED  BY <1>6, <2>1, <2>2 DEF Write
<1>7. ASSUME NEW f \in Fetches, Rename(f) PROVE TypeOK'
  <2>1. CASE /\ f \in temps /\ DOMAIN files' = DOMAIN files \cup {File(key[f])}
             /\ temps' = temps \ {f}
             /\ Advance(f, "globbing") /\ UNCHANGED <<orphans, answer, mishaps>>
    BY <1>7, <2>1, HasReply DEF TypeOK, Rename, Advance, Caching, Stages
  <2>2. CASE DropTemp(f) /\ UNCHANGED files
    BY <1>7, <2>2, TypeDropped DEF Rename, Caching
  <2>. QED  BY <1>7, <2>1, <2>2 DEF Rename
<1>8. ASSUME NEW f \in Fetches, Glob(f) PROVE TypeOK'
  <2>1. CASE /\ siblings' = [siblings EXCEPT ![f] = FilesOf(Segment[key[f].group]) \ {File(key[f])}]
             /\ Advance(f, "evicting") /\ UNCHANGED <<answer, mishaps>>
    <3>1. FilesOf(Segment[key[f].group]) \ {File(key[f])} \subseteq Names
      BY DEF TypeOK, FilesOf
    <3>. QED  BY <1>8, <2>1, <3>1 DEF TypeOK, Glob, Advance, disk, Stages
  <2>2. CASE mishaps' = mishaps + 1 /\ Return(f, reply[f]) /\ UNCHANGED siblings
    BY <1>8, <2>2, HasReply DEF TypeOK, Glob, Return, Advance, disk, Caching, Stages
  <2>. QED  BY <1>8, <2>1, <2>2 DEF Glob
<1>9. ASSUME NEW f \in Fetches, Evict(f) PROVE TypeOK'
  <2>1. PICK file \in siblings[f] :
           /\ siblings' = [siblings EXCEPT ![f] = @ \ {file}]
           /\ \/ DOMAIN files' = DOMAIN files \ {file} /\ UNCHANGED mishaps
              \/ mishaps' = mishaps + 1 /\ UNCHANGED files
    BY <1>9 DEF Evict, Without
  <2>. QED  BY <1>9, <2>1 DEF TypeOK, Evict
<1>10. ASSUME NEW f \in Fetches, FinishEviction(f) PROVE TypeOK'
  BY <1>10, HasReply DEF TypeOK, FinishEviction, Return, Advance, disk, Caching, Stages
<1>11. ASSUME NEW f \in Fetches, End(f) PROVE TypeOK'
  <2>1. mishaps' \in Nat /\ orphans' \in Nat
    BY <1>11 DEF TypeOK, End
  <2>. QED  BY <1>11, <2>1 DEF TypeOK, End, Advance, Stages
<1>12. CASE Revise
  <2>1. cluster' \in [Groups -> Revisions]
    BY <1>12 DEF TypeOK, Revise
  <2>. QED  BY <1>12, <2>1 DEF TypeOK, Revise, disk
<1>13. CASE Damage
  <2>1. DOMAIN files' = DOMAIN files
    BY <1>13 DEF Damage
  <2>. QED  BY <1>13, <2>1 DEF TypeOK, Damage
<1>14. CASE DeleteDirectory
  <2>1. DOMAIN files' = {}
    BY <1>14 DEF DeleteDirectory, Without
  <2>. QED  BY <1>14, <2>1 DEF TypeOK, DeleteDirectory
<1>15. CASE UNCHANGED vars
  BY <1>15 DEF TypeOK, vars, disk
<1>. QED
  BY <1>1, <1>2, <1>3, <1>4, <1>5, <1>6, <1>7, <1>8, <1>9, <1>10, <1>11,
     <1>12, <1>13, <1>14, <1>15, StepKinds DEF FetchSteps

-----------------------------------------------------------------------------
(* What a fetch knows.                                                     *)

(* A fetch is untouched by a step that leaves its key, stage and reply.    *)
KnowsOf(f) ==
    /\ key[f] # None => \E r \in Revisions : Hash[<<key[f].group, r>>] = key[f].hash
    /\ stage[f] \in {"idle", "launched", "asking"} => reply[f] = None
    /\ stage[f] \in Caching =>
          /\ key[f].hash # NoHash
          /\ reply[f] \in Bodies
          /\ HonoursHash /\ reply[f] # Corrupt => Describes(key[f], reply[f])

LEMMA FetchInvByFetch ==
    /\ FetchInv <=> \A f \in Fetches : KnowsOf(f)
    /\ FetchInv' <=> \A f \in Fetches : KnowsOf(f)'
BY DEF FetchInv, KnowsOf

LEMMA KnowsKept ==
    ASSUME NEW f \in Fetches, KnowsOf(f),
           key'[f] = key[f], stage'[f] = stage[f], reply'[f] = reply[f]
    PROVE  KnowsOf(f)'
BY DEF KnowsOf, Describes

(* Nor by one that takes it to a later stage of its write, or out of it.   *)
LEMMA KnowsOn ==
    ASSUME NEW f \in Fetches, KnowsOf(f), stage[f] \in Caching,
           key'[f] = key[f], reply'[f] = reply[f],
           stage'[f] \in Caching \cup {"answered"}
    PROVE  KnowsOf(f)'
BY DEF KnowsOf, Describes, Caching

LEMMA OthersKnow ==
    ASSUME TypeOK, NEW f \in Fetches, FetchSteps(f), NEW h \in Fetches, h # f
    PROVE  key'[h] = key[h] /\ stage'[h] = stage[h] /\ reply'[h] = reply[h]
BY DEF FetchSteps, TypeOK, FetchIndex, LookUp, AskLive, MakeDirectory, CreateTemp,
       Write, Rename, DropTemp, Glob, Evict, FinishEviction, End, Return, Advance

(* A body with a document's shape carries the hash it was asked by, where   *)
(* the cluster honours hashes.                                             *)
LEMMA ReplyDescribed ==
    ASSUME TypeOK, HonoursHash, NEW k \in Keys, NEW body \in LiveReplies(k),
           body # Refused, body # Corrupt
    PROVE  Describes(k, body)
BY DEF LiveReplies, Describes, Keys

LEMMA FetchInit == Init => FetchInv
BY DEF Init, FetchInv, Caching

LEMMA FetchStep ==
    ASSUME TypeOK, FetchInv, [Next]_vars
    PROVE  FetchInv'
<1>. USE NoneIsNone
<1>1. ASSUME NEW f \in Fetches, FetchSteps(f) PROVE FetchInv'
  <2>. KnowsOf(f)
    BY FetchInvByFetch
  <2>1. SUFFICES KnowsOf(f)'
    BY <1>1, FetchInvByFetch, KnowsKept, OthersKnow
  <2>2. CASE FetchIndex(f)
    <3>1. PICK g \in Groups :
             key' = [key EXCEPT ![f] = [group |-> g, hash |-> Hash[<<g, cluster[g]>>]]]
      BY <2>2 DEF FetchIndex
    <3>2. cluster[g] \in Revisions /\ Hash[<<key'[f].group, cluster[g]>>] = key'[f].hash
      BY <3>1 DEF TypeOK
    <3>. QED  BY <2>2, <3>2 DEF FetchIndex, TypeOK, KnowsOf, Advance, Caching
  <2>3. CASE LookUp(f)
    BY <2>3 DEF LookUp, TypeOK, KnowsOf, Return, Advance, Caching
  <2>4. CASE AskLive(f)
    <3>1. key[f] \in Keys
      BY <2>4 DEF TypeOK, AskLive
    <3>2. PICK body \in LiveReplies(key[f]) :
             /\ reply' = [reply EXCEPT ![f] = body]
             /\ \/ Return(f, body)
                \/ /\ body # Refused /\ key[f].hash # NoHash
                   /\ Advance(f, "making")
      BY <2>4 DEF AskLive
    <3>3. key'[f] = key[f] /\ reply'[f] = body
      BY <2>4, <3>2 DEF TypeOK, AskLive
    <3>4. CASE Return(f, body)
      BY <3>3, <3>4 DEF TypeOK, KnowsOf, Return, Advance, Caching
    <3>5. CASE body # Refused /\ key[f].hash # NoHash /\ Advance(f, "making")
      <4>1. body \in Bodies
        BY <3>1, <3>2, <3>5, Replied
      <4>2. HonoursHash /\ body # Corrupt => Describes(key[f], body)
        BY <3>1, <3>2, <3>5, ReplyDescribed
      <4>3. stage'[f] = "making"
        BY <3>5 DEF TypeOK, Advance
      <4>. QED  BY <3>3, <3>5, <4>1, <4>2, <4>3 DEF KnowsOf, Describes
    <3>. QED  BY <3>2, <3>4, <3>5
  <2>5. CASE MakeDirectory(f)
    BY <2>5, KnowsOn DEF MakeDirectory, TypeOK, Return, Advance, Caching
  <2>6. CASE CreateTemp(f)
    BY <2>6, KnowsOn DEF CreateTemp, TypeOK, Return, Advance, Caching
  <2>7. CASE Write(f)
    BY <2>7, KnowsOn DEF Write, DropTemp, TypeOK, Return, Advance, Caching
  <2>8. CASE Rename(f)
    BY <2>8, KnowsOn DEF Rename, DropTemp, TypeOK, Return, Advance, Caching
  <2>9. CASE Glob(f)
    BY <2>9, KnowsOn DEF Glob, TypeOK, Return, Advance, Caching
  <2>10. CASE Evict(f)
    BY <2>10, KnowsKept DEF Evict
  <2>11. CASE FinishEviction(f)
    BY <2>11, KnowsOn DEF FinishEviction, TypeOK, Return, Advance, Caching
  <2>12. CASE End(f)
    BY <2>12 DEF End, TypeOK, KnowsOf, Advance, Caching
  <2>. QED
    BY <1>1, <2>2, <2>3, <2>4, <2>5, <2>6, <2>7, <2>8, <2>9, <2>10, <2>11, <2>12
       DEF FetchSteps
<1>2. CASE Revise \/ Damage \/ DeleteDirectory \/ UNCHANGED vars
  <2>1. key' = key /\ stage' = stage /\ reply' = reply
    BY <1>2 DEF Revise, Damage, DeleteDirectory, vars
  <2>. QED  BY <2>1 DEF FetchInv, Describes
<1>. QED  BY <1>1, <1>2, StepKinds

-----------------------------------------------------------------------------
(* What is cached.                                                         *)

LEMMA FilesInit == Init => FilesInv
<1>. SUFFICES ASSUME Init PROVE FilesInv
  OBVIOUS
<1>1. DOMAIN files = {}
  BY DEF Init
<1>. QED  BY <1>1, FS_EmptySet DEF FilesInv, HitsAreHonest

(* Fewer files are no worse.                                               *)
LEMMA FilesFewer ==
    ASSUME FilesInv, NEW names, files' = Without(names)
    PROVE  FilesInv'
<1>1. DOMAIN files' \in SUBSET DOMAIN files
  BY DEF Without
<1>2. \A file \in DOMAIN files' : files'[file] = files[file]
  BY DEF Without
<1>. QED  BY <1>1, <1>2, FS_Subset DEF FilesInv, HitsAreHonest

LEMMA FilesStep ==
    ASSUME TypeOK, FetchInv, FilesInv, [Next]_vars
    PROVE  FilesInv'
<1>. USE NoneIsNone
<1>1. CASE UNCHANGED files
  BY <1>1 DEF FilesInv, HitsAreHonest
<1>2. ASSUME NEW f \in Fetches, Rename(f), ~UNCHANGED files PROVE FilesInv'
  <2>1. reply[f] \in Bodies /\ (HonoursHash /\ reply[f] # Corrupt => Describes(key[f], reply[f]))
    BY <1>2 DEF FetchInv, Rename, Caching
  <2>2. files' = [file \in DOMAIN files \cup {File(key[f])} |->
                    IF file = File(key[f]) THEN reply[f] ELSE files[file]]
    BY <1>2 DEF Rename
  <2>3. IsFiniteSet(DOMAIN files')
    BY <2>2, FS_AddElement DEF FilesInv
  <2>4. \A file \in DOMAIN files' : files'[file] \in Bodies
    BY <2>1, <2>2 DEF FilesInv
  <2>5. ASSUME HonoursHash, NEW file \in DOMAIN files', files'[file] # Corrupt
        PROVE  /\ files'[file] \in Documents
               /\ file = <<Segment[files'[file][1]], Hash[files'[file]]>>
    <3>1. CASE file = File(key[f])
      BY <2>1, <2>2, <2>5, <3>1 DEF Describes, File, Bodies
    <3>2. CASE file # File(key[f])
      BY <2>2, <2>5, <3>2 DEF FilesInv, HitsAreHonest
    <3>. QED  BY <3>1, <3>2
  <2>. QED  BY <2>3, <2>4, <2>5 DEF FilesInv, HitsAreHonest
<1>3. ASSUME NEW f \in Fetches, Evict(f) PROVE FilesInv'
  BY <1>1, <1>3, FilesFewer DEF Evict
<1>4. CASE Damage
  <2>1. DOMAIN files' = DOMAIN files
    BY <1>4 DEF Damage
  <2>2. \A file \in DOMAIN files' : files'[file] \in {files[file], Corrupt}
    BY <1>4 DEF Damage
  <2>. QED  BY <2>1, <2>2 DEF FilesInv, HitsAreHonest
<1>5. CASE DeleteDirectory
  BY <1>5, FilesFewer DEF DeleteDirectory
<1>. QED
  BY <1>1, <1>2, <1>3, <1>4, <1>5 DEF Next, FetchIndex, LookUp, AskLive, MakeDirectory,
     CreateTemp, Write, Glob, FinishEviction, End, Revise, vars, disk

-----------------------------------------------------------------------------
(* What is left over.                                                      *)

LEMMA OwedIsFinite ==
    ASSUME FilesInv, NEW owed \in SUBSET DOMAIN files
    PROVE  IsFiniteSet(owed) /\ Cardinality(owed) \in Nat
BY FS_Subset, FS_CardinalityType DEF FilesInv

LEMMA OneMoreOrLess ==
    ASSUME NEW S, IsFiniteSet(S), NEW x
    PROVE  /\ Cardinality(S) \in Nat
           /\ Cardinality(S \ {x}) \in Nat /\ Cardinality(S \ {x}) <= Cardinality(S)
           /\ Cardinality(S \cup {x}) \in Nat /\ Cardinality(S \cup {x}) <= Cardinality(S) + 1
<1>1. Cardinality(S) \in Nat
  BY FS_CardinalityType
<1>2. /\ IsFiniteSet(S \ {x})
      /\ Cardinality(S \ {x}) = IF x \in S THEN Cardinality(S) - 1 ELSE Cardinality(S)
  BY FS_RemoveElement
<1>3. Cardinality(S \ {x}) \in Nat
  BY <1>2, FS_CardinalityType
<1>4. Cardinality(S \cup {x}) = IF x \in S THEN Cardinality(S) ELSE Cardinality(S) + 1
  BY FS_AddElement
<1>. QED  BY <1>1, <1>2, <1>3, <1>4

(* The account of a step that owes a file less, or one more to a mishap.    *)
LEMMA OwesLess ==
    ASSUME NEW owed, IsFiniteSet(owed), NEW x, NEW m \in Nat, NEW o \in Nat,
           o + Cardinality(owed) <= m
    PROVE  o + Cardinality(owed \ {x}) <= m
<1>1. /\ Cardinality(owed) \in Nat /\ Cardinality(owed \ {x}) \in Nat
      /\ Cardinality(owed \ {x}) <= Cardinality(owed)
  BY OneMoreOrLess
<1>. QED  BY <1>1

LEMMA OwesMore ==
    ASSUME NEW owed, IsFiniteSet(owed), NEW x, NEW m \in Nat, NEW o \in Nat,
           o + Cardinality(owed) <= m
    PROVE  o + Cardinality(owed \cup {x}) <= m + 1
<1>1. /\ Cardinality(owed) \in Nat /\ Cardinality(owed \cup {x}) \in Nat
      /\ Cardinality(owed \cup {x}) <= Cardinality(owed) + 1
  BY OneMoreOrLess
<1>. QED  BY <1>1

LEMMA OthersEvict ==
    ASSUME TypeOK, NEW f \in Fetches, FetchSteps(f), NEW h \in Fetches, h # f
    PROVE  key'[h] = key[h] /\ stage'[h] = stage[h] /\ siblings'[h] = siblings[h]
BY OthersKnow DEF FetchSteps, TypeOK, FetchIndex, LookUp, AskLive, MakeDirectory, CreateTemp,
       Write, Rename, DropTemp, Glob, Evict, FinishEviction, End, Return, Advance

LEMMA EvictionKept ==
    ASSUME NEW h \in Evicting, NEW x, NEW y, File(key[h]) = x, WillEvict(h, y),
           key'[h] = key[h], stage'[h] = stage[h], siblings'[h] = siblings[h]
    PROVE  Supersedes(x, y)'
BY DEF Evicting, WillEvict, Supersedes, File

(* What the other fetches will evict is not changed by a step of f.         *)
LEMMA SupersessionKept ==
    ASSUME TypeOK, NEW f \in Fetches, FetchSteps(f), NEW x, NEW y, Supersedes(x, y),
           ~(f \in Evicting /\ File(key[f]) = x /\ WillEvict(f, y))
    PROVE  Supersedes(x, y)'
<1>1. PICK h \in Evicting : File(key[h]) = x /\ WillEvict(h, y)
  BY DEF Supersedes
<1>2. h # f /\ h \in Fetches
  BY <1>1 DEF Evicting
<1>. QED  BY <1>1, <1>2, OthersEvict, EvictionKept

LEMMA OrderlyBy ==
    ASSUME NEW owed, NEW owed2, Orderly(owed),
           DOMAIN files' \ owed2 \subseteq DOMAIN files \ owed,
           \A x, y \in DOMAIN files' \ owed2 :
              x # y /\ x[1] = y[1] /\ Supersedes(x, y) => Supersedes(x, y)'
    PROVE  \A x, y \in DOMAIN files' \ owed2 :
              x # y /\ x[1] = y[1] => Supersedes(x, y)' \/ Supersedes(y, x)'
BY DEF Orderly

LEMMA AccountBy ==
    ASSUME NEW owed2 \in SUBSET DOMAIN files',
           orphans' + Cardinality(owed2) <= mishaps',
           \A x, y \in DOMAIN files' \ owed2 :
              x # y /\ x[1] = y[1] => Supersedes(x, y)' \/ Supersedes(y, x)'
    PROVE  AccountInv'
BY DEF AccountInv, Orderly

LEMMA AccountInit == Init => AccountInv
<1>. SUFFICES ASSUME Init PROVE AccountInv
  OBVIOUS
<1>1. DOMAIN files = {} /\ orphans = 0 /\ mishaps = 0
  BY DEF Init
<1>2. Orderly({}) /\ orphans + Cardinality({}) <= mishaps
  BY <1>1, FS_EmptySet DEF Orderly
<1>. QED  BY <1>2 DEF AccountInv

LEMMA AccountStep ==
    ASSUME TypeOK, FetchInv, FilesInv, AccountInv, [Next]_vars
    PROVE  AccountInv'
<1>1. PICK owed \in SUBSET DOMAIN files :
         Orderly(owed) /\ orphans + Cardinality(owed) <= mishaps
  BY DEF AccountInv
<1>2. IsFiniteSet(owed) /\ Cardinality(owed) \in Nat /\ orphans \in Nat /\ mishaps \in Nat
  BY OwedIsFinite DEF TypeOK
<1>3. ASSUME NEW f \in Fetches, FetchSteps(f), f \notin Evicting, UNCHANGED files,
             orphans' + Cardinality(owed) <= mishaps'
      PROVE  AccountInv'
  BY <1>1, <1>3, SupersessionKept, OrderlyBy, AccountBy
<1>4. ASSUME NEW f \in Fetches, FetchSteps(f), f \notin Evicting, UNCHANGED <<files, orphans, mishaps>>
      PROVE  AccountInv'
  BY <1>1, <1>3, <1>4
<1>5. ASSUME NEW f \in Fetches, Write(f) \/ Rename(f), DropTemp(f), UNCHANGED files
      PROVE  AccountInv'
  <2>1. FetchSteps(f) /\ f \notin Evicting
    BY <1>5 DEF FetchSteps, Write, Rename, Evicting
  <2>2. orphans' + Cardinality(owed) <= mishaps'
    BY <1>1, <1>2, <1>5 DEF DropTemp
  <2>. QED  BY <1>3, <1>5, <2>1, <2>2
<1>6. ASSUME NEW f \in Fetches, FetchSteps(f), f \in Evicting,
             UNCHANGED <<files, orphans>>, mishaps' = mishaps + 1
      PROVE  AccountInv'
  <2>1. CASE File(key[f]) \in DOMAIN files
    <3>1. owed \cup {File(key[f])} \in SUBSET DOMAIN files'
      BY <1>6, <2>1
    <3>2. orphans' + Cardinality(owed \cup {File(key[f])}) <= mishaps'
      BY <1>1, <1>2, <1>6, OwesMore
    <3>3. \A x, y : x # File(key[f]) /\ Supersedes(x, y) => Supersedes(x, y)'
      BY <1>6, SupersessionKept
    <3>4. \A x, y \in DOMAIN files' \ (owed \cup {File(key[f])}) :
             x # y /\ x[1] = y[1] => Supersedes(x, y)' \/ Supersedes(y, x)'
      BY <1>1, <1>6, <3>3, OrderlyBy
    <3>. QED  BY <3>1, <3>2, <3>4, AccountBy
  <2>2. CASE File(key[f]) \notin DOMAIN files
    <3>1. orphans' + Cardinality(owed) <= mishaps'
      BY <1>1, <1>2, <1>6
    <3>2. \A x \in DOMAIN files : \A y : Supersedes(x, y) => Supersedes(x, y)'
      BY <1>6, <2>2, SupersessionKept
    <3>. QED  BY <1>1, <1>6, <3>1, <3>2, OrderlyBy, AccountBy
  <2>. QED  BY <2>1, <2>2
<1>7. ASSUME NEW f \in Fetches,
             \/ FetchIndex(f) \/ LookUp(f) \/ AskLive(f)
             \/ MakeDirectory(f) \/ CreateTemp(f)
      PROVE  AccountInv'
  <2>1. FetchSteps(f)
    BY <1>7 DEF FetchSteps
  <2>2. f \notin Evicting
    BY <1>7 DEF Evicting, FetchIndex, LookUp, AskLive, MakeDirectory, CreateTemp
  <2>3. UNCHANGED <<files, orphans, mishaps>>
    BY <1>7 DEF FetchIndex, LookUp, AskLive, MakeDirectory, CreateTemp, disk
  <2>. QED  BY <1>4, <2>1, <2>2, <2>3
<1>8. ASSUME NEW f \in Fetches, Write(f) PROVE AccountInv'
  <2>1. FetchSteps(f) /\ f \notin Evicting /\ UNCHANGED files
    BY <1>8 DEF FetchSteps, Write, Evicting
  <2>2. DropTemp(f) \/ UNCHANGED <<orphans, mishaps>>
    BY <1>8 DEF Write
  <2>. QED  BY <1>4, <1>5, <1>8, <2>1, <2>2
<1>9. ASSUME NEW f \in Fetches, Rename(f) PROVE AccountInv'
  <2>1. FetchSteps(f) /\ f \notin Evicting
    BY <1>9 DEF FetchSteps, Rename, Evicting
  <2>2. CASE DropTemp(f) /\ UNCHANGED files
    BY <1>9, <1>5, <2>2
  <2>3. CASE /\ DOMAIN files' = DOMAIN files \cup {File(key[f])}
             /\ Advance(f, "globbing") /\ UNCHANGED <<orphans, mishaps>>
    <3>1. f \in Evicting' /\ key'[f] = key[f] /\ stage'[f] = "globbing"
      BY <1>9, <2>3 DEF Advance, Evicting, TypeOK, Rename
    <3>2. ASSUME NEW x, x = File(key[f]), NEW y, y # x, y[1] = x[1]
          PROVE  Supersedes(x, y)'
      <4>1. WillEvict(f, y)' /\ File(key'[f]) = x
        BY <3>1, <3>2 DEF WillEvict, File
      <4>. QED  BY <3>1, <4>1 DEF Supersedes, File
    <3>3. owed \ {File(key[f])} \in SUBSET DOMAIN files'
      BY <2>3
    <3>4. orphans' + Cardinality(owed \ {File(key[f])}) <= mishaps'
      BY <1>1, <1>2, <2>3, OwesLess
    <3>5. ASSUME NEW x \in DOMAIN files' \ (owed \ {File(key[f])}),
                 NEW y \in DOMAIN files' \ (owed \ {File(key[f])}),
                 x # y, x[1] = y[1]
          PROVE  Supersedes(x, y)' \/ Supersedes(y, x)'
      <4>1. CASE x = File(key[f]) \/ y = File(key[f])
        <5>1. CASE x = File(key[f])
          BY <3>2, <3>5, <5>1
        <5>2. CASE y = File(key[f])
          BY <3>2, <3>5, <5>2
        <5>. QED  BY <4>1, <5>1, <5>2
      <4>2. CASE x # File(key[f]) /\ y # File(key[f])
        BY <1>1, <2>1, <2>3, <3>5, <4>2, SupersessionKept DEF Orderly
      <4>. QED  BY <4>1, <4>2
    <3>. QED  BY <3>3, <3>4, <3>5, AccountBy
  <2>. QED  BY <1>9, <2>2, <2>3 DEF Rename
<1>10. ASSUME NEW f \in Fetches, Glob(f) PROVE AccountInv'
  <2>1. FetchSteps(f) /\ f \in Evicting /\ UNCHANGED <<files, orphans>>
    BY <1>10 DEF FetchSteps, Evicting, Glob, disk
  <2>2. CASE mishaps' = mishaps + 1
    BY <1>6, <2>1, <2>2
  <2>3. CASE /\ siblings' = [siblings EXCEPT ![f] = FilesOf(Segment[key[f].group]) \ {File(key[f])}]
             /\ Advance(f, "evicting") /\ UNCHANGED mishaps
    <3>1. ASSUME NEW x, NEW y \in DOMAIN files, Supersedes(x, y) PROVE Supersedes(x, y)'
      <4>1. CASE f \in Evicting /\ File(key[f]) = x /\ WillEvict(f, y)
        <5>1. /\ f \in Evicting' /\ key'[f] = key[f] /\ stage'[f] = "evicting"
              /\ siblings'[f] = FilesOf(Segment[key[f].group]) \ {File(key[f])}
          BY <1>10, <2>3 DEF Glob, Advance, TypeOK, Evicting
        <5>2. y \in siblings'[f]
          BY <4>1, <5>1 DEF WillEvict, FilesOf
        <5>3. WillEvict(f, y)' /\ File(key'[f]) = x
          BY <4>1, <5>1, <5>2 DEF WillEvict, File
        <5>. QED  BY <5>1, <5>3 DEF Supersedes, File
      <4>. QED  BY <2>1, <3>1, <4>1, SupersessionKept
    <3>2. orphans' + Cardinality(owed) <= mishaps'
      BY <1>1, <2>1, <2>3
    <3>. QED  BY <1>1, <2>1, <3>1, <3>2, OrderlyBy, AccountBy
  <2>. QED  BY <1>10, <2>2, <2>3 DEF Glob
<1>11. ASSUME NEW f \in Fetches, Evict(f) PROVE AccountInv'
  <2>1. FetchSteps(f) /\ UNCHANGED orphans /\ key' = key /\ stage' = stage
    BY <1>11 DEF FetchSteps, Evict
  <2>2. PICK file \in siblings[f] :
           /\ siblings' = [siblings EXCEPT ![f] = @ \ {file}]
           /\ \/ files' = Without({file}) /\ UNCHANGED mishaps
              \/ file \in DOMAIN files /\ mishaps' = mishaps + 1 /\ UNCHANGED files
    BY <1>11 DEF Evict
  <2>3. ASSUME NEW x, NEW y, y # file, Supersedes(x, y) PROVE Supersedes(x, y)'
    <3>1. PICK h \in Evicting : File(key[h]) = x /\ WillEvict(h, y)
      BY <2>3 DEF Supersedes
    <3>2. y \in siblings[h] => y \in siblings'[h]
      BY <2>2, <2>3, <3>1 DEF TypeOK, Evicting
    <3>. QED  BY <2>1, <3>1, <3>2 DEF Supersedes, WillEvict, Evicting, File
  <2>4. CASE files' = Without({file}) /\ UNCHANGED mishaps
    <3>1. DOMAIN files' = DOMAIN files \ {file}
      BY <2>4 DEF Without
    <3>2. owed \ {file} \in SUBSET DOMAIN files'
      BY <3>1
    <3>3. orphans' + Cardinality(owed \ {file}) <= mishaps'
      BY <1>1, <1>2, <2>1, <2>4, OwesLess
    <3>4. DOMAIN files' \ (owed \ {file}) \subseteq DOMAIN files \ owed
      BY <3>1
    <3>5. \A x, y \in DOMAIN files' \ (owed \ {file}) :
             x # y /\ x[1] = y[1] => Supersedes(x, y)' \/ Supersedes(y, x)'
      BY <1>1, <2>3, <3>1, <3>4, OrderlyBy
    <3>. QED  BY <3>2, <3>3, <3>5, AccountBy
  <2>5. CASE file \in DOMAIN files /\ mishaps' = mishaps + 1 /\ UNCHANGED files
    <3>1. owed \cup {file} \in SUBSET DOMAIN files'
      BY <2>5
    <3>2. orphans' + Cardinality(owed \cup {file}) <= mishaps'
      BY <1>1, <1>2, <2>1, <2>5, OwesMore
    <3>3. \A x, y \in DOMAIN files' \ (owed \cup {file}) :
             x # y /\ x[1] = y[1] => Supersedes(x, y)' \/ Supersedes(y, x)'
      BY <1>1, <2>3, <2>5, OrderlyBy
    <3>. QED  BY <3>1, <3>2, <3>3, AccountBy
  <2>. QED  BY <2>2, <2>4, <2>5
<1>12. ASSUME NEW f \in Fetches, FinishEviction(f) PROVE AccountInv'
  <2>1. FetchSteps(f) /\ UNCHANGED <<files, orphans, mishaps>>
    BY <1>12 DEF FetchSteps, FinishEviction, disk
  <2>2. \A y : ~WillEvict(f, y)
    BY <1>12 DEF FinishEviction, WillEvict
  <2>3. \A x, y : Supersedes(x, y) => Supersedes(x, y)'
    BY <2>1, <2>2, SupersessionKept
  <2>. QED  BY <1>1, <2>1, <2>3, OrderlyBy, AccountBy
<1>13. ASSUME NEW f \in Fetches, End(f) PROVE AccountInv'
  <2>1. FetchSteps(f) /\ UNCHANGED files
    BY <1>13 DEF FetchSteps, End
  <2>2. CASE f \notin Evicting
    <3>1. orphans' + Cardinality(owed) <= mishaps'
      <4>1. CASE f \in temps
        BY <1>1, <1>2, <1>13, <4>1 DEF End, TypeOK, WriteStages
      <4>2. CASE f \notin temps
        BY <1>1, <1>2, <1>13, <4>2 DEF End
      <4>. QED  BY <4>1, <4>2
    <3>. QED  BY <1>3, <2>1, <2>2, <3>1
  <2>3. CASE f \in Evicting
    <3>1. UNCHANGED orphans /\ mishaps' = mishaps + 1
      BY <1>2, <1>13, <2>3 DEF End, Evicting, TypeOK, WriteStages
    <3>. QED  BY <1>6, <2>1, <2>3, <3>1
  <2>. QED  BY <2>2, <2>3
<1>14. CASE Revise \/ Damage \/ UNCHANGED vars
  <2>1. DOMAIN files' = DOMAIN files
    BY <1>14 DEF Revise, Damage, vars, disk
  <2>2. UNCHANGED <<orphans, mishaps, key, stage, siblings>>
    BY <1>14 DEF Revise, Damage, vars, disk
  <2>3. \A x, y : Supersedes(x, y) => Supersedes(x, y)'
    BY <2>2 DEF Supersedes, WillEvict, Evicting, File
  <2>. QED  BY <1>1, <2>1, <2>2, <2>3, OrderlyBy, AccountBy
<1>15. CASE DeleteDirectory
  <2>1. DOMAIN files' = {} /\ orphans' = 0 /\ mishaps' = mishaps
    BY <1>15 DEF DeleteDirectory, Without
  <2>2. orphans' + Cardinality({}) <= mishaps'
    BY <1>2, <2>1, FS_EmptySet
  <2>. QED  BY <2>1, <2>2, AccountBy
<1>. QED
  BY <1>7, <1>8, <1>9, <1>10, <1>11, <1>12, <1>13, <1>14, <1>15, StepKinds DEF FetchSteps

-----------------------------------------------------------------------------
(* Counting the leftovers.                                                 *)

LEMMA UnionIsNoMore ==
    ASSUME NEW S, NEW T, IsFiniteSet(S), IsFiniteSet(T)
    PROVE  /\ Cardinality(S) \in Nat /\ Cardinality(T) \in Nat /\ Cardinality(S \cup T) \in Nat
           /\ Cardinality(S \cup T) <= Cardinality(S) + Cardinality(T)
           /\ IsFiniteSet(S \cup T)
<1>1. /\ Cardinality(S) \in Nat /\ Cardinality(T) \in Nat
  BY FS_CardinalityType
<1>2. Cardinality(S \cap T) \in Nat
  BY FS_Intersection, FS_CardinalityType
<1>3. /\ IsFiniteSet(S \cup T)
      /\ Cardinality(S \cup T) = Cardinality(S) + Cardinality(T) - Cardinality(S \cap T)
  BY FS_Union
<1>4. Cardinality(S \cup T) \in Nat
  BY <1>3, FS_CardinalityType
<1>. QED  BY <1>1, <1>2, <1>3, <1>4

LEMMA ImageIsNoMore ==
    ASSUME NEW S, IsFiniteSet(S), NEW T, NEW map \in [S -> T],
           \A y \in T : \E x \in S : map[x] = y
    PROVE  IsFiniteSet(T) /\ Cardinality(T) <= Cardinality(S)
<1>1. map \in Surjection(S, T)
  BY DEF Surjection
<1>. QED  BY <1>1, FS_Surjection

LEMMA EvictingIsFinite == IsFiniteSet(Evicting) /\ Cardinality(Evicting) \in Nat
<1>1. Evicting \in SUBSET Fetches
  BY DEF Evicting
<1>. QED  BY <1>1, CacheAssumption, FS_Subset, FS_CardinalityType

LEMMA Accounted ==
    ASSUME TypeOK, FilesInv, AccountInv
    PROVE  LeftoversAreAccounted
<1>1. PICK owed \in SUBSET DOMAIN files :
         Orderly(owed) /\ orphans + Cardinality(owed) <= mishaps
  BY DEF AccountInv
<1>. DEFINE groups == {file[1] : file \in DOMAIN files}
            owned == {file \in DOMAIN files \ owed : \E f \in Evicting : File(key[f]) = file}
            rest == (DOMAIN files \ owed) \ owned
<1>2. IsFiniteSet(DOMAIN files) /\ IsFiniteSet(owed) /\ IsFiniteSet(owned) /\ IsFiniteSet(rest)
  <2>1. owned \in SUBSET DOMAIN files /\ rest \in SUBSET DOMAIN files
    OBVIOUS
  <2>. QED  BY <2>1, FS_Subset DEF FilesInv
<1>3. IsFiniteSet(groups)
  <2>. DEFINE segments == [file \in DOMAIN files |-> file[1]]
  <2>1. segments \in [DOMAIN files -> groups]
    OBVIOUS
  <2>2. \A y \in groups : \E x \in DOMAIN files : segments[x] = y
    OBVIOUS
  <2>. HIDE DEF groups, segments
  <2>. QED  BY <1>2, <2>1, <2>2, ImageIsNoMore
<1>4. Cardinality(owned) <= Cardinality(Evicting)
  <2>. DEFINE writers == {f \in Evicting : File(key[f]) \in owned}
  <2>1. writers \in SUBSET Evicting
    OBVIOUS
  <2>2. IsFiniteSet(writers) /\ Cardinality(writers) <= Cardinality(Evicting)
    BY <2>1, EvictingIsFinite, FS_Subset
  <2>3. /\ [f \in writers |-> File(key[f])] \in [writers -> owned]
        /\ \A y \in owned : \E f \in writers : [g \in writers |-> File(key[g])][f] = y
    OBVIOUS
  <2>4. Cardinality(owned) <= Cardinality(writers)
    BY <2>2, <2>3, ImageIsNoMore
  <2>5. /\ Cardinality(owned) \in Nat /\ Cardinality(writers) \in Nat
        /\ Cardinality(Evicting) \in Nat
    BY <1>2, <2>2, EvictingIsFinite, FS_CardinalityType
  <2>. QED  BY <2>2, <2>4, <2>5
<1>5. Cardinality(rest) <= Cardinality(groups)
  <2>1. \A x, y \in rest : x[1] = y[1] => x = y
    BY <1>1 DEF Orderly, Supersedes
  <2>2. [file \in rest |-> file[1]] \in Injection(rest, groups)
    BY <2>1 DEF Injection, IsInjective
  <2>. QED  BY <1>3, <2>2, FS_Injection
<1>6. Cardinality(DOMAIN files) <= Cardinality(owed) + Cardinality(owned) + Cardinality(rest)
  <2>1. DOMAIN files = owed \cup (owned \cup rest)
    OBVIOUS
  <2>2. /\ Cardinality(owned) \in Nat /\ Cardinality(rest) \in Nat /\ Cardinality(owned \cup rest) \in Nat
        /\ Cardinality(owned \cup rest) <= Cardinality(owned) + Cardinality(rest)
        /\ IsFiniteSet(owned \cup rest)
    BY <1>2, UnionIsNoMore
  <2>3. /\ Cardinality(owed) \in Nat /\ Cardinality(owed \cup (owned \cup rest)) \in Nat
        /\ Cardinality(owed \cup (owned \cup rest)) <= Cardinality(owed) + Cardinality(owned \cup rest)
    BY <1>2, <2>2, UnionIsNoMore
  <2>. QED  BY <2>1, <2>2, <2>3
<1>7. /\ Cardinality(DOMAIN files) \in Nat /\ Cardinality(owed) \in Nat
      /\ Cardinality(owned) \in Nat /\ Cardinality(rest) \in Nat
      /\ Cardinality(groups) \in Nat /\ Cardinality(Evicting) \in Nat
      /\ orphans \in Nat /\ mishaps \in Nat
  BY <1>2, <1>3, EvictingIsFinite, FS_CardinalityType DEF TypeOK
<1>8. orphans + (Cardinality(DOMAIN files) - Cardinality(groups))
         <= mishaps + Cardinality(Evicting)
  <2>. HIDE DEF groups, owned, rest
  <2>. QED  BY <1>1, <1>4, <1>5, <1>6, <1>7
<1>. QED  BY <1>8 DEF LeftoversAreAccounted, Evicting

-----------------------------------------------------------------------------
(* The promise, step by step.                                              *)

PromiseStep == [Promise!Next]_<<key, reply, answer>>

(* A hit is the document its key's hash names.                             *)
LEMMA HitIsNamed ==
    ASSUME TypeOK, FetchInv, FilesInv, HonoursHash, NEW f \in Fetches,
           key[f] \in Keys, key[f].hash # NoHash,
           File(key[f]) \in DOMAIN files, files[File(key[f])] # Corrupt
    PROVE  key[f] \in DOMAIN Named /\ files[File(key[f])] = Named[key[f]]
<1>. DEFINE k == key[f]
            d == files[File(k)]
            e == CHOOSE c \in Documents : c[1] = k.group /\ Hash[c] = k.hash
<1>1. PICK r \in Revisions : Hash[<<k.group, r>>] = k.hash
  BY NoneIsNone DEF FetchInv
<1>2. k.group \in Groups
  BY DEF Keys
<1>3. k \in DOMAIN Named /\ Named[k] = e
  BY <1>1 DEF Named
<1>4. <<k.group, r>> \in Documents /\ <<k.group, r>>[1] = k.group
  BY <1>2 DEF Documents
<1>5. e \in Documents /\ e[1] = k.group /\ Hash[e] = k.hash
  BY <1>1, <1>4
<1>6. d \in Documents /\ <<Segment[k.group], k.hash>> = <<Segment[d[1]], Hash[d]>>
  BY DEF FilesInv, HitsAreHonest, File
<1>7. Segment[d[1]] = Segment[e[1]] /\ Hash[d] = Hash[e] /\ Hash[d] # NoHash
  BY <1>5, <1>6
<1>8. d = e
  BY <1>5, <1>6, <1>7, CacheAssumption
<1>. QED  BY <1>3, <1>8

LEMMA PromiseInit == Init => Promise!Init
BY DEF Init, Promise!Init

(* The answer a write returns is the reply it was of.                      *)
LEMMA AnswersReply ==
    ASSUME TypeOK, FetchInv, NEW f \in Fetches, stage[f] \in Caching,
           Return(f, reply[f]), UNCHANGED <<key, reply>>
    PROVE  Promise!Next
<1>1. reply[f] # None /\ answer[f] = None
  BY HasReply DEF TypeOK, Caching
<1>2. Promise!Answer(f)
  BY <1>1 DEF Promise!Answer, Return
<1>. QED  BY <1>2 DEF Promise!Next

LEMMA PromiseStepLemma ==
    ASSUME TypeOK, FetchInv, FilesInv, HonoursHash, [Next]_vars
    PROVE  PromiseStep
<1>. USE NoneIsNone
<1>1. CASE UNCHANGED <<key, reply, answer>>
  BY <1>1 DEF PromiseStep
<1>2. ASSUME Promise!Next PROVE PromiseStep
  BY <1>2 DEF PromiseStep
<1>3. ASSUME NEW f \in Fetches, FetchIndex(f) PROVE PromiseStep
  <2>1. key[f] = None
    BY <1>3 DEF FetchIndex, TypeOK
  <2>2. \E k \in Keys : key' = [key EXCEPT ![f] = k]
    BY <1>3, Indexed DEF FetchIndex
  <2>3. Promise!Ask(f)
    BY <1>3, <2>1, <2>2 DEF Promise!Ask, FetchIndex
  <2>. QED  BY <1>2, <2>3 DEF Promise!Next
<1>4. ASSUME NEW f \in Fetches, LookUp(f) PROVE PromiseStep
  <2>1. CASE UNCHANGED answer
    BY <1>1, <1>4, <2>1 DEF LookUp
  <2>2. CASE /\ key[f].hash # NoHash
             /\ File(key[f]) \in DOMAIN files /\ files[File(key[f])] # Corrupt
             /\ Return(f, files[File(key[f])])
    <3>1. key[f] \in Keys /\ reply[f] = None /\ answer[f] = None
      BY <1>4 DEF LookUp, TypeOK, FetchInv
    <3>2. key[f] \in DOMAIN Named /\ answer' = [answer EXCEPT ![f] = Named[key[f]]]
      BY <2>2, <3>1, HitIsNamed DEF Return
    <3>3. Promise!Answer(f)
      BY <1>4, <3>1, <3>2 DEF Promise!Answer, Promise!Waits, LookUp
    <3>. QED  BY <1>2, <3>3 DEF Promise!Next
  <2>. QED  BY <1>4, <2>1, <2>2 DEF LookUp
<1>5. ASSUME NEW f \in Fetches, AskLive(f) PROVE PromiseStep
  <2>1. key[f] \in Keys /\ reply[f] = None /\ answer[f] = None
    BY <1>5 DEF AskLive, TypeOK, FetchInv
  <2>2. PICK body \in LiveReplies(key[f]) :
           /\ reply' = [reply EXCEPT ![f] = body]
           /\ Return(f, body) \/ UNCHANGED answer
    BY <1>5 DEF AskLive
  <2>3. body \in Bodies \cup {Refused}
    BY <2>1, Replied
  <2>4. Promise!Reply(f)
    BY <1>5, <2>1, <2>2, <2>3 DEF Promise!Reply, Promise!Waits, Return, AskLive
  <2>. QED  BY <1>2, <2>4 DEF Promise!Next
<1>6. ASSUME NEW f \in Fetches,
             \/ MakeDirectory(f) \/ CreateTemp(f) \/ Write(f) \/ Rename(f)
             \/ Glob(f) \/ FinishEviction(f)
      PROVE  PromiseStep
  <2>1. stage[f] \in Caching /\ UNCHANGED <<key, reply>>
    BY <1>6 DEF MakeDirectory, CreateTemp, Write, Rename, Glob, FinishEviction, Caching
  <2>2. UNCHANGED answer \/ Return(f, reply[f])
    BY <1>6 DEF MakeDirectory, CreateTemp, Write, Rename, DropTemp, Glob, FinishEviction
  <2>. QED  BY <1>1, <1>2, <2>1, <2>2, AnswersReply
<1>7. ASSUME NEW f \in Fetches, Evict(f) PROVE PromiseStep
  BY <1>1, <1>7 DEF Evict
<1>8. ASSUME NEW f \in Fetches, End(f) PROVE PromiseStep
  <2>1. key[f] # None
    BY <1>8 DEF End, TypeOK
  <2>2. Promise!Leave(f)
    BY <1>8, <2>1 DEF Promise!Leave, End
  <2>. QED  BY <1>2, <2>2 DEF Promise!Next
<1>9. CASE Revise \/ Damage \/ DeleteDirectory \/ UNCHANGED vars
  BY <1>1, <1>9 DEF Revise, Damage, DeleteDirectory, vars
<1>. QED
  BY <1>3, <1>4, <1>5, <1>6, <1>7, <1>8, <1>9, StepKinds DEF FetchSteps

-----------------------------------------------------------------------------
(* The results.                                                            *)

(* Between any two steps of any fetch, what is cached, what each fetch will *)
(* still write and remove, and the mishaps so far fit together              *)
(* (FetchGroupDocument, writeDocument, evictSuperseded).                   *)
THEOREM CacheTheorem == Spec => []CacheInv
<1>1. Init => CacheInv
  BY TypeInit, FetchInit, FilesInit, AccountInit DEF CacheInv
<1>2. CacheInv /\ [Next]_vars => CacheInv'
  BY TypeStep, FetchStep, FilesStep, AccountStep DEF CacheInv
<1>. QED  BY <1>1, <1>2, PTL DEF Spec

(* Files and temp files exist only in the cache directory, and what a fetch *)
(* knows fits how far it is, in every reachable state (cache.go).          *)
THEOREM TypeTheorem == Spec => []TypeOK
<1>1. CacheInv => TypeOK
  BY DEF CacheInv
<1>. QED  BY <1>1, CacheTheorem, PTL

(* "validation stays honest": where the cluster refuses a superseded hash,  *)
(* a cached file that reads as a document is the one the hash in its name   *)
(* describes, through crashes, damage and concurrent Sessions               *)
(* (readCachedDocument, writeDocument).                                    *)
THEOREM HonestyTheorem == ASSUME HonoursHash PROVE Spec => []HitsAreHonest
<1>1. CacheInv => HitsAreHonest
  BY DEF CacheInv, FilesInv
<1>. QED  BY <1>1, CacheTheorem, PTL

(* "at most one stale file per group per crash": beyond one file per group  *)
(* the directory holds no more than what fetches are about to evict and     *)
(* what halfway writes and failed listings and removals left               *)
(* (evictSuperseded).                                                      *)
THEOREM LeftoversTheorem == Spec => []LeftoversAreAccounted
<1>1. CacheInv => LeftoversAreAccounted
  BY Accounted DEF CacheInv
<1>. QED  BY <1>1, CacheTheorem, PTL

(* The cache is a speedup, never a gate and never a fallback: with it a     *)
(* fetch answers what the cluster answered or the document its hash names,  *)
(* where the cluster refuses a superseded hash (Cache, Fetcher).           *)
THEOREM PromiseTheorem == ASSUME HonoursHash PROVE Spec => PromiseKept
<1>1. CacheInv /\ [Next]_vars => PromiseStep
  BY PromiseStepLemma DEF CacheInv
<1>. QED
  BY <1>1, PromiseInit, CacheTheorem, PTL DEF Spec, PromiseKept, Promise!Spec, PromiseStep

=============================================================================
