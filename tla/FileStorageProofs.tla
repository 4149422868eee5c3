-------------------------- MODULE FileStorageProofs --------------------------
(***************************************************************************)
(* The directory-backed storage, for any number of nodes, files, versions  *)
(* and faults: what its files decode to, that every crash leaves a         *)
(* directory that opens, to a publication no older than the last one that  *)
(* was acknowledged, which shows what it showed; that references keep      *)
(* their meaning and epochs are not used twice.                            *)
(***************************************************************************)
EXTENDS FileStorage, WellFoundedInduction, TLAPS

------------------------------------------------------------------------------
(* The inductive invariant: files *)

IsName(name) ==
  \/ name \in {MANIFEST, WAL_STATE, WAL_LOG}
  \/ \E dir \in Numbered, i \in Nat \ {0} : name = <<dir, i>>

ManifestFields == {"version", "segments", "hotDelta", "epoch", "quantizer", "shows"}
ManifestOK(m) == DOMAIN m = ManifestFields /\ IsManifest(m)

DeltaOK(delta) ==
  /\ delta = [records |-> delta.records, rewrites |-> delta.rewrites,
              tombstones |-> delta.tombstones]
  /\ IsDelta(delta)

Decodes(name, content) ==
  /\ name[1] = "segments" => IsSegment(content)
  /\ name[1] = "deltas" => IsDelta(content)
  /\ name[1] = "quantizers" => content \in Trained
  /\ name = MANIFEST => ManifestOK(content)

\* The bound is there for the next number: only finitely many are used.
IsDirectory(files) ==
  /\ \A name \in DOMAIN files : IsName(name) /\ Decodes(name, files[name])
  /\ \E b \in Nat : \A name \in DOMAIN files : name[2] <= b

FilesOK == IsDirectory(disk) /\ IsDirectory(durable)

\* The files a manifest refers to.
Refs(m) ==
  {<<"segments", m.segments[i]>> : i \in DOMAIN m.segments}
    \cup {<<"deltas", d>> : d \in {m.hotDelta} \ {0}}
    \cup {<<"quantizers", q>> : q \in {m.quantizer} \ {0}}

Visible(m) ==
  \E files \in {disk, durable} : MANIFEST \in DOMAIN files /\ m = files[MANIFEST]

\* No crash takes a file away or changes it.
Settled(name) == name \in DOMAIN disk \cap DOMAIN durable /\ disk[name] = durable[name]

Secured(m) == \A name \in Refs(m) : Settled(name)

\* files has name with a content that a crash may leave.
Possible(files, name) ==
  /\ name \in DOMAIN files
  /\ \/ name \in DOMAIN disk /\ files[name] = disk[name]
     \/ name \in DOMAIN durable /\ files[name] = durable[name]

\* However its files are combined, a manifest shows what it showed.
Faithful(m) ==
  \A files : IsDirectory(files) /\ (\A name \in Refs(m) : Possible(files, name)) =>
    View(Contents(files), m) = m.shows

------------------------------------------------------------------------------
(* The inductive invariant: memory *)

Fields == {"manifest", "segments", "deltas", "quantizers", "next", "nextEpoch", "draft", "handed"}

\* What memory holds under a reference is on the disk; what was handed out is
\* durable as well.  Only the number in use next may be on the disk already.
NumbersOK(dir) ==
  /\ mem.next[dir] \in Nat \ {0} /\ mem.handed[dir] \in Nat
  /\ \A i \in DOMAIN mem[dir] :
       /\ i \in Nat \ {0} /\ i < mem.next[dir]
       /\ <<dir, i>> \in DOMAIN disk /\ mem[dir][i] = disk[<<dir, i>>]
  /\ mem.handed[dir] # 0 =>
       mem.handed[dir] \in DOMAIN mem[dir] /\ Settled(<<dir, mem.handed[dir]>>)

EpochsBelow(delta, e) == \A x \in Epochs(delta) : x < e

MemOK ==
  IsOpen =>
    /\ DOMAIN mem = Fields /\ DOMAIN mem.next = Numbered /\ DOMAIN mem.handed = Numbered
    /\ \A dir \in Numbered : NumbersOK(dir)
    /\ ManifestOK(mem.manifest) /\ ValidReferences(mem, mem.manifest)
    /\ DeltaOK(mem.draft) /\ EpochsBelow(mem.draft, mem.nextEpoch)
    /\ mem.nextEpoch \in 1 .. MaxEpoch + 1
    /\ \A name \in DOMAIN disk : name[1] = "deltas" => EpochsBelow(disk[name], mem.nextEpoch)
    /\ MANIFEST \in DOMAIN disk
    /\ life \in {"none", "index", "revived"}

------------------------------------------------------------------------------
(* The inductive invariant: the call under way *)

Writing == op.pc \in {"rename", "sync"}

\* A numbered file is written under the number in use next.
NumberedWriteOK ==
  Writing /\ op.call \in Numbered =>
    /\ IsOpen
    /\ op.name = <<op.call, mem.next[op.call]>>
    /\ Decodes(op.name, op.content)
    /\ op.call = "deltas" => EpochsBelow(op.content, mem.nextEpoch)

PublishOK ==
  Writing /\ op.call = "publish" =>
    /\ IsOpen
    /\ op.name = MANIFEST
    /\ ManifestOK(op.content) /\ ValidReferences(mem, op.content)
    /\ op.content.version = mem.manifest.version + 1
    /\ op.content.shows = View(mem, op.content)
    /\ life \in {"none", "index"} => Secured(op.content)

\* MANIFEST is created last, over log files that are durable.
CreateOK ==
  Writing /\ op.call = "create" =>
    /\ ~IsOpen /\ life # "index"
    /\ op.name \in {WAL_STATE, WAL_LOG, MANIFEST}
    /\ op.name # WAL_STATE => WAL_STATE \in DOMAIN disk \cap DOMAIN durable
    /\ op.name = MANIFEST => /\ WAL_LOG \in DOMAIN disk \cap DOMAIN durable
                             /\ op.content = InitialManifest

OpOK ==
  /\ \/ op = NoOp
     \/ op = [pc |-> "remove"]
     \/ /\ DOMAIN op = {"pc", "call", "name", "content"}
        /\ Writing /\ op.call \in Numbered \cup {"publish", "create"}
  /\ NumberedWriteOK /\ PublishOK /\ CreateOK
  /\ op.pc = "sync" => op.name \in DOMAIN disk /\ disk[op.name] = op.content
  /\ op.pc = "remove" => ~IsOpen /\ life \in {"destroying", "revived"}

------------------------------------------------------------------------------
(* The inductive invariant: what a crash leaves *)

LifeOK ==
  /\ life \in {"none", "index", "destroying", "revived"}
  /\ IsManifest(acked)
  /\ faults \in 0 .. MaxFaults

\* As long as no destroy has begun.
Recoverable ==
  life \in {"none", "index"} =>
    /\ MANIFEST \in DOMAIN durable => MANIFEST \in DOMAIN disk
    /\ MANIFEST \in DOMAIN disk =>
         {WAL_STATE, WAL_LOG} \subseteq DOMAIN disk \cap DOMAIN durable
    /\ \A m : Visible(m) => Secured(m) /\ (IsOpen => ValidReferences(mem, m))
    /\ IsOpen => Secured(mem.manifest)

NotOlder(m) == m = acked \/ m.version > acked.version

Acknowledged ==
  life = "index" =>
    /\ MANIFEST \in DOMAIN durable
    /\ \A m : Visible(m) => NotOlder(m)
    /\ IsOpen => NotOlder(mem.manifest)

Shown == life # "revived" => \A m : Visible(m) => Faithful(m)

Inv ==
  FilesOK /\ MemOK /\ OpOK /\ LifeOK /\ Recoverable /\ Acknowledged /\ Shown

------------------------------------------------------------------------------
(* Updates of functions and of directories *)

LEMMA WithFacts ==
  ASSUME NEW f, NEW x, NEW y
  PROVE  /\ DOMAIN With(f, x, y) = DOMAIN f \cup {x}
         /\ With(f, x, y)[x] = y
         /\ \A z \in DOMAIN f \ {x} : With(f, x, y)[z] = f[z]
BY DEF With

LEMMA WithoutFacts ==
  ASSUME NEW f, NEW x
  PROVE  /\ DOMAIN Without(f, x) = DOMAIN f \ {x}
         /\ \A z \in DOMAIN f \ {x} : Without(f, x)[z] = f[z]
BY DEF Without

LEMMA SyncedFacts ==
  ASSUME NEW dir
  PROVE  /\ \A name : name \in DOMAIN Synced(dir) <=>
              IF name[1] = dir THEN name \in DOMAIN disk ELSE name \in DOMAIN durable
         /\ \A name \in DOMAIN Synced(dir) :
              Synced(dir)[name] = IF name[1] = dir THEN disk[name] ELSE durable[name]
BY DEF Synced, InDirectory

LEMMA OutcomeFacts ==
  ASSUME NEW left \in Outcomes
  PROVE  /\ \A name \in DOMAIN left : Possible(left, name)
         /\ DOMAIN disk \cap DOMAIN durable \subseteq DOMAIN left
<1>1. PICK new :
        left = [name \in (DOMAIN disk \cap new) \cup (DOMAIN durable \ new) |->
                  IF name \in new THEN disk[name] ELSE durable[name]]
  BY DEF Outcomes
<1>. QED
  BY <1>1 DEF Possible

\* A set of naturals that is not empty has a least element.
LEMMA LeastFacts ==
  ASSUME NEW S, S \subseteq Nat, S # {}
  PROVE  \E c \in S : \A d \in S : c <= d
<1>. DEFINE less == {p \in Nat \X Nat : p[1] < p[2]}
<1>1. IsWellFoundedOn(less, Nat)
  BY NatLessThanWellFounded DEF OpToRel
<1>2. PICK c \in S : \A d \in S : <<d, c>> \notin less
  <2>. HIDE DEF less
  <2>. QED
    BY <1>1, WFMin
<1>3. \A d \in S : ~ d < c
  BY <1>2
<1>. QED
  BY <1>2, <1>3

\* The largest number of a bounded set is in it, and no other is larger.
LEMMA LargestFacts ==
  ASSUME NEW S, S \subseteq Nat, NEW b \in Nat, \A x \in S : x <= b
  PROVE  /\ Largest(S) \in Nat
         /\ \A x \in S : x <= Largest(S)
         /\ S # {} => Largest(S) \in S
<1>. DEFINE bounds == {c \in Nat : \A x \in S : x <= c}
<1>1. PICK c \in bounds : \A d \in bounds : c <= d
  <2>1. bounds \subseteq Nat /\ b \in bounds
    OBVIOUS
  <2>. HIDE DEF bounds
  <2>. QED
    BY <2>1, LeastFacts
<1>2. CASE S = {}
  BY <1>2 DEF Largest
<1>3. CASE S # {}
  <2>1. c \in S
    <3>1. SUFFICES ASSUME c \notin S PROVE FALSE
      OBVIOUS
    <3>2. PICK x \in S : TRUE
      BY <1>3
    <3>3. x \in Nat /\ x < c
      BY <1>1, <3>1, <3>2
    <3>4. c - 1 \in bounds
      BY <1>1, <3>1, <3>3
    <3>. QED
      BY <1>1, <3>4
  <2>2. \A y \in S : y <= c
    BY <1>1
  <2>. QED
    BY <1>3, <2>1, <2>2 DEF Largest
<1>. QED
  BY <1>2, <1>3

LEMMA NumberedFacts ==
  ASSUME NEW files, IsDirectory(files), NEW dir \in Numbered
  PROVE  /\ Numbers(files, dir) \subseteq Nat \ {0}
         /\ \A i : i \in Numbers(files, dir) <=> <<dir, i>> \in DOMAIN files
         /\ DOMAIN NumberedFiles(files, dir) = Numbers(files, dir)
         /\ \A i \in Numbers(files, dir) : NumberedFiles(files, dir)[i] = files[<<dir, i>>]
         /\ \E b \in Nat : \A i \in Numbers(files, dir) : i <= b
<1>1. ASSUME NEW i \in Numbers(files, dir)
      PROVE  <<dir, i>> \in DOMAIN files /\ i \in Nat \ {0}
  <2>1. PICK name \in DOMAIN files : name[1] = dir /\ name[2] = i
    BY DEF Numbers, InDirectory
  <2>2. IsName(name)
    BY DEF IsDirectory
  <2>3. dir # "root" /\ dir # "wal"
    BY DEF Numbered
  <2>4. name \notin {MANIFEST, WAL_STATE, WAL_LOG}
    BY <2>1, <2>3 DEF MANIFEST, WAL_STATE, WAL_LOG
  <2>5. PICK d \in Numbered, j \in Nat \ {0} : name = <<d, j>>
    BY <2>2, <2>4 DEF IsName
  <2>. QED
    BY <2>1, <2>5
<1>2. ASSUME NEW i, <<dir, i>> \in DOMAIN files
      PROVE  i \in Numbers(files, dir)
  BY <1>2 DEF Numbers, InDirectory
<1>3. PICK b \in Nat : \A name \in DOMAIN files : name[2] <= b
  BY DEF IsDirectory
<1>4. \A i \in Numbers(files, dir) : i <= b
  BY <1>1, <1>3
<1>. QED
  BY <1>1, <1>2, <1>4 DEF NumberedFiles

------------------------------------------------------------------------------
(* What a manifest shows depends on the files it refers to, and no others *)

LEMMA ViewFacts ==
  ASSUME NEW s, NEW t, NEW m, m.segments \in Seq(Nat),
         \A i \in DOMAIN m.segments : s.segments[m.segments[i]] = t.segments[m.segments[i]],
         m.hotDelta # 0 => s.deltas[m.hotDelta] = t.deltas[m.hotDelta],
         m.quantizer # 0 => s.quantizers[m.quantizer] = t.quantizers[m.quantizer]
  PROVE  View(s, m) = View(t, m)
<1>1. DeltaOf(s, m) = DeltaOf(t, m)
  BY DEF DeltaOf
<1>2. ReadQuantizer(s, m) = ReadQuantizer(t, m)
  BY DEF ReadQuantizer
<1>3. ASSUME NEW n \in Nodes
      PROVE  ReadNode(s, m, n) = ReadNode(t, m, n)
  <2>1. InSegments(s, m, n) = InSegments(t, m, n)
    BY DEF InSegments
  <2>2. ASSUME InSegments(s, m, n) # {}
        PROVE  ImmutableRecord(s, m, n) = ImmutableRecord(t, m, n)
    <3>. DEFINE first(u) == CHOOSE i \in InSegments(u, m, n) :
                              \A j \in InSegments(u, m, n) : i <= j
    <3>1. InSegments(s, m, n) \subseteq DOMAIN m.segments /\ DOMAIN m.segments \subseteq Nat
      BY DEF InSegments
    <3>2. first(s) \in DOMAIN m.segments
      BY <2>2, <3>1, LeastFacts
    <3>3. first(s) = first(t)
      BY <2>1
    <3>. QED
      BY <3>2, <3>3 DEF ImmutableRecord
  <2>3. Deleted(s, m, n) = Deleted(t, m, n)
    BY <1>1 DEF Deleted
  <2>. QED
    BY <1>1, <2>1, <2>2, <2>3 DEF ReadNode
<1>. QED
  BY <1>2, <1>3 DEF View

LEMMA RefsFacts ==
  ASSUME NEW m
  PROVE  /\ \A i : <<"segments", i>> \in Refs(m) <=> \E k \in DOMAIN m.segments : i = m.segments[k]
         /\ \A i : <<"deltas", i>> \in Refs(m) <=> i = m.hotDelta /\ i # 0
         /\ \A i : <<"quantizers", i>> \in Refs(m) <=> i = m.quantizer /\ i # 0
         /\ \A name \in Refs(m) : \E dir \in Numbered : \E i : name = <<dir, i>>
BY DEF Refs, Numbered

LEMMA ValidFacts ==
  ASSUME NEW s, NEW m
  PROVE  ValidReferences(s, m) <=>
           \A dir \in Numbered : \A i : <<dir, i>> \in Refs(m) => i \in DOMAIN s[dir]
<1>. DEFINE Has(dir) == \A i : <<dir, i>> \in Refs(m) => i \in DOMAIN s[dir]
<1>1. Has("segments") <=> \A k \in DOMAIN m.segments : m.segments[k] \in DOMAIN s.segments
  <2>1. ASSUME Has("segments"), NEW k \in DOMAIN m.segments
        PROVE  m.segments[k] \in DOMAIN s.segments
    <3>1. <<"segments", m.segments[k]>> \in Refs(m)
      BY RefsFacts
    <3>. QED
      BY <2>1, <3>1
  <2>2. ASSUME \A k \in DOMAIN m.segments : m.segments[k] \in DOMAIN s.segments
        PROVE  Has("segments")
    BY <2>2, RefsFacts
  <2>. QED
    BY <2>1, <2>2
<1>2. Has("deltas") <=> m.hotDelta \in DOMAIN s.deltas \cup {0}
  BY RefsFacts
<1>3. Has("quantizers") <=> m.quantizer \in DOMAIN s.quantizers \cup {0}
  BY RefsFacts
<1>4. (\A dir \in Numbered : Has(dir)) <=> Has("segments") /\ Has("deltas") /\ Has("quantizers")
  <2>. HIDE DEF Has
  <2>. QED
    BY DEF Numbered
<1>. QED
  BY <1>1, <1>2, <1>3, <1>4 DEF ValidReferences

LEMMA ContentsFacts ==
  ASSUME NEW files, IsDirectory(files)
  PROVE  /\ DOMAIN Contents(files) = Numbered
         /\ \A dir \in Numbered : \A i : i \in DOMAIN Contents(files)[dir] <=> <<dir, i>> \in DOMAIN files
         /\ \A dir \in Numbered : \A i \in DOMAIN Contents(files)[dir] :
              i \in Nat \ {0} /\ Contents(files)[dir][i] = files[<<dir, i>>]
<1>1. \A dir \in Numbered : Contents(files)[dir] = NumberedFiles(files, dir)
  BY DEF Contents, Numbered
<1>2. DOMAIN Contents(files) = Numbered
  BY DEF Contents, Numbered
<1>. QED
  BY <1>1, <1>2, NumberedFacts

LEMMA LoadsFacts ==
  ASSUME NEW files, IsDirectory(files)
  PROVE  Loads(files) <=> /\ {MANIFEST, WAL_STATE, WAL_LOG} \subseteq DOMAIN files
                          /\ Refs(files[MANIFEST]) \subseteq DOMAIN files
<1>. DEFINE m == files[MANIFEST]
<1>1. ValidReferences(Contents(files), m) <=>
        \A dir \in Numbered : \A i : <<dir, i>> \in Refs(m) => <<dir, i>> \in DOMAIN files
  BY ValidFacts, ContentsFacts
<1>2. Refs(m) \subseteq DOMAIN files <=>
        \A dir \in Numbered : \A i : <<dir, i>> \in Refs(m) => <<dir, i>> \in DOMAIN files
  BY RefsFacts
<1>. QED
  BY <1>1, <1>2 DEF Loads

\* Two stores that agree on the files of a manifest show the same.
LEMMA AgreeingStores ==
  ASSUME NEW s, NEW t, NEW m, m.segments \in Seq(Nat),
         \A dir \in Numbered : \A i : <<dir, i>> \in Refs(m) => s[dir][i] = t[dir][i]
  PROVE  View(s, m) = View(t, m)
<1>1. \A i \in DOMAIN m.segments : s.segments[m.segments[i]] = t.segments[m.segments[i]]
  BY RefsFacts DEF Numbered
<1>2. m.hotDelta # 0 => s.deltas[m.hotDelta] = t.deltas[m.hotDelta]
  BY RefsFacts DEF Numbered
<1>3. m.quantizer # 0 => s.quantizers[m.quantizer] = t.quantizers[m.quantizer]
  BY RefsFacts DEF Numbered
<1>. QED
  BY <1>1, <1>2, <1>3, ViewFacts

\* A store that agrees with what a crash may leave of a manifest's files.
LEMMA FaithfulFacts ==
  ASSUME NEW s, NEW m, m.segments \in Seq(Nat), View(s, m) = m.shows, Secured(m),
         \A dir \in Numbered : \A i : <<dir, i>> \in Refs(m) => s[dir][i] = disk[<<dir, i>>]
  PROVE  Faithful(m)
<1>. SUFFICES ASSUME NEW files, IsDirectory(files), \A name \in Refs(m) : Possible(files, name)
              PROVE  View(Contents(files), m) = View(s, m)
  BY DEF Faithful
<1>1. ASSUME NEW dir \in Numbered, NEW i, <<dir, i>> \in Refs(m)
      PROVE  Contents(files)[dir][i] = s[dir][i]
  <2>1. <<dir, i>> \in DOMAIN files /\ files[<<dir, i>>] = disk[<<dir, i>>]
    BY <1>1 DEF Secured, Settled, Possible
  <2>. QED
    BY <1>1, <2>1, ContentsFacts
<1>. QED
  BY <1>1, AgreeingStores

LEMMA InitialManifestFacts ==
  /\ Refs(InitialManifest) = {}
  /\ ManifestOK(InitialManifest)
  /\ \A s : View(s, InitialManifest) = InitialManifest.shows
  /\ \A s : ValidReferences(s, InitialManifest)
<1>1. Refs(InitialManifest) = {}
  BY DEF InitialManifest, Refs
<1>2. ManifestOK(InitialManifest)
  BY FileStorageAssumption DEF InitialManifest, IsManifest, ManifestOK, ManifestFields
<1>3. \A s : ValidReferences(s, InitialManifest)
  BY <1>1, ValidFacts
<1>4. ASSUME NEW s PROVE View(s, InitialManifest) = InitialManifest.shows
  <2>1. DeltaOf(s, InitialManifest) = EmptyDelta
    BY DEF DeltaOf, InitialManifest
  <2>2. ReadQuantizer(s, InitialManifest) = "none"
    BY DEF ReadQuantizer, InitialManifest
  <2>3. \A n \in Nodes : InSegments(s, InitialManifest, n) = {}
    BY DEF InSegments, InitialManifest
  <2>4. \A n \in Nodes : n \notin DOMAIN EmptyDelta.tombstones /\ n \notin DOMAIN EmptyDelta.records
    BY DEF EmptyDelta, EmptyFn
  <2>5. \A n \in Nodes : ReadNode(s, InitialManifest, n) = Missing
    BY <2>1, <2>3, <2>4 DEF ReadNode, Deleted
  <2>. QED
    BY <2>2, <2>5 DEF View, InitialManifest
<1>. QED
  BY <1>1, <1>2, <1>3, <1>4

------------------------------------------------------------------------------
(* Calls begin, and end without success *)

\* What is said of files alone holds as long as they stay.
LEMMA FilesStay ==
  ASSUME UNCHANGED <<disk, durable>>
  PROVE  /\ FilesOK' <=> FilesOK
         /\ \A m : Visible(m)' <=> Visible(m)
         /\ \A name : Settled(name)' <=> Settled(name)
         /\ \A m : Secured(m)' <=> Secured(m)
         /\ \A m : Faithful(m)' <=> Faithful(m)
BY DEF FilesOK, Visible, Settled, Secured, Faithful, Possible

LEMMA MemStays ==
  ASSUME UNCHANGED <<disk, durable, mem, life>>, MemOK
  PROVE  MemOK'
<1>1. \A dir \in Numbered : NumbersOK(dir)' <=> NumbersOK(dir)
  BY FilesStay DEF NumbersOK
<1>. QED
  BY <1>1 DEF MemOK, IsOpen

LEMMA OnlyOpChanges ==
  ASSUME Inv, UNCHANGED <<disk, durable, mem, acked, life, faults>>, OpOK'
  PROVE  Inv'
<1>1. FilesOK' /\ Shown' /\ MemOK'
  BY FilesStay, MemStays DEF Inv, Shown
<1>2. LifeOK' /\ Recoverable' /\ Acknowledged'
  BY FilesStay DEF Inv, LifeOK, Recoverable, Acknowledged, IsOpen, NotOlder
<1>. QED
  BY <1>1, <1>2 DEF Inv

\* A call of an open storage is to write a numbered file.
LEMMA StartNumbered ==
  ASSUME Inv, NEW dir \in Numbered, NEW content,
         CanStart(dir), Write(dir, <<dir, mem.next[dir]>>, content),
         Decodes(<<dir, mem.next[dir]>>, content),
         dir = "deltas" => EpochsBelow(content, mem.nextEpoch),
         UNCHANGED <<disk, durable, mem, acked, life, faults>>
  PROVE  Inv'
<1>1. IsOpen' /\ IsOpen
  BY DEF CanStart, Idle, IsOpen
<1>2. /\ DOMAIN op' = {"pc", "call", "name", "content"}
      /\ op'.pc = "rename" /\ op'.call = dir
      /\ op'.name = <<dir, mem.next[dir]>> /\ op'.content = content
  BY DEF Write
<1>3. dir # "publish" /\ dir # "create"
  BY DEF Numbered
<1>4. OpOK'
  BY <1>1, <1>2, <1>3 DEF OpOK, NumberedWriteOK, PublishOK, CreateOK, Writing
<1>. QED
  BY <1>4, OnlyOpChanges

\* What a manifest shows does not depend on its version.
LEMMA SameFields ==
  ASSUME NEW s, NEW m, NEW k, k.segments = m.segments, k.hotDelta = m.hotDelta,
         k.quantizer = m.quantizer, k.epoch = m.epoch
  PROVE  /\ View(s, k) = View(s, m) /\ Refs(k) = Refs(m)
         /\ ValidReferences(s, k) <=> ValidReferences(s, m)
<1>1. /\ DeltaOf(s, k) = DeltaOf(s, m)
      /\ \A n : InSegments(s, k, n) = InSegments(s, m, n)
      /\ ReadQuantizer(s, k) = ReadQuantizer(s, m)
  BY DEF DeltaOf, InSegments, ReadQuantizer
<1>2. ASSUME NEW n
      PROVE  ImmutableRecord(s, k, n) = ImmutableRecord(s, m, n)
  <2>. DEFINE first(x) == CHOOSE i \in InSegments(s, x, n) :
                            \A j \in InSegments(s, x, n) : i <= j
  <2>1. first(k) = first(m)
    BY <1>1
  <2>. QED
    BY <2>1 DEF ImmutableRecord
<1>3. \A n : Deleted(s, k, n) = Deleted(s, m, n)
  BY <1>1 DEF Deleted
<1>4. \A n : ReadNode(s, k, n) = ReadNode(s, m, n)
  BY <1>1, <1>2, <1>3 DEF ReadNode
<1>. QED
  BY <1>1, <1>4 DEF View, Refs, ValidReferences

LEMMA PublishManifestKeeps ==
  ASSUME Inv, NEW replacement, PublishManifest(replacement), IsOpen,
         ManifestOK(replacement),
         life \in {"none", "index"} => Secured(replacement)
  PROVE  Inv'
<1>. DEFINE content == [replacement EXCEPT !.version = mem.manifest.version + 1,
                                           !.shows = View(mem, replacement)]
<1>1. UNCHANGED <<disk, durable, mem, acked, life, faults>>
  BY DEF PublishManifest
<1>2. /\ DOMAIN op' = {"pc", "call", "name", "content"}
      /\ op'.pc = "rename" /\ op'.call = "publish"
      /\ op'.name = MANIFEST /\ op'.content = content
  BY DEF PublishManifest, Write
<1>3. /\ DOMAIN content = ManifestFields
      /\ content.version = mem.manifest.version + 1
      /\ content.shows = View(mem, replacement)
      /\ content.segments = replacement.segments /\ content.hotDelta = replacement.hotDelta
      /\ content.quantizer = replacement.quantizer /\ content.epoch = replacement.epoch
  BY DEF ManifestOK, ManifestFields
<1>. HIDE DEF content
<1>4. mem.manifest.version \in 0 .. MaxVersion /\ mem.manifest.version < MaxVersion
  BY DEF PublishManifest, Inv, MemOK, ManifestOK, IsManifest
<1>5. ManifestOK(content)
  BY <1>3, <1>4, FileStorageAssumption DEF ManifestOK, IsManifest
<1>6. ValidReferences(mem, content) /\ content.shows = View(mem, content)
  BY <1>3, SameFields DEF PublishManifest
<1>7. life \in {"none", "index"} => Secured(content)
  BY <1>3, SameFields DEF Secured
<1>8. IsOpen'
  BY <1>1 DEF IsOpen
<1>9. OpOK'
  <2>1. NumberedWriteOK' /\ CreateOK'
    BY <1>2 DEF NumberedWriteOK, CreateOK, Numbered
  <2>2. PublishOK'
    BY <1>1, <1>2, <1>3, <1>5, <1>6, <1>7, <1>8, FilesStay DEF PublishOK
  <2>3. Writing' /\ op'.call \in Numbered \cup {"publish", "create"}
    BY <1>2 DEF Writing
  <2>. QED
    BY <1>2, <2>1, <2>2, <2>3 DEF OpOK
<1>. QED
  BY <1>1, <1>9, OnlyOpChanges

\* A draft that changes, with the epochs handed out.
LEMMA StageKeeps ==
  ASSUME Inv, Idle, NEW draft, NEW e \in 1 .. MaxEpoch + 1, mem.nextEpoch <= e,
         DeltaOK(draft), EpochsBelow(draft, e),
         DOMAIN mem' = DOMAIN mem, mem'.nextEpoch = e, mem'.draft = draft,
         \A x \in DOMAIN mem \ {"nextEpoch", "draft"} : mem'[x] = mem[x],
         UNCHANGED <<disk, durable, op, acked, life, faults>>
  PROVE  Inv'
<1>1. IsOpen /\ op = NoOp
  BY DEF Idle
<1>2. DOMAIN mem = Fields
  BY <1>1 DEF Inv, MemOK
<1>3. /\ DOMAIN mem' = Fields
      /\ mem'.nextEpoch = e /\ mem'.draft = draft
      /\ \A x \in Fields \ {"nextEpoch", "draft"} : mem'[x] = mem[x]
  BY <1>2 DEF Fields
<1>4. /\ mem'.manifest = mem.manifest /\ mem'.next = mem.next /\ mem'.handed = mem.handed
      /\ \A dir \in Numbered : mem'[dir] = mem[dir]
  BY <1>3 DEF Fields, Numbered
<1>5. IsOpen'
  BY <1>3 DEF IsOpen, Closed, Fields
<1>6. \A m : ValidReferences(mem', m) <=> ValidReferences(mem, m)
  BY <1>4, ValidFacts
<1>7. MemOK'
  <2>1. \A dir \in Numbered : NumbersOK(dir)'
    BY <1>1, <1>4, FilesStay DEF Inv, MemOK, NumbersOK
  <2>2. \A name \in DOMAIN disk : name[1] = "deltas" => EpochsBelow(disk[name], e)
    <3>1. ASSUME NEW name \in DOMAIN disk, name[1] = "deltas"
          PROVE  EpochsBelow(disk[name], e)
      <4>1. IsDelta(disk[name])
        BY <3>1 DEF Inv, FilesOK, IsDirectory, Decodes
      <4>2. Epochs(disk[name]) \subseteq Int
        BY <4>1, FileStorageAssumption DEF IsDelta
      <4>3. EpochsBelow(disk[name], mem.nextEpoch) /\ mem.nextEpoch \in Int
        BY <1>1, <3>1, FileStorageAssumption DEF Inv, MemOK
      <4>. QED
        BY <4>2, <4>3, FileStorageAssumption DEF EpochsBelow
    <3>. QED
      BY <3>1
  <2>3. /\ ManifestOK(mem.manifest) /\ ValidReferences(mem, mem.manifest)
        /\ MANIFEST \in DOMAIN disk /\ life \in {"none", "index", "revived"}
        /\ DOMAIN mem.next = Numbered /\ DOMAIN mem.handed = Numbered
    BY <1>1 DEF Inv, MemOK
  <2>. QED
    BY <1>3, <1>4, <1>6, <2>1, <2>2, <2>3 DEF MemOK
<1>8. OpOK'
  BY <1>1 DEF OpOK, NumberedWriteOK, PublishOK, CreateOK, Writing, NoOp
<1>9. FilesOK' /\ Shown' /\ LifeOK'
  BY FilesStay DEF Inv, Shown, LifeOK
<1>10. Recoverable' /\ Acknowledged'
  BY <1>1, <1>4, <1>6, FilesStay DEF Inv, Recoverable, Acknowledged, NotOlder
<1>. QED
  BY <1>7, <1>8, <1>9, <1>10 DEF Inv

\* The open storage's draft, as every change of it finds it.
LEMMA DraftFacts ==
  ASSUME Inv, Idle
  PROVE  /\ DOMAIN mem = Fields
         /\ DeltaOK(mem.draft) /\ EpochsBelow(mem.draft, mem.nextEpoch)
         /\ mem.nextEpoch \in 1 .. MaxEpoch + 1
BY DEF Idle, Inv, MemOK

\* A draft is one if its parts are.
LEMMA DraftOfParts ==
  ASSUME NEW r, NEW w, NEW t, NEW draft,
         draft = [records |-> r, rewrites |-> w, tombstones |-> t],
         DOMAIN r \cup DOMAIN w \cup DOMAIN t \subseteq Nodes,
         \A n \in DOMAIN r : r[n] \in Records,
         \A n \in DOMAIN w : w[n] \in Lists,
         \A n \in DOMAIN t : t[n] \in 1 .. MaxEpoch,
         DOMAIN r \cap (DOMAIN w \cup DOMAIN t) = {}
  PROVE  DeltaOK(draft)
<1>1. /\ draft.records = r /\ draft.rewrites = w /\ draft.tombstones = t
  OBVIOUS
<1>. QED
  BY <1>1 DEF DeltaOK, IsDelta, Epochs

LEMMA PartsOfDraft ==
  ASSUME NEW draft, DeltaOK(draft)
  PROVE  /\ DOMAIN draft.records \cup DOMAIN draft.rewrites \cup DOMAIN draft.tombstones
              \subseteq Nodes
         /\ \A n \in DOMAIN draft.records : draft.records[n] \in Records
         /\ \A n \in DOMAIN draft.rewrites : draft.rewrites[n] \in Lists
         /\ \A n \in DOMAIN draft.tombstones : draft.tombstones[n] \in 1 .. MaxEpoch
         /\ DOMAIN draft.records \cap (DOMAIN draft.rewrites \cup DOMAIN draft.tombstones) = {}
         /\ draft = [records |-> draft.records, rewrites |-> draft.rewrites,
                     tombstones |-> draft.tombstones]
BY DEF DeltaOK, IsDelta, Epochs

LEMMA AppendNodeKeeps ==
  ASSUME Inv, NEW n \in Nodes, NEW record \in Records, AppendNode(n, record)
  PROVE  Inv'
<1>. DEFINE d == mem.draft
            r == With(d.records, n, record)
            w == Without(d.rewrites, n)
            t == Without(d.tombstones, n)
            draft == [records |-> r, rewrites |-> w, tombstones |-> t]
<1>1. /\ Idle /\ mem' = [mem EXCEPT !.draft = draft]
      /\ UNCHANGED <<disk, durable, op, acked, life, faults>>
  BY DEF AppendNode, Stage
<1>2. /\ DOMAIN mem = Fields /\ DeltaOK(d)
      /\ EpochsBelow(d, mem.nextEpoch) /\ mem.nextEpoch \in 1 .. MaxEpoch + 1
  BY <1>1, DraftFacts
<1>3. /\ DOMAIN r = DOMAIN d.records \cup {n}
      /\ \A k \in DOMAIN r : r[k] = record \/ (k \in DOMAIN d.records /\ r[k] = d.records[k])
      /\ DOMAIN w = DOMAIN d.rewrites \ {n} /\ \A k \in DOMAIN w : w[k] = d.rewrites[k]
      /\ DOMAIN t = DOMAIN d.tombstones \ {n} /\ \A k \in DOMAIN t : t[k] = d.tombstones[k]
  BY DEF With, Without
<1>. HIDE DEF r, w, t
<1>4. DeltaOK(draft)
  <2>1. /\ DOMAIN r \cup DOMAIN w \cup DOMAIN t \subseteq Nodes
        /\ DOMAIN r \cap (DOMAIN w \cup DOMAIN t) = {}
    BY <1>2, <1>3, PartsOfDraft
  <2>2. /\ \A k \in DOMAIN r : r[k] \in Records
        /\ \A k \in DOMAIN w : w[k] \in Lists
        /\ \A k \in DOMAIN t : t[k] \in 1 .. MaxEpoch
    BY <1>2, <1>3, PartsOfDraft
  <2>. QED
    BY <2>1, <2>2, DraftOfParts
<1>5. EpochsBelow(draft, mem.nextEpoch)
  BY <1>2, <1>3 DEF EpochsBelow, Epochs
<1>6. /\ DOMAIN mem' = DOMAIN mem /\ mem'.nextEpoch = mem.nextEpoch /\ mem'.draft = draft
      /\ \A x \in DOMAIN mem \ {"nextEpoch", "draft"} : mem'[x] = mem[x]
  BY <1>1, <1>2 DEF Fields
<1>. HIDE DEF draft
<1>. QED
  BY <1>1, <1>2, <1>4, <1>5, <1>6, FileStorageAssumption, StageKeeps

LEMMA RewriteNeighborsKeeps ==
  ASSUME Inv, NEW n \in Nodes, NEW list \in Lists, RewriteNeighbors(n, list)
  PROVE  Inv'
<1>. DEFINE d == mem.draft
            staged == n \in DOMAIN d.records
            r == IF staged THEN With(d.records, n, [d.records[n] EXCEPT !.list = list])
                 ELSE d.records
            w == IF staged THEN d.rewrites ELSE With(d.rewrites, n, list)
            draft == [records |-> r, rewrites |-> w, tombstones |-> d.tombstones]
<1>1. /\ Idle
      /\ mem' = [mem EXCEPT !.draft =
                    IF staged
                    THEN [d EXCEPT !.records = With(@, n, [@[n] EXCEPT !.list = list])]
                    ELSE [d EXCEPT !.rewrites = With(@, n, list)]]
      /\ UNCHANGED <<disk, durable, op, acked, life, faults>>
  BY DEF RewriteNeighbors, Stage
<1>2. /\ DOMAIN mem = Fields /\ DeltaOK(d)
      /\ EpochsBelow(d, mem.nextEpoch) /\ mem.nextEpoch \in 1 .. MaxEpoch + 1
  BY <1>1, DraftFacts
<1>3. mem' = [mem EXCEPT !.draft = draft]
  BY <1>1, <1>2 DEF DeltaOK
<1>4. /\ DOMAIN r = DOMAIN d.records
      /\ \A k \in DOMAIN r : r[k] \in Records
  <2>1. CASE staged
    <3>1. [d.records[n] EXCEPT !.list = list] \in Records
      BY <1>2, <2>1, PartsOfDraft DEF Records
    <3>. QED
      BY <1>2, <2>1, <3>1, PartsOfDraft DEF With
  <2>2. CASE ~staged
    BY <1>2, <2>2, PartsOfDraft
  <2>. QED
    BY <2>1, <2>2
<1>5. /\ DOMAIN w \subseteq DOMAIN d.rewrites \cup ({n} \ DOMAIN d.records)
      /\ \A k \in DOMAIN w : w[k] \in Lists
  BY <1>2, PartsOfDraft DEF With
<1>. HIDE DEF r, w
<1>6. DeltaOK(draft)
  <2>1. /\ DOMAIN r \cup DOMAIN w \cup DOMAIN d.tombstones \subseteq Nodes
        /\ DOMAIN r \cap (DOMAIN w \cup DOMAIN d.tombstones) = {}
    BY <1>2, <1>4, <1>5, PartsOfDraft
  <2>2. \A k \in DOMAIN d.tombstones : d.tombstones[k] \in 1 .. MaxEpoch
    BY <1>2, PartsOfDraft
  <2>. QED
    BY <1>4, <1>5, <2>1, <2>2, DraftOfParts
<1>7. EpochsBelow(draft, mem.nextEpoch)
  BY <1>2 DEF EpochsBelow, Epochs
<1>8. /\ DOMAIN mem' = DOMAIN mem /\ mem'.nextEpoch = mem.nextEpoch /\ mem'.draft = draft
      /\ \A x \in DOMAIN mem \ {"nextEpoch", "draft"} : mem'[x] = mem[x]
  BY <1>2, <1>3 DEF Fields
<1>. HIDE DEF draft
<1>. QED
  BY <1>1, <1>2, <1>6, <1>7, <1>8, FileStorageAssumption, StageKeeps

LEMMA TombstoneNodeKeeps ==
  ASSUME Inv, NEW n \in Nodes, TombstoneNode(n)
  PROVE  Inv'
<1>. DEFINE d == mem.draft
            e == mem.nextEpoch
            r == Without(d.records, n)
            w == Without(d.rewrites, n)
            t == With(d.tombstones, n, e)
            draft == [records |-> r, rewrites |-> w, tombstones |-> t]
<1>1. /\ Idle /\ e <= MaxEpoch
      /\ mem' = [mem EXCEPT !.nextEpoch = e + 1, !.draft = draft]
      /\ UNCHANGED <<disk, durable, op, acked, life, faults>>
  BY DEF TombstoneNode
<1>2. /\ DOMAIN mem = Fields /\ DeltaOK(d)
      /\ EpochsBelow(d, e) /\ e \in 1 .. MaxEpoch + 1
  BY <1>1, DraftFacts
<1>3. /\ DOMAIN r = DOMAIN d.records \ {n} /\ \A k \in DOMAIN r : r[k] = d.records[k]
      /\ DOMAIN w = DOMAIN d.rewrites \ {n} /\ \A k \in DOMAIN w : w[k] = d.rewrites[k]
      /\ DOMAIN t = DOMAIN d.tombstones \cup {n}
      /\ \A k \in DOMAIN t : t[k] = e \/ (k \in DOMAIN d.tombstones /\ t[k] = d.tombstones[k])
  BY DEF With, Without
<1>4. e \in 1 .. MaxEpoch
  BY <1>1, <1>2, FileStorageAssumption
<1>5. /\ DOMAIN mem' = DOMAIN mem /\ mem'.nextEpoch = e + 1 /\ mem'.draft = draft
      /\ \A x \in DOMAIN mem \ {"nextEpoch", "draft"} : mem'[x] = mem[x]
  BY <1>1, <1>2 DEF Fields
<1>. HIDE DEF r, w, t
<1>6. \A k \in DOMAIN t : t[k] \in 1 .. MaxEpoch
  BY <1>2, <1>3, <1>4, PartsOfDraft
<1>7. DeltaOK(draft)
  <2>1. /\ DOMAIN r \cup DOMAIN w \cup DOMAIN t \subseteq Nodes
        /\ DOMAIN r \cap (DOMAIN w \cup DOMAIN t) = {}
    BY <1>2, <1>3, PartsOfDraft
  <2>2. /\ \A k \in DOMAIN r : r[k] \in Records
        /\ \A k \in DOMAIN w : w[k] \in Lists
    BY <1>2, <1>3, PartsOfDraft
  <2>. QED
    BY <1>6, <2>1, <2>2, DraftOfParts
<1>8. EpochsBelow(draft, e + 1)
  <2>1. \A k \in DOMAIN d.tombstones : d.tombstones[k] < e /\ d.tombstones[k] \in Int
    BY <1>2, FileStorageAssumption, PartsOfDraft DEF EpochsBelow, Epochs
  <2>2. \A k \in DOMAIN t : t[k] < e + 1
    BY <1>3, <1>4, <2>1, FileStorageAssumption
  <2>. QED
    BY <2>2 DEF EpochsBelow, Epochs
<1>9. e + 1 \in 1 .. MaxEpoch + 1 /\ e <= e + 1
  BY <1>4, FileStorageAssumption
<1>. HIDE DEF draft, e
<1>. QED
  BY <1>1, <1>5, <1>7, <1>8, <1>9, StageKeeps DEF e

LEMMA InsertImmutableSegmentKeeps ==
  ASSUME Inv, NEW n \in Nodes, NEW record \in Records,
         InsertImmutableSegment([m \in {n} |-> record])
  PROVE  Inv'
<1>1. IsSegment([m \in {n} |-> record])
  BY DEF IsSegment
<1>2. Decodes(<<"segments", mem.next["segments"]>>, [m \in {n} |-> record])
  BY <1>1 DEF Decodes, MANIFEST
<1>. QED
  BY <1>2, StartNumbered DEF InsertImmutableSegment, Numbered

LEMMA PublishHotDeltaKeeps ==
  ASSUME Inv, PublishHotDelta
  PROVE  Inv'
<1>1. Idle
  BY DEF PublishHotDelta, CanStart
<1>2. IsDelta(mem.draft) /\ EpochsBelow(mem.draft, mem.nextEpoch)
  BY <1>1, DraftFacts DEF DeltaOK
<1>3. Decodes(<<"deltas", mem.next["deltas"]>>, mem.draft)
  BY <1>2 DEF Decodes, MANIFEST
<1>. QED
  BY <1>2, <1>3, StartNumbered DEF PublishHotDelta, Numbered

LEMMA StoreQuantizerKeeps ==
  ASSUME Inv, NEW trained \in Trained, StoreQuantizer(trained)
  PROVE  Inv'
<1>1. Decodes(<<"quantizers", mem.next["quantizers"]>>, trained)
  BY DEF Decodes, MANIFEST
<1>. QED
  BY <1>1, StartNumbered DEF StoreQuantizer, Numbered

\* What was handed out since the storage was opened is settled and decodes.
LEMMA HandedFacts ==
  ASSUME Inv, IsOpen, NEW dir \in Numbered, mem.handed[dir] # 0
  PROVE  /\ mem.handed[dir] \in Nat
         /\ Settled(<<dir, mem.handed[dir]>>)
         /\ mem[dir][mem.handed[dir]] = disk[<<dir, mem.handed[dir]>>]
         /\ Decodes(<<dir, mem.handed[dir]>>, disk[<<dir, mem.handed[dir]>>])
<1>1. NumbersOK(dir)
  BY DEF Inv, MemOK
<1>2. <<dir, mem.handed[dir]>> \in DOMAIN disk
  BY <1>1 DEF NumbersOK
<1>3. Decodes(<<dir, mem.handed[dir]>>, disk[<<dir, mem.handed[dir]>>])
  BY <1>2 DEF Inv, FilesOK, IsDirectory
<1>. QED
  BY <1>1, <1>3 DEF NumbersOK

LEMMA OnlineReplacementKeeps ==
  ASSUME Inv, IsOpen, mem.handed["deltas"] # 0, PublishManifest(OnlineReplacement)
  PROVE  Inv'
<1>. DEFINE m == mem.manifest
            h == mem.handed["deltas"]
            epochs == {m.epoch} \cup Epochs(mem.deltas[h])
            r == OnlineReplacement
<1>1. ManifestOK(m) /\ (life \in {"none", "index"} => Secured(m))
  BY DEF Inv, MemOK, Recoverable
<1>2. h \in Nat /\ Settled(<<"deltas", h>>) /\ IsDelta(mem.deltas[h])
  <2>1. "deltas" \in Numbered
    BY DEF Numbered
  <2>. QED
    BY <2>1, HandedFacts DEF Decodes
<1>3. Largest(epochs) \in 0 .. MaxEpoch
  <2>1. epochs \subseteq 0 .. MaxEpoch
    BY <1>1, <1>2, FileStorageAssumption DEF ManifestOK, IsManifest, IsDelta
  <2>2. /\ epochs \subseteq Nat /\ epochs # {}
        /\ \A x \in epochs : x <= MaxEpoch
    BY <2>1, FileStorageAssumption
  <2>. HIDE DEF epochs
  <2>. QED
    BY <2>1, <2>2, LargestFacts, FileStorageAssumption
<1>4. /\ DOMAIN r = ManifestFields
      /\ r.version = m.version /\ r.segments = m.segments /\ r.quantizer = m.quantizer
      /\ r.hotDelta = h /\ r.epoch = Largest(epochs)
  BY <1>1 DEF OnlineReplacement, ManifestOK, ManifestFields
<1>. HIDE DEF r
<1>5. ManifestOK(r)
  BY <1>1, <1>2, <1>3, <1>4 DEF ManifestOK, IsManifest
<1>6. ASSUME life \in {"none", "index"}
      PROVE  Secured(r)
  <2>1. Refs(r) \subseteq Refs(m) \cup {<<"deltas", h>>}
    BY <1>4 DEF Refs
  <2>. QED
    BY <1>1, <1>2, <1>6, <2>1 DEF Secured
<1>. QED
  BY <1>5, <1>6, PublishManifestKeeps DEF r

LEMMA BulkReplacementKeeps ==
  ASSUME Inv, IsOpen, PublishManifest(BulkReplacement)
  PROVE  Inv'
<1>. DEFINE m == mem.manifest
            s == mem.handed["segments"]
            q == mem.handed["quantizers"]
            r == BulkReplacement
<1>1. ManifestOK(m)
  BY DEF Inv, MemOK
<1>2. s \in Nat /\ q \in Nat
  BY DEF Inv, MemOK, NumbersOK, Numbered
<1>3. /\ s # 0 => Settled(<<"segments", s>>)
      /\ q # 0 => Settled(<<"quantizers", q>>)
  BY HandedFacts DEF Numbered
<1>4. /\ DOMAIN r = ManifestFields
      /\ r.version = m.version /\ r.segments = IF s = 0 THEN << >> ELSE <<s>>
      /\ r.quantizer = q /\ r.hotDelta = 0 /\ r.epoch = 0
  BY <1>1 DEF BulkReplacement, ManifestOK, ManifestFields
<1>. HIDE DEF r
<1>5. ManifestOK(r)
  BY <1>1, <1>2, <1>4, FileStorageAssumption DEF ManifestOK, IsManifest
<1>6. Secured(r)
  <2>1. \A i \in DOMAIN r.segments : s # 0 /\ r.segments[i] = s
    BY <1>2, <1>4
  <2>2. Refs(r) \subseteq {x \in {<<"segments", s>>} : s # 0} \cup {x \in {<<"quantizers", q>>} : q # 0}
    BY <1>4, <2>1 DEF Refs
  <2>. QED
    BY <1>3, <2>2 DEF Secured
<1>. QED
  BY <1>5, <1>6, PublishManifestKeeps DEF r

LEMMA FailKeeps ==
  ASSUME Inv, Fail
  PROVE  Inv'
<1>1. OpOK'
  BY DEF Fail, OpOK, NumberedWriteOK, PublishOK, CreateOK, Writing, NoOp
<1>2. FilesOK' /\ Shown' /\ MemOK'
  BY FilesStay, MemStays DEF Fail, Inv, Shown
<1>3. LifeOK'
  BY FileStorageAssumption DEF Inv, LifeOK, Fail, Fault
<1>4. Recoverable' /\ Acknowledged'
  BY FilesStay DEF Fail, Inv, Recoverable, Acknowledged, IsOpen, NotOlder
<1>. QED
  BY <1>1, <1>2, <1>3, <1>4 DEF Inv

LEMMA KillKeeps ==
  ASSUME Inv, Kill
  PROVE  Inv'
<1>. USE DEF Kill
<1>1. OpOK' /\ MemOK' /\ ~IsOpen'
  BY DEF OpOK, NumberedWriteOK, PublishOK, CreateOK, Writing, NoOp, MemOK, IsOpen
<1>2. FilesOK' /\ Shown'
  BY FilesStay DEF Inv, Shown
<1>3. LifeOK'
  BY FileStorageAssumption DEF Inv, LifeOK, Fault
<1>4. Recoverable' /\ Acknowledged'
  BY <1>1, FilesStay DEF Inv, Recoverable, Acknowledged, NotOlder
<1>. QED
  BY <1>1, <1>2, <1>3, <1>4 DEF Inv

LEMMA CreateKeeps ==
  ASSUME Inv, Create
  PROVE  Inv'
<1>1. life # "index"
  BY DEF Create, Inv, Recoverable, Acknowledged
<1>2. /\ DOMAIN op' = {"pc", "call", "name", "content"}
      /\ op'.pc = "rename" /\ op'.call = "create" /\ op'.name = WAL_STATE
  BY DEF Create, Write
<1>3. ~IsOpen' /\ life' # "index"
  BY <1>1 DEF Create, IsOpen
<1>4. OpOK'
  BY <1>2, <1>3 DEF OpOK, NumberedWriteOK, PublishOK, CreateOK, Writing, Numbered,
                    MANIFEST, WAL_STATE
<1>. QED
  BY <1>4, OnlyOpChanges DEF Create

------------------------------------------------------------------------------
(* Renaming *)

\* A file that is written now is none that a manifest refers to.
LEMMA RootNotReferred ==
  ASSUME NEW m
  PROVE  {MANIFEST, WAL_STATE, WAL_LOG} \cap Refs(m) = {}
<1>1. \A name \in Refs(m) : name[1] \in Numbered
  BY RefsFacts
<1>. QED
  BY <1>1 DEF Numbered, MANIFEST, WAL_STATE, WAL_LOG

LEMMA NextNotReferred ==
  ASSUME NEW m, MemOK, IsOpen, ValidReferences(mem, m), NEW dir \in Numbered
  PROVE  <<dir, mem.next[dir]>> \notin Refs(m)
<1>1. SUFFICES ASSUME <<dir, mem.next[dir]>> \in Refs(m) PROVE FALSE
  OBVIOUS
<1>2. mem.next[dir] \in DOMAIN mem[dir]
  BY <1>1, ValidFacts
<1>3. NumbersOK(dir)
  BY DEF MemOK
<1>4. mem.next[dir] \in Nat /\ mem.next[dir] < mem.next[dir]
  BY <1>2, <1>3 DEF NumbersOK
<1>. QED
  BY <1>4

LEMMA UnrelatedWrite ==
  ASSUME NEW name, NEW content, disk' = With(disk, name, content), durable' = durable,
         NEW m, name \notin Refs(m)
  PROVE  /\ Secured(m) => Secured(m)'
         /\ Faithful(m) => Faithful(m)'
<1>1. \A r \in Refs(m) : (r \in DOMAIN disk' <=> r \in DOMAIN disk) /\ (r \in DOMAIN disk => disk'[r] = disk[r])
  BY DEF With
<1>2. \A r \in Refs(m) : Settled(r) => Settled(r)'
  BY <1>1 DEF Settled
<1>3. \A files : \A r \in Refs(m) : Possible(files, r)' => Possible(files, r)
  BY <1>1 DEF Possible
<1>. QED
  BY <1>2, <1>3 DEF Secured, Faithful

LEMMA DirectoryWith ==
  ASSUME NEW files, IsDirectory(files), NEW name, NEW content,
         IsName(name), Decodes(name, content)
  PROVE  IsDirectory(With(files, name, content))
<1>. DEFINE new == With(files, name, content)
<1>1. /\ DOMAIN new = DOMAIN files \cup {name}
      /\ \A x \in DOMAIN new : new[x] = IF x = name THEN content ELSE files[x]
  BY DEF With
<1>. HIDE DEF new
<1>2. \A x \in DOMAIN new : IsName(x) /\ Decodes(x, new[x])
  BY <1>1 DEF IsDirectory
<1>3. name[2] \in Nat
  BY DEF IsName, MANIFEST, WAL_STATE, WAL_LOG
<1>4. PICK b \in Nat : \A x \in DOMAIN files : x[2] <= b
  BY DEF IsDirectory
<1>5. \A x \in DOMAIN files : x[2] \in Nat
  BY DEF IsDirectory, IsName, MANIFEST, WAL_STATE, WAL_LOG
<1>6. \A x \in DOMAIN new : x[2] <= b + name[2]
  BY <1>1, <1>3, <1>4, <1>5
<1>. QED
  BY <1>2, <1>3, <1>4, <1>6 DEF IsDirectory, new

LEMMA RenameKeeps ==
  ASSUME Inv, Rename
  PROVE  Inv'
<1>. DEFINE name == op.name
            content == op.content
<1>1. /\ op.pc = "rename" /\ disk' = With(disk, name, content)
      /\ UNCHANGED <<durable, mem, acked, life, faults>>
      /\ op' = [op EXCEPT !.pc = "sync"]
  BY DEF Rename
<1>2. Writing /\ DOMAIN op = {"pc", "call", "name", "content"}
      /\ op.call \in Numbered \cup {"publish", "create"}
  BY <1>1 DEF Inv, OpOK, NoOp, Writing
<1>3. /\ DOMAIN op' = {"pc", "call", "name", "content"}
      /\ op'.pc = "sync" /\ op'.call = op.call /\ op'.name = name /\ op'.content = content
  BY <1>1, <1>2
<1>4. /\ DOMAIN disk' = DOMAIN disk \cup {name} /\ disk'[name] = content
      /\ \A x \in DOMAIN disk : x # name => disk'[x] = disk[x]
  BY <1>1 DEF With
<1>5. op.call \in Numbered =>
        /\ IsOpen /\ name = <<op.call, mem.next[op.call]>> /\ Decodes(name, content)
        /\ op.call = "deltas" => EpochsBelow(content, mem.nextEpoch)
  BY <1>2 DEF Inv, OpOK, NumberedWriteOK
<1>6. op.call = "publish" =>
        /\ IsOpen /\ name = MANIFEST /\ ManifestOK(content) /\ ValidReferences(mem, content)
        /\ content.version = mem.manifest.version + 1
        /\ content.shows = View(mem, content)
        /\ life \in {"none", "index"} => Secured(content)
  BY <1>2 DEF Inv, OpOK, PublishOK
<1>7. op.call = "create" =>
        /\ ~IsOpen /\ life # "index" /\ name \in {WAL_STATE, WAL_LOG, MANIFEST}
        /\ name # WAL_STATE => WAL_STATE \in DOMAIN disk \cap DOMAIN durable
        /\ name = MANIFEST => /\ WAL_LOG \in DOMAIN disk \cap DOMAIN durable
                              /\ content = InitialManifest
  BY <1>2 DEF Inv, OpOK, CreateOK
<1>8. IsName(name) /\ Decodes(name, content)
  <2>1. CASE op.call \in Numbered
    <3>1. mem.next[op.call] \in Nat \ {0}
      BY <1>5, <2>1 DEF Inv, MemOK, NumbersOK
    <3>. QED
      BY <1>5, <2>1, <3>1 DEF IsName
  <2>2. CASE op.call = "publish"
    BY <1>6, <2>2 DEF IsName, Decodes, MANIFEST
  <2>3. CASE op.call = "create"
    BY <1>7, <2>3, InitialManifestFacts DEF IsName, Decodes, MANIFEST, WAL_STATE, WAL_LOG
  <2>. QED
    BY <1>2, <2>1, <2>2, <2>3
<1>9. FilesOK'
  BY <1>1, <1>8, DirectoryWith DEF Inv, FilesOK
\* What is visible now was visible, or is the manifest that was written.
<1>10. \A m : Visible(m)' => Visible(m) \/ (name = MANIFEST /\ m = content)
  BY <1>1, <1>4 DEF Visible
<1>11. ASSUME NEW m, Visible(m), life # "revived"
       PROVE  name \notin Refs(m)
  <2>1. CASE op.call \in Numbered
    <3>1. MemOK /\ life \in {"none", "index"}
      BY <1>5, <1>11, <2>1 DEF Inv, MemOK
    <3>2. ValidReferences(mem, m)
      BY <1>5, <1>11, <2>1, <3>1 DEF Inv, Recoverable
    <3>. QED
      BY <1>5, <2>1, <3>1, <3>2, NextNotReferred
  <2>2. CASE op.call \in {"publish", "create"}
    BY <1>6, <1>7, <2>2, RootNotReferred
  <2>. QED
    BY <1>2, <2>1, <2>2
\* The manifest that is written is as safe as those that are visible.
<1>12. ASSUME name = MANIFEST, life # "revived"
       PROVE  /\ name \notin Refs(content) /\ Faithful(content)
              /\ life \in {"none", "index"} =>
                   Secured(content) /\ (IsOpen => ValidReferences(mem, content))
              /\ life = "index" => NotOlder(content)
  <2>1. name \notin Refs(content)
    BY <1>12, RootNotReferred
  <2>2. CASE op.call = "create"
    <3>1. /\ content = InitialManifest /\ ~IsOpen /\ life # "index"
      BY <1>7, <1>12, <2>2
    <3>2. Secured(InitialManifest) /\ Faithful(InitialManifest)
      BY InitialManifestFacts DEF Secured, Faithful
    <3>. QED
      BY <2>1, <3>1, <3>2
  <2>3. CASE op.call = "publish"
    <3>1. MemOK /\ life \in {"none", "index"} /\ Secured(content) /\ IsOpen
      BY <1>6, <1>12, <2>3 DEF Inv, MemOK
    <3>2. \A dir \in Numbered : \A i : <<dir, i>> \in Refs(content) =>
            mem[dir][i] = disk[<<dir, i>>]
      BY <1>6, <2>3, <3>1, ValidFacts DEF MemOK, NumbersOK
    <3>3. Faithful(content)
      BY <1>6, <2>3, <3>1, <3>2, FaithfulFacts DEF ManifestOK, IsManifest
    <3>4. ASSUME life = "index" PROVE NotOlder(content)
      <4>1. /\ NotOlder(mem.manifest) /\ IsManifest(mem.manifest) /\ IsManifest(acked)
        BY <3>1, <3>4 DEF Inv, Acknowledged, LifeOK, MemOK, ManifestOK
      <4>. QED
        BY <1>6, <2>3, <4>1, FileStorageAssumption DEF NotOlder, IsManifest
    <3>. QED
      BY <1>6, <2>1, <2>3, <3>1, <3>3, <3>4
  <2>4. CASE op.call \in Numbered
    BY <1>5, <1>12, <2>4 DEF Numbered, MANIFEST
  <2>. QED
    BY <1>2, <2>2, <2>3, <2>4
<1>13. Shown'
  BY <1>1, <1>10, <1>11, <1>12, UnrelatedWrite DEF Inv, Shown
<1>14. MemOK'
  <2>. SUFFICES ASSUME IsOpen PROVE MemOK'
    BY <1>1 DEF MemOK, IsOpen
  <2>1. op.call \in Numbered \cup {"publish"}
    BY <1>2, <1>7
  <2>2. ASSUME NEW dir \in Numbered, NEW i \in DOMAIN mem[dir]
        PROVE  <<dir, i>> # name
    <3>1. NumbersOK(dir) /\ i < mem.next[dir] /\ mem.next[dir] \in Nat /\ i \in Nat
      BY <2>2 DEF Inv, MemOK, NumbersOK
    <3>2. CASE op.call \in Numbered
      BY <1>5, <3>1, <3>2
    <3>3. CASE op.call = "publish"
      BY <1>6, <3>3 DEF MANIFEST, Numbered
    <3>. QED
      BY <2>1, <3>2, <3>3
  <2>3. ASSUME NEW dir \in Numbered
        PROVE  NumbersOK(dir)'
    <3>1. NumbersOK(dir)
      BY DEF Inv, MemOK
    <3>2. ASSUME NEW i \in DOMAIN mem[dir]
          PROVE  /\ <<dir, i>> \in DOMAIN disk' /\ mem[dir][i] = disk'[<<dir, i>>]
                 /\ Settled(<<dir, i>>) => Settled(<<dir, i>>)'
      BY <1>1, <1>4, <2>2, <3>1 DEF NumbersOK, Settled
    <3>. QED
      BY <1>1, <3>1, <3>2 DEF NumbersOK
  <2>4. \A x \in DOMAIN disk' : x[1] = "deltas" => EpochsBelow(disk'[x], mem.nextEpoch)
    <3>1. \A x \in DOMAIN disk : x[1] = "deltas" => EpochsBelow(disk[x], mem.nextEpoch)
      BY DEF Inv, MemOK
    <3>2. name[1] = "deltas" => EpochsBelow(content, mem.nextEpoch)
      BY <1>5, <1>6, <2>1 DEF MANIFEST
    <3>. QED
      BY <1>4, <3>1, <3>2
  <2>. QED
    BY <1>1, <1>4, <2>3, <2>4 DEF Inv, MemOK, IsOpen
<1>15. OpOK'
  <2>1. NumberedWriteOK'
    BY <1>1, <1>3, <1>5 DEF NumberedWriteOK, IsOpen
  <2>2. PublishOK'
    <3>1. op.call = "publish" => (Secured(content) => Secured(content)')
      BY <1>1, <1>6, RootNotReferred, UnrelatedWrite
    <3>. QED
      BY <1>1, <1>3, <1>6, <3>1 DEF PublishOK, IsOpen
  <2>3. CreateOK'
    BY <1>1, <1>3, <1>4, <1>7 DEF CreateOK, IsOpen
  <2>. QED
    BY <1>2, <1>3, <1>4, <2>1, <2>2, <2>3 DEF OpOK, Writing
<1>16. Recoverable'
  <2>. SUFFICES ASSUME life \in {"none", "index"}
                PROVE  Recoverable'
    BY <1>1 DEF Recoverable
  <2>1. MANIFEST \in DOMAIN durable' => MANIFEST \in DOMAIN disk'
    BY <1>1, <1>4 DEF Inv, Recoverable
  <2>2. ASSUME MANIFEST \in DOMAIN disk'
        PROVE  {WAL_STATE, WAL_LOG} \subseteq DOMAIN disk' \cap DOMAIN durable'
    <3>1. CASE name = MANIFEST /\ op.call = "create"
      BY <1>1, <1>4, <1>7, <3>1 DEF MANIFEST, WAL_STATE
    <3>2. CASE name = MANIFEST /\ op.call # "create"
      <4>1. IsOpen
        BY <1>2, <1>5, <1>6, <3>2
      <4>. QED
        BY <1>1, <1>4, <4>1 DEF Inv, MemOK, Recoverable
    <3>3. CASE name # MANIFEST
      BY <1>1, <1>4, <2>2, <3>3 DEF Inv, Recoverable
    <3>. QED
      BY <3>1, <3>2, <3>3
  <2>3. ASSUME NEW m, Visible(m)'
        PROVE  Secured(m)' /\ (IsOpen => ValidReferences(mem, m))
    <3>1. Secured(m) /\ (IsOpen => ValidReferences(mem, m)) /\ name \notin Refs(m)
      BY <1>10, <1>11, <1>12, <2>3 DEF Inv, Recoverable
    <3>. QED
      BY <1>1, <3>1, UnrelatedWrite
  <2>4. IsOpen => Secured(mem.manifest)'
    <3>. SUFFICES ASSUME IsOpen PROVE Secured(mem.manifest)'
      OBVIOUS
    <3>1. MemOK /\ ValidReferences(mem, mem.manifest) /\ Secured(mem.manifest)
      BY DEF Inv, MemOK, Recoverable
    <3>2. name \notin Refs(mem.manifest)
      BY <1>2, <1>5, <1>6, <1>7, <3>1, RootNotReferred, NextNotReferred
    <3>. QED
      BY <1>1, <3>1, <3>2, UnrelatedWrite
  <2>. QED
    BY <1>1, <2>1, <2>2, <2>3, <2>4 DEF Recoverable, IsOpen
<1>17. Acknowledged' /\ LifeOK'
  BY <1>1, <1>10, <1>12 DEF Inv, Acknowledged, LifeOK, NotOlder, IsOpen
<1>. QED
  BY <1>9, <1>13, <1>14, <1>15, <1>16, <1>17 DEF Inv

------------------------------------------------------------------------------
(* Syncing a directory *)

LEMMA SyncKeeps ==
  ASSUME FilesOK, NEW dir, disk' = disk, durable' = Synced(dir)
  PROVE  /\ FilesOK'
         /\ \A m : Visible(m)' => Visible(m)
         /\ \A name : Settled(name) => Settled(name)'
         /\ \A name \in DOMAIN disk : name[1] = dir => Settled(name)'
         /\ \A m : Secured(m) => Secured(m)'
         /\ \A m : Faithful(m) => Faithful(m)'
         /\ DOMAIN disk \cap DOMAIN durable \subseteq DOMAIN durable'
<1>1. /\ \A name : name \in DOMAIN durable' <=>
           IF name[1] = dir THEN name \in DOMAIN disk ELSE name \in DOMAIN durable
      /\ \A name \in DOMAIN durable' :
           durable'[name] = IF name[1] = dir THEN disk[name] ELSE durable[name]
  BY SyncedFacts
<1>2. FilesOK'
  <2>1. \A name \in DOMAIN durable' : IsName(name) /\ Decodes(name, durable'[name])
    BY <1>1 DEF FilesOK, IsDirectory
  <2>2. PICK a \in Nat : \A name \in DOMAIN disk : name[2] <= a
    BY DEF FilesOK, IsDirectory
  <2>3. PICK b \in Nat : \A name \in DOMAIN durable : name[2] <= b
    BY DEF FilesOK, IsDirectory
  <2>4. \A name \in DOMAIN durable' : name[2] \in Nat /\ (name[2] <= a \/ name[2] <= b)
    BY <1>1, <2>1, <2>2, <2>3 DEF IsName, MANIFEST, WAL_STATE, WAL_LOG
  <2>5. \A name \in DOMAIN durable' : name[2] <= a + b
    BY <2>2, <2>3, <2>4
  <2>6. IsDirectory(durable')
    BY <2>1, <2>2, <2>3, <2>5 DEF IsDirectory
  <2>. QED
    BY <2>6 DEF FilesOK
<1>3. \A m : Visible(m)' => Visible(m)
  BY <1>1 DEF Visible
<1>4. \A name : Settled(name) => Settled(name)'
  BY <1>1 DEF Settled
<1>5. \A name \in DOMAIN disk : name[1] = dir => Settled(name)'
  BY <1>1 DEF Settled
<1>6. \A files, name : Possible(files, name)' => Possible(files, name)
  BY <1>1 DEF Possible
<1>. QED
  BY <1>1, <1>2, <1>3, <1>4, <1>5, <1>6 DEF Secured, Faithful

LEMMA FinishFileKeeps ==
  ASSUME Inv, FinishFile
  PROVE  Inv'
<1>. DEFINE dir == op.call
            id == op.name[2]
            name == op.name
            content == op.content
<1>1. /\ op.pc = "sync" /\ dir \in Numbered
      /\ durable' = Synced(dir) /\ disk' = disk /\ op' = NoOp
      /\ UNCHANGED <<acked, life, faults>>
  BY DEF FinishFile
<1>2. /\ IsOpen /\ name = <<dir, id>> /\ id = mem.next[dir] /\ Decodes(name, content)
      /\ name \in DOMAIN disk /\ disk[name] = content
      /\ dir = "deltas" => EpochsBelow(content, mem.nextEpoch)
  BY <1>1 DEF Inv, OpOK, NumberedWriteOK, Writing
<1>3. mem' = [mem EXCEPT ![dir] = With(@, id, content), !.next[dir] = id + 1, !.handed[dir] = id]
  BY <1>1, <1>2 DEF FinishFile
<1>4. /\ DOMAIN mem = Fields /\ DOMAIN mem.next = Numbered /\ DOMAIN mem.handed = Numbered
      /\ \A d \in Numbered : NumbersOK(d)
  BY <1>2 DEF Inv, MemOK
<1>5. /\ DOMAIN mem' = Fields
      /\ mem'[dir] = With(mem[dir], id, content)
      /\ \A d \in Numbered \ {dir} : mem'[d] = mem[d]
      /\ mem'.next = [mem.next EXCEPT ![dir] = id + 1]
      /\ mem'.handed = [mem.handed EXCEPT ![dir] = id]
      /\ mem'.manifest = mem.manifest /\ mem'.draft = mem.draft /\ mem'.nextEpoch = mem.nextEpoch
  BY <1>1, <1>3, <1>4 DEF Fields, Numbered
<1>6. /\ FilesOK'
      /\ \A m : Visible(m)' => Visible(m)
      /\ \A x : Settled(x) => Settled(x)'
      /\ \A x \in {name} : Settled(x)'
      /\ \A m : Secured(m) => Secured(m)'
      /\ \A m : Faithful(m) => Faithful(m)'
      /\ DOMAIN disk \cap DOMAIN durable \subseteq DOMAIN durable'
  BY <1>1, <1>2, SyncKeeps DEF Inv
<1>7. IsOpen'
  BY <1>5 DEF IsOpen, Closed, Fields
<1>8. \A m : ValidReferences(mem, m) => ValidReferences(mem', m)
  <2>1. \A d \in Numbered : DOMAIN mem[d] \subseteq DOMAIN mem'[d]
    BY <1>1, <1>5 DEF With
  <2>. QED
    BY <2>1, ValidFacts
<1>9. ASSUME NEW d \in Numbered
      PROVE  NumbersOK(d)'
  <2>1. NumbersOK(d) /\ id \in Nat \ {0}
    BY <1>1, <1>2, <1>4 DEF NumbersOK
  <2>2. CASE d = dir
    <3>1. /\ DOMAIN mem'[d] = DOMAIN mem[d] \cup {id}
          /\ mem'[d][id] = content
          /\ \A i \in DOMAIN mem[d] : i # id => mem'[d][i] = mem[d][i]
      BY <1>5, <2>2 DEF With
    <3>2. mem'.next[d] = id + 1 /\ mem'.handed[d] = id
      BY <1>4, <1>5, <2>2
    <3>3. \A i \in DOMAIN mem'[d] :
            /\ i \in Nat \ {0} /\ i < mem'.next[d]
            /\ <<d, i>> \in DOMAIN disk' /\ mem'[d][i] = disk'[<<d, i>>]
      BY <1>1, <1>2, <2>1, <2>2, <3>1, <3>2 DEF NumbersOK
    <3>. QED
      BY <1>2, <1>6, <2>1, <2>2, <3>1, <3>2, <3>3 DEF NumbersOK, Settled
  <2>3. CASE d # dir
    <3>1. mem'[d] = mem[d] /\ mem'.next[d] = mem.next[d] /\ mem'.handed[d] = mem.handed[d]
      BY <1>4, <1>5, <2>3
    <3>. QED
      BY <1>1, <1>6, <2>1, <3>1 DEF NumbersOK
  <2>. QED
    BY <2>2, <2>3
<1>10. MemOK'
  <2>1. DOMAIN mem'.next = Numbered /\ DOMAIN mem'.handed = Numbered
    BY <1>4, <1>5
  <2>. QED
    BY <1>1, <1>2, <1>5, <1>7, <1>8, <1>9, <2>1 DEF Inv, MemOK
<1>11. OpOK'
  BY <1>1 DEF OpOK, NumberedWriteOK, PublishOK, CreateOK, Writing, NoOp
<1>12. Shown' /\ LifeOK'
  BY <1>1, <1>6 DEF Inv, Shown, LifeOK
<1>13. Recoverable'
  <2>1. (MANIFEST \in DOMAIN durable' <=> MANIFEST \in DOMAIN durable)
    BY <1>1, SyncedFacts DEF MANIFEST, Numbered
  <2>. QED
    BY <1>1, <1>2, <1>5, <1>6, <1>7, <1>8, <2>1 DEF Inv, Recoverable
<1>14. Acknowledged'
  <2>1. (MANIFEST \in DOMAIN durable' <=> MANIFEST \in DOMAIN durable)
    BY <1>1, SyncedFacts DEF MANIFEST, Numbered
  <2>. QED
    BY <1>1, <1>2, <1>5, <1>6, <2>1 DEF Inv, Acknowledged, NotOlder
<1>. QED
  BY <1>6, <1>10, <1>11, <1>12, <1>13, <1>14 DEF Inv

LEMMA FinishPublishKeeps ==
  ASSUME Inv, FinishPublish
  PROVE  Inv'
<1>. DEFINE content == op.content
<1>1. /\ op.pc = "sync" /\ op.call = "publish"
      /\ durable' = Synced("root") /\ disk' = disk /\ op' = NoOp
      /\ acked' = content /\ mem' = [mem EXCEPT !.manifest = content]
      /\ life' = (IF life = "none" THEN "index" ELSE life) /\ faults' = faults
  BY DEF FinishPublish
<1>2. /\ IsOpen /\ ManifestOK(content) /\ ValidReferences(mem, content)
      /\ life \in {"none", "index"} => Secured(content)
      /\ MANIFEST \in DOMAIN disk /\ disk[MANIFEST] = content
  BY <1>1 DEF Inv, OpOK, PublishOK, Writing
<1>3. /\ FilesOK'
      /\ \A m : Visible(m)' => Visible(m)
      /\ \A x : Settled(x) => Settled(x)'
      /\ Settled(MANIFEST)'
      /\ \A m : Secured(m) => Secured(m)'
      /\ \A m : Faithful(m) => Faithful(m)'
      /\ DOMAIN disk \cap DOMAIN durable \subseteq DOMAIN durable'
  BY <1>1, <1>2, SyncKeeps DEF Inv, MANIFEST
<1>4. /\ DOMAIN mem' = Fields /\ mem'.manifest = content
      /\ \A x \in Fields \ {"manifest"} : mem'[x] = mem[x]
  BY <1>1, <1>2 DEF Inv, MemOK, Fields
<1>5. /\ mem'.next = mem.next /\ mem'.handed = mem.handed /\ mem'.draft = mem.draft
      /\ mem'.nextEpoch = mem.nextEpoch
      /\ \A dir \in Numbered : mem'[dir] = mem[dir]
  BY <1>4 DEF Fields, Numbered
<1>6. IsOpen'
  BY <1>4 DEF IsOpen, Closed, Fields
<1>7. \A m : ValidReferences(mem, m) => ValidReferences(mem', m)
  BY <1>5, ValidFacts
<1>8. \A dir \in Numbered : NumbersOK(dir)'
  BY <1>1, <1>2, <1>3, <1>5 DEF Inv, MemOK, NumbersOK
<1>9. life' \in {"index", "revived"} /\ life \in {"none", "index", "revived"}
  BY <1>1, <1>2 DEF Inv, MemOK
<1>10. MemOK'
  BY <1>1, <1>2, <1>4, <1>5, <1>7, <1>8, <1>9 DEF Inv, MemOK
<1>11. OpOK'
  BY <1>1 DEF OpOK, NumberedWriteOK, PublishOK, CreateOK, Writing, NoOp
<1>12. LifeOK'
  BY <1>1, <1>2, <1>9 DEF Inv, LifeOK, ManifestOK
<1>13. Shown'
  BY <1>1, <1>3, <1>9 DEF Inv, Shown
<1>14. Recoverable'
  BY <1>1, <1>2, <1>3, <1>4, <1>7, <1>9 DEF Inv, Recoverable
<1>15. Acknowledged'
  <2>1. \A m : Visible(m)' => m = content
    BY <1>1, <1>2, <1>3 DEF Visible, Settled
  <2>. QED
    BY <1>1, <1>3, <1>4, <2>1 DEF Acknowledged, NotOlder, Settled
<1>. QED
  BY <1>3, <1>10, <1>11, <1>12, <1>13, <1>14, <1>15 DEF Inv

------------------------------------------------------------------------------
(* Opening, creating and destroying *)

\* What load puts into memory.
LEMMA LoadKeeps ==
  ASSUME FilesOK, MANIFEST \in DOMAIN disk, Refs(disk[MANIFEST]) \subseteq DOMAIN disk,
         disk' = disk, mem' = Loaded(disk), life' \in {"none", "index", "revived"}
  PROVE  /\ MemOK' /\ IsOpen'
         /\ mem'.manifest = disk[MANIFEST]
         /\ \A m : Refs(m) \subseteq DOMAIN disk => ValidReferences(mem', m)
<1>. DEFINE deltas == NumberedFiles(disk, "deltas")
            m == disk[MANIFEST]
            epochs == {m.epoch} \cup UNION {Epochs(deltas[d]) : d \in DOMAIN deltas}
<1>1. /\ DOMAIN mem' = Fields
      /\ \A dir \in Numbered : mem'[dir] = NumberedFiles(disk, dir)
      /\ mem'.next = [dir \in Numbered |-> Largest(Numbers(disk, dir)) + 1]
      /\ mem'.handed = [dir \in Numbered |-> 0]
      /\ mem'.manifest = m /\ mem'.draft = EmptyDelta
      /\ mem'.nextEpoch = 1 + Largest(epochs)
  BY DEF Loaded, Fields, Numbered
<1>2. IsOpen'
  BY <1>1 DEF IsOpen, Closed, Fields
<1>3. IsDirectory(disk) /\ ManifestOK(m)
  BY DEF FilesOK, IsDirectory, Decodes
<1>4. ASSUME NEW dir \in Numbered
      PROVE  NumbersOK(dir)'
  <2>1. /\ Largest(Numbers(disk, dir)) \in Nat
        /\ \A i \in Numbers(disk, dir) : i \in Nat \ {0} /\ i <= Largest(Numbers(disk, dir))
    <3>1. PICK b \in Nat : \A i \in Numbers(disk, dir) : i <= b
      BY <1>3, NumberedFacts
    <3>2. Numbers(disk, dir) \subseteq Nat \ {0}
      BY <1>3, NumberedFacts
    <3>. QED
      BY <3>1, <3>2, LargestFacts
  <2>2. mem'.next[dir] = Largest(Numbers(disk, dir)) + 1 /\ mem'.handed[dir] = 0
    BY <1>1
  <2>3. \A i \in DOMAIN mem'[dir] :
          i \in Numbers(disk, dir) /\ <<dir, i>> \in DOMAIN disk /\ mem'[dir][i] = disk[<<dir, i>>]
    BY <1>1, <1>3, NumberedFacts
  <2>. QED
    BY <2>1, <2>2, <2>3 DEF NumbersOK
<1>5. ASSUME NEW k, Refs(k) \subseteq DOMAIN disk
      PROVE  ValidReferences(mem', k)
  BY <1>1, <1>3, <1>5, NumberedFacts, ValidFacts
<1>6. \A name \in DOMAIN disk : name[1] = "deltas" => Epochs(disk[name]) \subseteq epochs
  <2>. SUFFICES ASSUME NEW name \in DOMAIN disk, name[1] = "deltas"
                PROVE  Epochs(disk[name]) \subseteq epochs
    OBVIOUS
  <2>1. PICK i : name = <<"deltas", i>>
    <3>1. IsName(name)
      BY <1>3 DEF IsDirectory
    <3>. QED
      BY <3>1 DEF IsName, MANIFEST, WAL_STATE, WAL_LOG
  <2>2. i \in DOMAIN deltas /\ deltas[i] = disk[name]
    BY <1>3, <2>1, NumberedFacts DEF Numbered
  <2>. HIDE DEF deltas
  <2>. QED
    BY <2>2
<1>7. /\ epochs \subseteq 0 .. MaxEpoch
  <2>1. \A d \in DOMAIN deltas : IsDelta(deltas[d])
    <3>1. \A d \in DOMAIN deltas :
            <<"deltas", d>> \in DOMAIN disk /\ deltas[d] = disk[<<"deltas", d>>]
      BY <1>3, NumberedFacts DEF Numbered
    <3>2. \A d : <<"deltas", d>> \in DOMAIN disk => IsDelta(disk[<<"deltas", d>>])
      BY <1>3 DEF IsDirectory, Decodes
    <3>. QED
      BY <3>1, <3>2
  <2>2. \A d \in DOMAIN deltas : Epochs(deltas[d]) \subseteq 1 .. MaxEpoch
    BY <2>1 DEF IsDelta
  <2>3. m.epoch \in 0 .. MaxEpoch
    BY <1>3 DEF ManifestOK, IsManifest
  <2>. HIDE DEF deltas, m
  <2>. QED
    BY <2>2, <2>3, FileStorageAssumption
<1>. HIDE DEF epochs
<1>8. Largest(epochs) \in 0 .. MaxEpoch /\ \A e \in epochs : e <= Largest(epochs)
  <2>1. epochs \subseteq Nat /\ \A x \in epochs : x <= MaxEpoch
    BY <1>7, FileStorageAssumption
  <2>2. Largest(epochs) \in Nat /\ (epochs # {} => Largest(epochs) \in epochs)
        /\ \A e \in epochs : e <= Largest(epochs)
    BY <2>1, LargestFacts, FileStorageAssumption
  <2>3. epochs # {}
    BY DEF epochs
  <2>. QED
    BY <1>7, <2>2, <2>3
<1>9. /\ mem'.nextEpoch \in 1 .. MaxEpoch + 1
      /\ \A name \in DOMAIN disk : name[1] = "deltas" => EpochsBelow(disk[name], mem'.nextEpoch)
  <2>1. mem'.nextEpoch \in 1 .. MaxEpoch + 1 /\ \A e \in epochs : e < mem'.nextEpoch
    BY <1>1, <1>7, <1>8, FileStorageAssumption
  <2>. QED
    BY <1>6, <2>1 DEF EpochsBelow
<1>10. DeltaOK(EmptyDelta) /\ Epochs(EmptyDelta) = {}
  BY DEF DeltaOK, EmptyDelta, EmptyFn, IsDelta, Epochs
<1>11. MemOK'
  BY <1>1, <1>2, <1>3, <1>4, <1>5, <1>9, <1>10 DEF MemOK, EpochsBelow
<1>. QED
  BY <1>1, <1>2, <1>5, <1>11

LEMMA OpenKeeps ==
  ASSUME Inv, Open
  PROVE  Inv'
<1>1. /\ ~IsOpen /\ op = NoOp /\ Loads(disk) /\ mem' = Loaded(disk)
      /\ life' = (IF life = "destroying" THEN "revived" ELSE life)
      /\ UNCHANGED <<disk, durable, op, acked, faults>>
  BY DEF Open
<1>2. MANIFEST \in DOMAIN disk /\ Refs(disk[MANIFEST]) \subseteq DOMAIN disk
  BY <1>1, LoadsFacts DEF Inv, FilesOK
<1>3. life' \in {"none", "index", "revived"}
  BY <1>1 DEF Inv, LifeOK
<1>4. /\ MemOK' /\ IsOpen' /\ mem'.manifest = disk[MANIFEST]
      /\ \A m : Refs(m) \subseteq DOMAIN disk => ValidReferences(mem', m)
  BY <1>1, <1>2, <1>3, LoadKeeps DEF Inv
<1>5. OpOK'
  BY <1>1 DEF OpOK, NumberedWriteOK, PublishOK, CreateOK, Writing, NoOp
<1>6. FilesOK' /\ Shown' /\ LifeOK'
  BY <1>1, FilesStay DEF Inv, Shown, LifeOK
<1>7. Visible(disk[MANIFEST])
  BY <1>2 DEF Visible
<1>8. Recoverable' /\ Acknowledged'
  <2>1. ASSUME life' \in {"none", "index"}, NEW m, Visible(m)
        PROVE  Secured(m) /\ ValidReferences(mem', m)
    <3>1. Secured(m)
      BY <1>1, <2>1 DEF Inv, Recoverable
    <3>. QED
      BY <1>4, <3>1 DEF Secured, Settled
  <2>2. Recoverable'
    BY <1>1, <1>4, <1>7, <2>1, FilesStay DEF Inv, Recoverable
  <2>3. Acknowledged'
    BY <1>1, <1>4, <1>7, FilesStay DEF Inv, Acknowledged, NotOlder
  <2>. QED
    BY <2>2, <2>3
<1>. QED
  BY <1>4, <1>5, <1>6, <1>8 DEF Inv

LEMMA CreateNextKeeps ==
  ASSUME Inv, CreateNext
  PROVE  Inv'
<1>1. /\ op.pc = "sync" /\ op.call = "create" /\ op.name # MANIFEST
      /\ durable' = Synced("wal") /\ disk' = disk
      /\ UNCHANGED <<mem, acked, life, faults>>
      /\ IF op.name = WAL_STATE THEN Write("create", WAL_LOG, "log")
         ELSE Write("create", MANIFEST, InitialManifest)
  BY DEF CreateNext
<1>2. /\ ~IsOpen /\ life # "index" /\ op.name \in {WAL_STATE, WAL_LOG}
      /\ op.name # WAL_STATE => WAL_STATE \in DOMAIN disk
      /\ op.name \in DOMAIN disk
  BY <1>1 DEF Inv, OpOK, CreateOK, Writing
<1>3. /\ FilesOK'
      /\ \A m : Visible(m)' => Visible(m)
      /\ \A x \in DOMAIN disk : x[1] = "wal" => Settled(x)'
      /\ \A m : Secured(m) => Secured(m)'
      /\ \A m : Faithful(m) => Faithful(m)'
      /\ DOMAIN disk \cap DOMAIN durable \subseteq DOMAIN durable'
  BY <1>1, SyncKeeps DEF Inv
<1>4. ~IsOpen'
  BY <1>1, <1>2 DEF IsOpen
<1>5. WAL_STATE \in DOMAIN disk' \cap DOMAIN durable'
      /\ (op.name = WAL_LOG => WAL_LOG \in DOMAIN disk' \cap DOMAIN durable')
  BY <1>1, <1>2, <1>3 DEF Settled, WAL_STATE, WAL_LOG
<1>6. OpOK'
  <2>1. /\ DOMAIN op' = {"pc", "call", "name", "content"}
        /\ op'.pc = "rename" /\ op'.call = "create"
        /\ \/ op.name = WAL_STATE /\ op'.name = WAL_LOG
           \/ op.name = WAL_LOG /\ op'.name = MANIFEST /\ op'.content = InitialManifest
    BY <1>1, <1>2 DEF Write
  <2>2. CreateOK'
    BY <1>1, <1>2, <1>4, <1>5, <2>1 DEF CreateOK, MANIFEST, WAL_STATE, WAL_LOG
  <2>. QED
    BY <2>1, <2>2 DEF OpOK, NumberedWriteOK, PublishOK, Writing, Numbered
<1>7. MemOK' /\ LifeOK' /\ Shown'
  BY <1>1, <1>3, <1>4 DEF Inv, MemOK, LifeOK, Shown
<1>8. Acknowledged'
  BY <1>1, <1>2 DEF Acknowledged
<1>9. Recoverable'
  <2>1. MANIFEST \in DOMAIN durable' <=> MANIFEST \in DOMAIN durable
    BY <1>1, SyncedFacts DEF MANIFEST
  <2>. QED
    BY <1>1, <1>3, <1>4, <2>1 DEF Inv, Recoverable
<1>. QED
  BY <1>3, <1>6, <1>7, <1>8, <1>9 DEF Inv

LEMMA FinishCreateKeeps ==
  ASSUME Inv, FinishCreate
  PROVE  Inv'
<1>1. /\ op.pc = "sync" /\ op.call = "create" /\ op.name = MANIFEST
      /\ durable' = Synced("root") /\ disk' = disk /\ mem' = Loaded(disk)
      /\ acked' = op.content /\ op' = NoOp /\ life' = "index" /\ faults' = faults
  BY DEF FinishCreate
<1>2. /\ op.content = InitialManifest
      /\ MANIFEST \in DOMAIN disk /\ disk[MANIFEST] = InitialManifest
      /\ {WAL_STATE, WAL_LOG} \subseteq DOMAIN disk \cap DOMAIN durable
  BY <1>1 DEF Inv, OpOK, CreateOK, Writing, MANIFEST, WAL_STATE
<1>3. /\ FilesOK'
      /\ \A m : Visible(m)' => Visible(m)
      /\ Settled(MANIFEST)'
      /\ DOMAIN disk \cap DOMAIN durable \subseteq DOMAIN durable'
  BY <1>1, <1>2, SyncKeeps DEF Inv, MANIFEST
<1>4. MemOK' /\ IsOpen' /\ mem'.manifest = InitialManifest
  BY <1>1, <1>2, InitialManifestFacts, LoadKeeps DEF Inv
<1>5. ASSUME NEW m, Visible(m)'
      PROVE  m = InitialManifest
  BY <1>1, <1>2, <1>3, <1>5 DEF Visible, Settled
<1>6. OpOK'
  BY <1>1 DEF OpOK, NumberedWriteOK, PublishOK, CreateOK, Writing, NoOp
<1>7. LifeOK'
  BY <1>1, <1>2, InitialManifestFacts DEF Inv, LifeOK, ManifestOK
<1>8. Secured(InitialManifest)' /\ Faithful(InitialManifest)'
  BY InitialManifestFacts DEF Secured, Faithful
<1>9. Shown'
  BY <1>5, <1>8 DEF Shown
<1>10. Recoverable'
  BY <1>1, <1>2, <1>3, <1>4, <1>5, <1>8, InitialManifestFacts DEF Recoverable
<1>11. Acknowledged'
  BY <1>1, <1>2, <1>3, <1>4, <1>5 DEF Acknowledged, NotOlder, Settled
<1>. QED
  BY <1>3, <1>4, <1>6, <1>7, <1>9, <1>10, <1>11 DEF Inv

LEMMA DestroyKeeps ==
  ASSUME Inv, Destroy
  PROVE  Inv'
<1>1. /\ ~IsOpen /\ op' = [pc |-> "remove"] /\ acked' = InitialManifest
      /\ life' \in {"destroying", "revived"} /\ (life' # "revived" => life # "revived")
      /\ UNCHANGED <<disk, durable, mem, faults>>
  BY DEF Destroy
<1>2. ~IsOpen'
  BY <1>1 DEF IsOpen
<1>3. OpOK'
  BY <1>1, <1>2 DEF OpOK, NumberedWriteOK, PublishOK, CreateOK, Writing
<1>4. FilesOK' /\ Shown' /\ MemOK'
  BY <1>1, <1>2, FilesStay DEF Inv, Shown, MemOK
<1>5. LifeOK' /\ Recoverable' /\ Acknowledged'
  BY <1>1, InitialManifestFacts DEF Inv, LifeOK, ManifestOK, Recoverable, Acknowledged
<1>. QED
  BY <1>3, <1>4, <1>5 DEF Inv

\* Files that are fewer, or older, leave a manifest faithful.
LEMMA RemoveKeeps ==
  ASSUME Inv, Remove
  PROVE  Inv'
<1>1. /\ op.pc = "remove" /\ op' \in {NoOp, op}
      /\ UNCHANGED <<durable, mem, acked, life, faults>>
  BY DEF Remove
<1>2. PICK name : disk' = Without(disk, name)
  BY DEF Remove
<1>3. /\ DOMAIN disk' \subseteq DOMAIN disk
      /\ \A x \in DOMAIN disk' : disk'[x] = disk[x]
  BY <1>2 DEF Without
<1>4. /\ ~IsOpen /\ life \in {"destroying", "revived"}
      /\ ~IsOpen'
  BY <1>1 DEF Inv, OpOK, IsOpen
<1>5. FilesOK'
  BY <1>1, <1>3 DEF Inv, FilesOK, IsDirectory
<1>6. OpOK'
  BY <1>1, <1>4 DEF Inv, OpOK, NumberedWriteOK, PublishOK, CreateOK, Writing, NoOp
<1>7. /\ \A m : Visible(m)' => Visible(m)
      /\ \A files, x : Possible(files, x)' => Possible(files, x)
  BY <1>1, <1>3 DEF Visible, Possible
<1>8. Shown'
  BY <1>1, <1>7 DEF Inv, Shown, Faithful
<1>9. MemOK' /\ LifeOK' /\ Recoverable' /\ Acknowledged'
  BY <1>1, <1>4 DEF Inv, MemOK, LifeOK, Recoverable, Acknowledged
<1>. QED
  BY <1>5, <1>6, <1>8, <1>9 DEF Inv

------------------------------------------------------------------------------
(* Crashing *)

\* What a crash may leave is a directory.
LEMMA OutcomeIsDirectory ==
  ASSUME FilesOK, NEW left \in Outcomes
  PROVE  IsDirectory(left)
<1>1. \A name \in DOMAIN left : Possible(left, name)
  BY OutcomeFacts
<1>2. PICK a \in Nat : \A name \in DOMAIN disk : name[2] <= a
  BY DEF FilesOK, IsDirectory
<1>3. PICK b \in Nat : \A name \in DOMAIN durable : name[2] <= b
  BY DEF FilesOK, IsDirectory
<1>4. \A name \in DOMAIN left : IsName(name) /\ Decodes(name, left[name])
  BY <1>1 DEF FilesOK, IsDirectory, Possible
<1>5. \A name \in DOMAIN left : name[2] \in Nat /\ (name[2] <= a \/ name[2] <= b)
  BY <1>1, <1>2, <1>3, <1>4 DEF Possible, IsName, MANIFEST, WAL_STATE, WAL_LOG
<1>6. \A name \in DOMAIN left : name[2] <= a + b
  BY <1>2, <1>3, <1>5
<1>. QED
  BY <1>2, <1>3, <1>4, <1>6 DEF IsDirectory

LEMMA CrashKeeps ==
  ASSUME Inv, Crash
  PROVE  Inv'
<1>1. /\ disk' \in Outcomes /\ durable' = disk' /\ Fault
      /\ mem' = Closed /\ op' = NoOp /\ UNCHANGED <<acked, life>>
  BY DEF Crash
<1>2. ~IsOpen'
  BY <1>1 DEF IsOpen
<1>3. /\ \A name \in DOMAIN disk' : Possible(disk', name)
      /\ DOMAIN disk \cap DOMAIN durable \subseteq DOMAIN disk'
      /\ IsDirectory(disk')
  BY <1>1, OutcomeFacts, OutcomeIsDirectory DEF Inv
<1>4. FilesOK'
  BY <1>1, <1>3 DEF FilesOK
<1>5. OpOK' /\ MemOK' /\ LifeOK'
  BY <1>1, <1>2, FileStorageAssumption
     DEF OpOK, NumberedWriteOK, PublishOK, CreateOK, Writing, NoOp, MemOK, Inv, LifeOK, Fault
<1>6. /\ \A m : Visible(m)' => Visible(m)
      /\ \A files, x : Possible(files, x)' => Possible(files, x)
  BY <1>1, <1>3 DEF Visible, Possible
<1>7. \A x : Settled(x) => Settled(x)'
  BY <1>1, <1>3 DEF Settled, Possible
<1>8. Shown'
  BY <1>1, <1>6 DEF Inv, Shown, Faithful
<1>9. Recoverable'
  <2>. SUFFICES ASSUME life \in {"none", "index"}
                PROVE  Recoverable'
    BY <1>1 DEF Recoverable
  <2>1. MANIFEST \in DOMAIN disk' => MANIFEST \in DOMAIN disk
    BY <1>3 DEF Inv, Recoverable, Possible
  <2>. QED
    BY <1>1, <1>2, <1>3, <1>6, <1>7, <2>1 DEF Inv, Recoverable, Secured
<1>10. Acknowledged'
  BY <1>1, <1>2, <1>3, <1>6 DEF Inv, Acknowledged, Recoverable, NotOlder
<1>. QED
  BY <1>4, <1>5, <1>8, <1>9, <1>10 DEF Inv

------------------------------------------------------------------------------
(* The invariant holds *)

LEMMA InitInv ==
  Init => Inv
<1>. SUFFICES ASSUME Init PROVE Inv
  OBVIOUS
<1>1. DOMAIN disk = {} /\ DOMAIN durable = {} /\ ~IsOpen /\ op = NoOp
      /\ acked = InitialManifest /\ life = "none" /\ faults = 0
  BY DEF Init, EmptyFn, IsOpen
<1>2. FilesOK /\ \A m : ~Visible(m)
  BY <1>1 DEF FilesOK, IsDirectory, Visible
<1>3. OpOK /\ MemOK /\ LifeOK
  BY <1>1, InitialManifestFacts, FileStorageAssumption
     DEF OpOK, NumberedWriteOK, PublishOK, CreateOK, Writing, NoOp, MemOK, LifeOK, ManifestOK
<1>. QED
  BY <1>1, <1>2, <1>3 DEF Inv, Recoverable, Acknowledged, Shown

LEMMA NextInv ==
  Inv /\ [Next]_fileVars => Inv'
<1>. SUFFICES ASSUME Inv, [Next]_fileVars PROVE Inv'
  OBVIOUS
<1>1. CASE UNCHANGED fileVars
  <2>1. UNCHANGED <<disk, durable, mem, acked, life, faults>> /\ op' = op
    BY <1>1 DEF fileVars
  <2>2. OpOK'
    BY <2>1, FilesStay
       DEF Inv, OpOK, NumberedWriteOK, PublishOK, CreateOK, Writing, IsOpen
  <2>. QED
    BY <2>1, <2>2, OnlyOpChanges
<1>2. CASE Create \/ CreateNext \/ FinishCreate \/ Open
  BY <1>2, CreateKeeps, CreateNextKeeps, FinishCreateKeeps, OpenKeeps
<1>3. CASE Destroy \/ Remove
  BY <1>3, DestroyKeeps, RemoveKeeps
<1>4. CASE Rename \/ Fail \/ FinishFile \/ FinishPublish
  BY <1>4, RenameKeeps, FailKeeps, FinishFileKeeps, FinishPublishKeeps
<1>5. ASSUME NEW n \in Nodes, NEW record \in Records, AppendNode(n, record)
      PROVE  Inv'
  BY <1>5, AppendNodeKeeps
<1>6. ASSUME NEW n \in Nodes, NEW list \in Lists, RewriteNeighbors(n, list)
      PROVE  Inv'
  BY <1>6, RewriteNeighborsKeeps
<1>7. ASSUME NEW n \in Nodes, TombstoneNode(n)
      PROVE  Inv'
  BY <1>7, TombstoneNodeKeeps
<1>8. ASSUME NEW n \in Nodes, NEW record \in Records,
             InsertImmutableSegment([m \in {n} |-> record])
      PROVE  Inv'
  BY <1>8, InsertImmutableSegmentKeeps
<1>9. CASE PublishHotDelta
  BY <1>9, PublishHotDeltaKeeps
<1>10. ASSUME NEW trained \in Trained, StoreQuantizer(trained)
       PROVE  Inv'
  BY <1>10, StoreQuantizerKeeps
<1>11. CASE IsOpen /\ mem.handed["deltas"] # 0 /\ PublishManifest(OnlineReplacement)
  BY <1>11, OnlineReplacementKeeps
<1>12. CASE IsOpen /\ PublishManifest(BulkReplacement)
  BY <1>12, BulkReplacementKeeps
<1>13. CASE Kill \/ Crash
  BY <1>13, KillKeeps, CrashKeeps
<1>. QED
  BY <1>1, <1>2, <1>3, <1>4, <1>5, <1>6, <1>7, <1>8, <1>9, <1>10, <1>11, <1>12, <1>13 DEF Next

LEMMA SpecInv ==
  Spec => []Inv
BY InitInv, NextInv, PTL DEF Spec

------------------------------------------------------------------------------
(* Results *)

\* Whatever is written, and wherever a crash cuts it off, every file decodes
\* to what its directory says, and memory stays within its bounds.
THEOREM FilesTypeCorrect ==
  Spec => []FileTypeOK
<1>1. ASSUME Inv PROVE FileTypeOK
  <2>1. ASSUME NEW files \in {disk, durable}, NEW name \in DOMAIN files
        PROVE  CASE name[1] = "segments" -> IsSegment(files[name])
                 [] name[1] = "deltas" -> IsDelta(files[name])
                 [] name[1] = "quantizers" -> files[name] \in Trained
                 [] name = MANIFEST -> IsManifest(files[name])
                 [] OTHER -> name \in {WAL_STATE, WAL_LOG}
    <3>1. IsName(name) /\ Decodes(name, files[name])
      BY <1>1, <2>1 DEF Inv, FilesOK, IsDirectory
    <3>2. CASE name \in {MANIFEST, WAL_STATE, WAL_LOG}
      BY <3>1, <3>2 DEF Decodes, ManifestOK, MANIFEST, WAL_STATE, WAL_LOG
    <3>3. CASE name \notin {MANIFEST, WAL_STATE, WAL_LOG}
      BY <3>1, <3>3 DEF IsName, Decodes, Numbered, MANIFEST
    <3>. QED
      BY <3>2, <3>3
  <2>2. ASSUME IsOpen, NEW dir \in Numbered
        PROVE  mem.handed[dir] < mem.next[dir]
    <3>1. NumbersOK(dir)
      BY <1>1, <2>2 DEF Inv, MemOK
    <3>2. mem.handed[dir] \in Nat /\ mem.next[dir] \in Nat \ {0}
      BY <3>1 DEF NumbersOK
    <3>3. CASE mem.handed[dir] = 0
      BY <3>2, <3>3
    <3>4. CASE mem.handed[dir] \in DOMAIN mem[dir]
      BY <3>1, <3>4 DEF NumbersOK
    <3>. QED
      BY <3>1, <3>3, <3>4 DEF NumbersOK
  <2>3. IsOpen => /\ IsManifest(mem.manifest) /\ IsDelta(mem.draft)
                  /\ mem.nextEpoch \in 1 .. MaxEpoch + 1
    BY <1>1 DEF Inv, MemOK, ManifestOK, DeltaOK
  <2>. QED
    BY <1>1, <2>1, <2>2, <2>3 DEF FileTypeOK, Inv, LifeOK
<1>. QED
  BY <1>1, SpecInv, PTL

\* The order of write_atomic (sync, rename, sync the directory) is enough for
\* every crash, in whichever call, to leave a directory that opens.
THEOREM CrashesReopen ==
  Spec => []EveryCrashReopens
<1>1. ASSUME Inv, life = "index", NEW left \in Outcomes
      PROVE  Loads(left)
  <2>1. /\ \A name \in DOMAIN left : Possible(left, name)
        /\ \A name : Settled(name) => name \in DOMAIN left
        /\ IsDirectory(left)
    BY <1>1, OutcomeFacts, OutcomeIsDirectory DEF Inv, Settled
  <2>2. {MANIFEST, WAL_STATE, WAL_LOG} \subseteq DOMAIN disk \cap DOMAIN durable
    BY <1>1 DEF Inv, Acknowledged, Recoverable
  <2>3. {MANIFEST, WAL_STATE, WAL_LOG} \subseteq DOMAIN left
    BY <1>1, <2>2, OutcomeFacts
  <2>4. Visible(left[MANIFEST])
    BY <2>1, <2>3 DEF Visible, Possible
  <2>5. Refs(left[MANIFEST]) \subseteq DOMAIN left
    BY <1>1, <2>1, <2>4 DEF Inv, Recoverable, Secured
  <2>. QED
    BY <2>1, <2>3, <2>5, LoadsFacts
<1>2. ASSUME Inv PROVE EveryCrashReopens
  BY <1>1, <1>2 DEF EveryCrashReopens
<1>. QED
  BY <1>2, SpecInv, PTL

\* No crash takes an acknowledged compare_and_publish back.
THEOREM AcknowledgedSurvive ==
  Spec => []AcknowledgedPublishesSurvive
<1>1. ASSUME Inv, life = "index", NEW left \in Outcomes
      PROVE  NotOlder(left[MANIFEST])
  <2>1. MANIFEST \in DOMAIN left
    BY <1>1, OutcomeFacts DEF Inv, Acknowledged, Recoverable
  <2>2. Visible(left[MANIFEST])
    BY <1>1, <2>1, OutcomeFacts DEF Visible, Possible
  <2>. QED
    BY <1>1, <2>2 DEF Inv, Acknowledged
<1>2. ASSUME Inv PROVE AcknowledgedPublishesSurvive
  BY <1>1, <1>2 DEF AcknowledgedPublishesSurvive, NotOlder
<1>. QED
  BY <1>2, SpecInv, PTL

\* A directory that opens shows what its manifest showed when it was written.
THEOREM OpensAsPublished ==
  Spec => []OpensToWhatWasPublished
<1>1. ASSUME Inv, life # "revived", NEW left \in Outcomes, Loads(left)
      PROVE  View(Contents(left), left[MANIFEST]) = left[MANIFEST].shows
  <2>1. IsDirectory(left) /\ \A name \in DOMAIN left : Possible(left, name)
    BY <1>1, OutcomeFacts, OutcomeIsDirectory DEF Inv
  <2>2. MANIFEST \in DOMAIN left /\ Refs(left[MANIFEST]) \subseteq DOMAIN left
    BY <1>1, <2>1, LoadsFacts
  <2>3. Visible(left[MANIFEST])
    BY <2>1, <2>2 DEF Visible, Possible
  <2>4. Faithful(left[MANIFEST])
    BY <1>1, <2>3 DEF Inv, Shown
  <2>. QED
    BY <2>1, <2>2, <2>4 DEF Faithful
<1>2. ASSUME Inv PROVE OpensToWhatWasPublished
  BY <1>1, <1>2 DEF OpensToWhatWasPublished
<1>. QED
  BY <1>2, SpecInv, PTL

\* load counts the epochs of every frozen delta, so none is handed out twice.
THEOREM EpochsFresh ==
  Spec => []EpochsStayFresh
<1>1. ASSUME Inv PROVE EpochsStayFresh
  BY <1>1 DEF Inv, MemOK, EpochsBelow, EpochsStayFresh, InDirectory
<1>. QED
  BY <1>1, SpecInv, PTL

\* An open storage never changes or forgets what a reference names.
THEOREM ReferencesKept ==
  Spec => ReferencesAreImmutable
<1>. DEFINE Kept == IsOpen /\ mem' # Closed =>
       \A dir \in Numbered : \A i \in DOMAIN mem[dir] :
         i \in DOMAIN mem'[dir] /\ mem'[dir][i] = mem[dir][i]
<1>1. ASSUME Inv, Next, IsOpen, mem' # Closed
      PROVE  \A dir \in Numbered : \A i \in DOMAIN mem[dir] :
               i \in DOMAIN mem'[dir] /\ mem'[dir][i] = mem[dir][i]
  <2>1. DOMAIN mem = Fields
    BY <1>1 DEF Inv, MemOK
  <2>2. CASE mem' = mem
    BY <2>2
  <2>3. CASE FinishFile
    <3>. DEFINE d == op.call
                id == op.name[2]
    <3>1. /\ op.pc = "sync" /\ d \in Numbered
          /\ mem' = [mem EXCEPT ![d] = With(@, id, op.content),
                                !.next[d] = id + 1, !.handed[d] = id]
      BY <2>3 DEF FinishFile
    <3>2. op.name = <<d, mem.next[d]>>
      BY <1>1, <3>1 DEF Inv, OpOK, NumberedWriteOK, Writing
    <3>3. id = mem.next[d]
      BY <3>2
    <3>4. NumbersOK(d)
      BY <1>1, <3>1 DEF Inv, MemOK
    <3>5. mem'[d] = With(mem[d], id, op.content)
          /\ \A dir \in Numbered \ {d} : mem'[dir] = mem[dir]
      BY <2>1, <3>1 DEF Fields, Numbered
    <3>6. ASSUME id \in DOMAIN mem[d] PROVE FALSE
      <4>1. mem.next[d] \in DOMAIN mem[d]
        BY <3>3, <3>6
      <4>2. mem.next[d] \in Nat /\ mem.next[d] < mem.next[d]
        BY <3>4, <4>1 DEF NumbersOK
      <4>. QED
        BY <4>2
    <3>. QED
      BY <3>5, <3>6 DEF With
  <2>4. CASE FinishPublish
    BY <2>1, <2>4 DEF FinishPublish, Fields, Numbered
  <2>5. ASSUME NEW n \in Nodes, NEW record \in Records, AppendNode(n, record)
        PROVE  \A dir \in Numbered : mem'[dir] = mem[dir]
    BY <2>1, <2>5 DEF AppendNode, Stage, Fields, Numbered
  <2>6. ASSUME NEW n \in Nodes, NEW list \in Lists, RewriteNeighbors(n, list)
        PROVE  \A dir \in Numbered : mem'[dir] = mem[dir]
    BY <2>1, <2>6 DEF RewriteNeighbors, Stage, Fields, Numbered
  <2>7. ASSUME NEW n \in Nodes, TombstoneNode(n)
        PROVE  \A dir \in Numbered : mem'[dir] = mem[dir]
    BY <2>1, <2>7 DEF TombstoneNode, Fields, Numbered
  <2>8. CASE Open \/ FinishCreate \/ Kill \/ Crash
    BY <1>1, <2>8 DEF Open, FinishCreate, Kill, Crash, Inv, OpOK, CreateOK, Writing
  <2>9. CASE \/ Create \/ CreateNext \/ Destroy \/ Remove \/ Rename \/ Fail \/ PublishHotDelta
             \/ \E n \in Nodes, record \in Records : InsertImmutableSegment([m \in {n} |-> record])
             \/ \E trained \in Trained : StoreQuantizer(trained)
             \/ \E r : PublishManifest(r)
    BY <2>2, <2>9 DEF Create, CreateNext, Destroy, Remove, Rename, Fail, PublishHotDelta,
                       InsertImmutableSegment, StoreQuantizer, PublishManifest
  <2>. QED
    BY <1>1, <2>3, <2>4, <2>5, <2>6, <2>7, <2>8, <2>9 DEF Next
<1>2. Inv /\ [Next]_fileVars => [Kept]_fileVars
  BY <1>1
<1>. QED
  BY <1>2, SpecInv, PTL DEF Spec, ReferencesAreImmutable

==============================================================================
