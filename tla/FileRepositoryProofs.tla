------------------------ MODULE FileRepositoryProofs ------------------------
(***************************************************************************)
(* With one process saving, the file repository implements StoredValue: of *)
(* any artifacts, in any number of parts, with any number of loads, kills, *)
(* restores and power cuts.                                                *)
(*                                                                         *)
(* FileInv is that the process writes from the beginning, to the temporary *)
(* file or, in a restore, to a file that counts as damaged; that nobody    *)
(* reads the temporary file; and that what is at the path is whole.        *)
(***************************************************************************)
EXTENDS FileRepository, SequenceTheorems, TLAPS

USE RepositoryAssumption

Prefix(a, k) == [j \in 1..k |-> [of |-> a, part |-> j]]

Saver == [of : Artifacts \cup {Nothing}, fd : Inodes \cup {Nothing},
          onto : {"none", "tmp", "path"}, written : 0..Parts]

FilesTyped ==
  /\ path \in Inodes \cup {Nothing}
  /\ tmp \in Inodes \cup {Nothing}
  /\ content \in [Inodes -> Seq(Part)]
  /\ durable \in [Inodes -> Nat]
  /\ \A i \in Inodes : durable[i] <= Len(content[i])
  /\ saver \in [Savers -> Saver]
  /\ reader \in [Readers -> Inodes \cup {Nothing}]
  /\ damaged \in BOOLEAN

\* What a process that is saving has open and has written of it.
Busy(w) ==
  /\ w.of \in Artifacts
  /\ w.fd \in Inodes
  /\ content[w.fd] = Prefix(w.of, w.written)
  /\ \/ w.onto = "tmp" /\ tmp = w.fd
     \/ w.onto = "path" /\ path = w.fd /\ damaged

Apart ==
  tmp # Nothing => tmp # path /\ \A r \in Readers : reader[r] # tmp

FileInv ==
  /\ FilesTyped
  /\ \A s \in Savers : saver[s] = Resting \/ Busy(saver[s])
  /\ Apart
  /\ StoredIsWhole
-----------------------------------------------------------------------------
(***************************************************************************)
(* Artifacts and their parts.                                              *)
(***************************************************************************)
LEMMA PrefixTyped ==
  ASSUME NEW a \in Artifacts, NEW k \in 0..Parts
  PROVE  Prefix(a, k) \in Seq(Part) /\ Len(Prefix(a, k)) = k
<1>1. \A j \in 1..k : [of |-> a, part |-> j] \in Part
  BY DEF Part
<1>2. QED  BY <1>1 DEF Prefix

LEMMA WholeIsPrefix == \A a : Whole(a) = Prefix(a, Parts)
BY DEF Whole, Prefix

LEMMA WriteExtends ==
  ASSUME NEW a \in Artifacts, NEW k \in 0..Parts, k < Parts
  PROVE  WriteAt(Prefix(a, k), k + 1, [of |-> a, part |-> k + 1]) = Prefix(a, k + 1)
<1>1. Len(Prefix(a, k)) = k
  BY PrefixTyped
<1>2. QED  BY <1>1 DEF WriteAt, Prefix

LEMMA FoundWhole == ASSUME NEW a \in Artifacts PROVE Found(Whole(a)) \in Artifacts
<1>1. PICK b : b = Found(Whole(a))
  OBVIOUS
<1>2. /\ b \in Artifacts \cup {Hole}
      /\ Whole(a) = Whole(b) \/ (b = Hole /\ \A c \in Artifacts : Whole(a) # Whole(c))
  BY <1>1 DEF Found
<1>3. Whole(a)[1].of = a /\ Whole(b)[1].of = b
  BY DEF Whole
<1>4. QED  BY <1>1, <1>2, <1>3

LEMMA FoundTyped == \A parts : Found(parts) \in Artifacts \cup {Hole}
<1>1. SUFFICES ASSUME NEW parts PROVE Found(parts) \in Artifacts \cup {Hole}
  OBVIOUS
<1>2. \E a \in Artifacts \cup {Hole} :
        parts = Whole(a) \/ (a = Hole /\ \A b \in Artifacts : parts # Whole(b))
  OBVIOUS
<1>3. QED  BY <1>2 DEF Found
-----------------------------------------------------------------------------
(***************************************************************************)
(* What a step means to the port.                                          *)
(***************************************************************************)
Value == ArtifactIn(path)
Seen == [r \in Readers |-> ArtifactIn(reader[r])]
PortStep == Port!Next \/ (Value' = Value /\ Seen' = Seen /\ damaged' = damaged)
Step == FileInv' /\ PortStep

LEMMA Findable == \A i : ArtifactIn(i) \in Port!Findable /\ ArtifactIn(i)' \in Port!Findable
BY FoundTyped DEF ArtifactIn, Port!Findable

\* The file at the path and the files being read are as they were.
LEMMA SameFiles ==
  ASSUME FilesTyped, path' = path, reader' = reader,
         path # Nothing => content'[path] = content[path],
         \A r \in Readers : reader[r] # Nothing => content'[reader[r]] = content[reader[r]]
  PROVE  Value' = Value /\ Seen' = Seen
<1>1. Value' = Value
  BY DEF Value, ArtifactIn
<1>2. \A r \in Readers : ArtifactIn(reader[r])' = ArtifactIn(reader[r])
  BY DEF ArtifactIn
<1>3. QED  BY <1>1, <1>2 DEF Seen

\* Something is written into the file at the path itself.
LEMMA InPlace == ASSUME damaged' = TRUE PROVE PortStep
<1>1. Value' \in Port!Findable /\ Seen' \in [Readers -> Port!Findable]
  BY Findable DEF Value, Seen
<1>2. Port!Damage
  BY <1>1 DEF Port!Damage, Value, Seen
<1>3. QED  BY <1>2 DEF PortStep, Port!Next

\* A whole file is put at the path, and what is being read stays as it is.
LEMMA Saved ==
  ASSUME FilesTyped, NEW a \in Artifacts, path' # Nothing, content'[path'] = Whole(a),
         content' = content, reader' = reader, damaged' = FALSE
  PROVE  PortStep
<1>1. Value' \in Artifacts
  BY FoundWhole DEF Value, ArtifactIn
<1>2. \A r \in Readers : ArtifactIn(reader[r])' = ArtifactIn(reader[r])
  BY DEF ArtifactIn
<1>3. Seen' = Seen
  BY <1>2 DEF Seen
<1>4. Port!Save
  BY <1>1, <1>3 DEF Port!Save, Value, Seen
<1>5. QED  BY <1>4 DEF PortStep, Port!Next
-----------------------------------------------------------------------------
(***************************************************************************)
(* Saves.                                                                  *)
(***************************************************************************)
LEMMA ResetTyped ==
  ASSUME FilesTyped, NEW i \in Inodes, Empty(i)
  PROVE  /\ content' \in [Inodes -> Seq(Part)] /\ durable' \in [Inodes -> Nat]
         /\ \A j \in Inodes : durable'[j] <= Len(content'[j])
         /\ content'[i] = <<>> /\ \A j \in Inodes \ {i} : content'[j] = content[j]
<1>1. <<>> \in Seq(Part) /\ Len(<<>>) = 0
  OBVIOUS
<1>2. QED  BY <1>1 DEF FilesTyped, Empty

LEMMA WritingTyped ==
  ASSUME NEW a \in Artifacts, NEW i \in Inodes, NEW name \in {"tmp", "path"}
  PROVE  /\ Writing(a, i, name) \in Saver /\ Writing(a, i, name).of = a
         /\ Writing(a, i, name).fd = i /\ Writing(a, i, name).onto = name
         /\ Prefix(a, Writing(a, i, name).written) = <<>>
<1>1. Prefix(a, 0) = <<>>
  BY PrefixTyped
<1>2. QED  BY <1>1 DEF Writing, Saver

LEMMA OpenTmpSteps ==
  ASSUME FileInv, NEW s, Savers = {s}, NEW a \in Artifacts, NEW i \in Inodes, OpenTmp(s, a, i)
  PROVE  Step
<1>1. /\ Empty(i) /\ tmp' = i /\ path' = path /\ reader' = reader /\ damaged' = damaged
      /\ saver' = [saver EXCEPT ![s] = Writing(a, i, "tmp")]
      /\ IF tmp = Nothing THEN Free(i) ELSE i = tmp
  BY DEF OpenTmp, Truncate
<1>2. i # path /\ i # Nothing /\ \A r \in Readers : reader[r] # i
  BY <1>1 DEF Free, FileInv, Apart
<1>3. /\ content' \in [Inodes -> Seq(Part)] /\ durable' \in [Inodes -> Nat]
      /\ \A j \in Inodes : durable'[j] <= Len(content'[j])
      /\ content'[i] = <<>> /\ \A j \in Inodes \ {i} : content'[j] = content[j]
  BY <1>1, ResetTyped DEF FileInv
<1>4. FilesTyped'
  BY <1>1, <1>3, WritingTyped DEF FileInv, FilesTyped
<1>5. Busy(saver[s])'
  <2>1. saver'[s] = Writing(a, i, "tmp")
    BY <1>1 DEF FileInv, FilesTyped
  <2>2. /\ saver'[s].of = a /\ saver'[s].fd = i /\ saver'[s].onto = "tmp"
        /\ content'[i] = Prefix(a, saver'[s].written)
    BY <1>3, <2>1, WritingTyped
  <2>3. QED  BY <1>1, <2>2 DEF Busy
<1>6. Apart' /\ StoredIsWhole'
  BY <1>1, <1>2, <1>3 DEF Apart, StoredIsWhole, FileInv, FilesTyped
<1>7. PortStep
  BY <1>1, <1>2, <1>3, SameFiles DEF PortStep, FileInv, FilesTyped
<1>8. QED  BY <1>4, <1>5, <1>6, <1>7 DEF Step, FileInv

LEMMA RestoreOpenSteps ==
  ASSUME FileInv, NEW s, Savers = {s}, NEW a \in Artifacts, NEW i \in Inodes, RestoreOpen(s, a, i)
  PROVE  Step
<1>1. /\ Empty(i) /\ path' = i /\ tmp' = tmp /\ reader' = reader /\ damaged' = TRUE
      /\ saver' = [saver EXCEPT ![s] = Writing(a, i, "path")]
      /\ IF path = Nothing THEN Free(i) ELSE i = path
  BY DEF RestoreOpen, Truncate
<1>2. i # tmp
  BY <1>1 DEF Free, FileInv, Apart
<1>3. /\ content' \in [Inodes -> Seq(Part)] /\ durable' \in [Inodes -> Nat]
      /\ \A j \in Inodes : durable'[j] <= Len(content'[j])
      /\ content'[i] = <<>>
  BY <1>1, ResetTyped DEF FileInv
<1>4. FilesTyped'
  BY <1>1, <1>3, WritingTyped DEF FileInv, FilesTyped
<1>5. Busy(saver[s])'
  BY <1>1, <1>3, WritingTyped DEF Busy, FileInv, FilesTyped
<1>6. Apart' /\ StoredIsWhole'
  BY <1>1, <1>2 DEF Apart, StoredIsWhole, FileInv
<1>7. PortStep
  BY <1>1, InPlace
<1>8. QED  BY <1>4, <1>5, <1>6, <1>7 DEF Step, FileInv

LEMMA WriteSteps ==
  ASSUME FileInv, NEW s, Savers = {s}, Write(s)
  PROVE  Step
<1> DEFINE w == saver[s]
           k == w.written + 1
           c == Prefix(w.of, k)
<1>1. /\ w \in Saver /\ w.fd # Nothing /\ w.written \in 0..Parts /\ w.written < Parts
      /\ saver' = [saver EXCEPT ![s].written = @ + 1]
      /\ UNCHANGED <<path, tmp, durable, reader, damaged>>
  BY DEF Write, FileInv, FilesTyped, Saver
<1>2. Busy(w)
  BY <1>1 DEF FileInv, Resting
<1>3. content' = [content EXCEPT ![w.fd] = c]
  BY <1>1, <1>2, WriteExtends DEF Write, Busy, FileInv, FilesTyped
<1>4. /\ c \in Seq(Part) /\ Len(c) = k
      /\ content[w.fd] = Prefix(w.of, w.written) /\ Len(content[w.fd]) = w.written
  BY <1>1, <1>2, PrefixTyped DEF Busy
<1>5. /\ saver' \in [Savers -> Saver] /\ saver'[s].of = w.of /\ saver'[s].fd = w.fd
      /\ saver'[s].onto = w.onto /\ saver'[s].written = k
  <2>1. saver'[s] = [w EXCEPT !.written = k] /\ k \in 0..Parts
    BY <1>1 DEF FileInv, FilesTyped
  <2>2. /\ saver'[s] \in Saver /\ saver'[s].of = w.of /\ saver'[s].fd = w.fd
        /\ saver'[s].onto = w.onto /\ saver'[s].written = k
    BY <1>1, <2>1 DEF Saver
  <2>3. saver' = [saver EXCEPT ![s] = saver'[s]]
    BY <1>1 DEF FileInv, FilesTyped
  <2>4. QED  BY <2>2, <2>3 DEF FileInv, FilesTyped
<1> HIDE DEF w, c
<1>6. content' \in [Inodes -> Seq(Part)] /\ \A i \in Inodes : durable[i] <= Len(content'[i])
  BY <1>1, <1>2, <1>3, <1>4 DEF FileInv, FilesTyped, Busy
<1>7. FilesTyped'
  BY <1>1, <1>5, <1>6 DEF FileInv, FilesTyped
<1>8. Busy(saver[s])'
  BY <1>1, <1>2, <1>3, <1>5 DEF Busy, FileInv, FilesTyped, c
<1>9. Apart'
  BY <1>1 DEF Apart, FileInv
<1>10. CASE w.onto = "path"
  <2>1. damaged' = TRUE
    BY <1>1, <1>2, <1>10 DEF Busy, FileInv, FilesTyped
  <2>2. QED  BY <2>1, <1>7, <1>8, <1>9, InPlace DEF Step, FileInv, StoredIsWhole
<1>11. CASE w.onto = "tmp"
  <2>1. w.fd # path /\ \A r \in Readers : reader[r] # w.fd
    BY <1>1, <1>2, <1>11 DEF Busy, FileInv, Apart
  <2>2. \A i \in Inodes \ {w.fd} : content'[i] = content[i]
    BY <1>3 DEF FileInv, FilesTyped
  <2>3. StoredIsWhole'
    BY <1>1, <2>1, <2>2 DEF StoredIsWhole, FileInv, FilesTyped
  <2>4. PortStep
    BY <1>1, <2>1, <2>2, SameFiles DEF PortStep, FileInv, FilesTyped
  <2>5. QED  BY <2>3, <2>4, <1>7, <1>8, <1>9 DEF Step, FileInv
<1>12. QED  BY <1>2, <1>10, <1>11 DEF Busy
LEMMA RestingTyped == Resting \in Saver
BY DEF Resting, Saver

\* What a process that has written everything has written.
LEMMA WrittenWhole ==
  ASSUME FileInv, NEW s, Savers = {s}, saver[s].onto # "none", saver[s].written = Parts
  PROVE  /\ saver[s].of \in Artifacts /\ content[saver[s].fd] = Whole(saver[s].of)
         /\ saver[s].fd \in Inodes
         /\ saver[s].onto = "tmp" => tmp = saver[s].fd
         /\ saver[s].onto = "path" => path = saver[s].fd
BY WholeIsPrefix DEF FileInv, Busy, Resting

LEMMA ReplaceSteps == ASSUME FileInv, NEW s, Savers = {s}, Replace(s) PROVE Step
<1>1. /\ saver[s].onto = "tmp" /\ saver[s].written = Parts
      /\ path' = tmp /\ tmp # Nothing /\ tmp' = Nothing /\ damaged' = FALSE
      /\ saver' = [saver EXCEPT ![s] = Resting] /\ UNCHANGED <<content, durable, reader>>
  BY DEF Replace
<1>2. saver[s].of \in Artifacts /\ content[tmp] = Whole(saver[s].of)
  BY <1>1, WrittenWhole
<1>3. FilesTyped' /\ saver'[s] = Resting
  BY <1>1, RestingTyped DEF FileInv, FilesTyped
<1>4. Apart' /\ StoredIsWhole'
  BY <1>1, <1>2 DEF Apart, StoredIsWhole
<1>5. PortStep
  BY <1>1, <1>2, Saved DEF FileInv
<1>6. QED  BY <1>3, <1>4, <1>5 DEF Step, FileInv

LEMMA RestoreCloseSteps == ASSUME FileInv, NEW s, Savers = {s}, RestoreClose(s) PROVE Step
<1>1. /\ saver[s].onto = "path" /\ saver[s].written = Parts /\ damaged' = FALSE
      /\ saver' = [saver EXCEPT ![s] = Resting]
      /\ UNCHANGED <<path, tmp, content, durable, reader>>
  BY DEF RestoreClose, Leave
<1>2. saver[s].of \in Artifacts /\ content[path] = Whole(saver[s].of) /\ path \in Inodes
  BY <1>1, WrittenWhole
<1>3. FilesTyped' /\ saver'[s] = Resting
  BY <1>1, RestingTyped DEF FileInv, FilesTyped
<1>4. Apart' /\ StoredIsWhole'
  BY <1>1, <1>2 DEF Apart, StoredIsWhole, FileInv
<1>5. PortStep
  BY <1>1, <1>2, Saved DEF FileInv
<1>6. QED  BY <1>3, <1>4, <1>5 DEF Step, FileInv

LEMMA AbortSteps == ASSUME FileInv, NEW s, Savers = {s}, Abort(s) PROVE Step
<1>1. /\ saver' = [saver EXCEPT ![s] = Resting]
      /\ UNCHANGED <<path, tmp, content, durable, reader, damaged>>
  BY DEF Abort, Leave
<1>2. FilesTyped' /\ saver'[s] = Resting
  BY <1>1, RestingTyped DEF FileInv, FilesTyped
<1>3. Apart' /\ StoredIsWhole'
  BY <1>1 DEF Apart, StoredIsWhole, FileInv
<1>4. PortStep
  BY <1>1, SameFiles DEF PortStep, FileInv
<1>5. QED  BY <1>2, <1>3, <1>4 DEF Step, FileInv
-----------------------------------------------------------------------------
(***************************************************************************)
(* Loads and the operating system.                                         *)
(***************************************************************************)
LEMMA BusyStays ==
  ASSUME FileInv, UNCHANGED <<path, tmp, content, saver, damaged>>
  PROVE  \A s \in Savers : saver'[s] = Resting \/ Busy(saver[s])'
BY DEF FileInv, Busy

LEMMA LoadSteps ==
  ASSUME FileInv, NEW r \in Readers, LoadOpen(r) \/ LoadClose(r)
  PROVE  Step
<1>1. UNCHANGED <<path, tmp, content, durable, saver, damaged>>
  BY DEF LoadOpen, LoadClose
<1>2. PICK i \in {path, Nothing} : reader' = [reader EXCEPT ![r] = i]
  BY DEF LoadOpen, LoadClose
<1>3. FilesTyped' /\ Apart'
  BY <1>1, <1>2 DEF FileInv, FilesTyped, Apart
<1>4. StoredIsWhole'
  BY <1>1 DEF FileInv, StoredIsWhole
<1>5. \A x : ArtifactIn(x)' = IF x' = Nothing THEN Nothing ELSE Found(content[x'])
  BY <1>1 DEF ArtifactIn
<1>6. Value' = Value
  BY <1>1 DEF Value, ArtifactIn
<1>7. Seen' = [Seen EXCEPT ![r] = ArtifactIn(i)]
  BY <1>1, <1>2 DEF Seen, ArtifactIn, FileInv, FilesTyped
<1>8. CASE i = Nothing
  <2>1. Port!Leave(r)
    BY <1>1, <1>6, <1>7, <1>8 DEF Port!Leave, Value, Seen, ArtifactIn
  <2>2. PortStep
    BY <2>1 DEF PortStep, Port!Next
  <2>3. QED  BY <1>1, <1>3, <1>4, <2>2, BusyStays DEF Step, FileInv
<1>9. CASE i = path /\ i # Nothing
  <2>1. Value # Nothing
    BY <1>9, FoundTyped, HoleAssumption DEF Value, ArtifactIn
  <2>2. Port!Load(r)
    BY <1>1, <1>6, <1>7, <1>9, <2>1 DEF Port!Load, Value, Seen
  <2>3. PortStep
    BY <2>2 DEF PortStep, Port!Next
  <2>4. QED  BY <1>1, <1>3, <1>4, <2>3, BusyStays DEF Step, FileInv
<1>10. QED  BY <1>2, <1>8, <1>9

LEMMA WriteBackSteps == ASSUME FileInv, NEW i \in Inodes, WriteBack(i) PROVE Step
<1>1. /\ durable' = [durable EXCEPT ![i] = Len(content[i])]
      /\ UNCHANGED <<path, tmp, content, saver, reader, damaged>>
  BY DEF WriteBack
<1>2. Len(content[i]) \in Nat
  BY DEF FileInv, FilesTyped
<1>3. FilesTyped'
  BY <1>1, <1>2 DEF FileInv, FilesTyped
<1>4. Apart' /\ StoredIsWhole'
  BY <1>1 DEF Apart, StoredIsWhole, FileInv
<1>5. PortStep
  BY <1>1, SameFiles DEF PortStep, FileInv
<1>6. QED  BY <1>1, <1>3, <1>4, <1>5, BusyStays DEF Step, FileInv

LEMMA PowerLossSteps == ASSUME FileInv, PowerLoss PROVE Step
<1>1. /\ content' = [i \in Inodes |-> SubSeq(content[i], 1, durable[i])]
      /\ saver' = [s \in Savers |-> Resting] /\ reader' = [r \in Readers |-> Nothing]
      /\ damaged' = (damaged \/ (path # Nothing /\ durable[path] < Len(content[path])))
      /\ UNCHANGED <<path, tmp, durable>>
  BY DEF PowerLoss
<1>2. \A i \in Inodes : content'[i] \in Seq(Part) /\ Len(content'[i]) = durable[i]
  <2>1. SUFFICES ASSUME NEW i \in Inodes
                 PROVE  SubSeq(content[i], 1, durable[i]) \in Seq(Part)
                        /\ Len(SubSeq(content[i], 1, durable[i])) = durable[i]
    BY <1>1
  <2>2. /\ content[i] \in Seq(Part) /\ Len(content[i]) \in Nat
        /\ durable[i] \in Nat /\ durable[i] <= Len(content[i])
    BY DEF FileInv, FilesTyped
  <2>3. \A k \in 1..durable[i] : content[i][k] \in Part
    BY <2>2
  <2>4. QED  BY <2>2, <2>3, SubSeqProperties
<1>3. FilesTyped'
  BY <1>1, <1>2, RestingTyped DEF FileInv, FilesTyped
<1>4. Apart' /\ \A s \in Savers : saver'[s] = Resting
  BY <1>1 DEF Apart, FileInv
<1>5. CASE damaged' = TRUE
  BY <1>3, <1>4, <1>5, InPlace DEF Step, FileInv, StoredIsWhole
<1>6. CASE damaged' = FALSE
  <2>1. ~damaged /\ damaged = FALSE /\ (path # Nothing => ~(durable[path] < Len(content[path])))
    <3>1. damaged \in BOOLEAN
      BY DEF FileInv, FilesTyped
    <3>2. QED  BY <1>1, <1>6, <3>1
  <2>2. ASSUME path # Nothing PROVE content'[path] = content[path]
    <3>1. /\ path \in Inodes /\ content[path] \in Seq(Part)
          /\ durable[path] \in Nat /\ durable[path] <= Len(content[path])
      BY <2>2 DEF FileInv, FilesTyped
    <3>2. durable[path] = Len(content[path])
      BY <2>1, <2>2, <3>1
    <3>3. content'[path] = SubSeq(content[path], 1, Len(content[path]))
      BY <1>1, <3>1, <3>2
    <3>4. QED  BY <3>1, <3>3
  <2>3. StoredIsWhole'
    BY <1>1, <2>1, <2>2 DEF StoredIsWhole, FileInv
  <2>4. Value' = Value /\ Seen' = [r \in Readers |-> Nothing]
    BY <1>1, <2>2 DEF Value, Seen, ArtifactIn
  <2>5. Port!Restart
    BY <1>6, <2>1, <2>4 DEF Port!Restart, Port!NoLoads, Value, Seen
  <2>6. PortStep
    BY <2>5 DEF PortStep, Port!Next
  <2>7. QED  BY <1>3, <1>4, <2>3, <2>6 DEF Step, FileInv
<1>7. QED  BY <1>3, <1>5, <1>6 DEF FilesTyped
-----------------------------------------------------------------------------
LEMMA FileStep == ASSUME FileInv, NEW s, Savers = {s}, [Next]_vars PROVE Step
<1>1. CASE UNCHANGED vars
  <2>1. UNCHANGED <<path, tmp, content, durable, saver, reader, damaged>>
    BY <1>1 DEF vars
  <2>2. FilesTyped' /\ Apart' /\ StoredIsWhole'
    BY <2>1 DEF FileInv, FilesTyped, Apart, StoredIsWhole
  <2>3. PortStep
    BY <2>1, SameFiles DEF PortStep, FileInv
  <2>4. QED  BY <2>1, <2>2, <2>3, BusyStays DEF Step, FileInv
<1>2. QED
  BY <1>1, OpenTmpSteps, RestoreOpenSteps, WriteSteps, ReplaceSteps, RestoreCloseSteps, AbortSteps,
     LoadSteps, WriteBackSteps, PowerLossSteps DEF Next

LEMMA FileStart == Init => FileInv /\ Port!Init
<1>1. ASSUME Init PROVE FileInv
  <2>1. <<>> \in Seq(Part) /\ Len(<<>>) = 0
    OBVIOUS
  <2>2. FilesTyped
    <3>1. saver \in [Savers -> Saver]
      BY <1>1, RestingTyped DEF Init
    <3>2. content \in [Inodes -> Seq(Part)] /\ \A i \in Inodes : durable[i] <= Len(content[i])
      BY <1>1, <2>1 DEF Init
    <3>3. QED  BY <1>1, <3>1, <3>2 DEF Init, FilesTyped
  <2>3. QED  BY <1>1, <2>2 DEF Init, FileInv, Apart, StoredIsWhole
<1>2. ASSUME Init PROVE Port!Init
  BY <1>2 DEF Init, Port!Init, Port!NoLoads, ArtifactIn
<1>3. QED  BY <1>1, <1>2

LEMMA FileAlways ==
  ASSUME NEW s, Savers = {s}
  PROVE  Spec => []FileInv /\ [][Port!Next]_<<Value, Seen, damaged>>
<1>1. FileInv /\ [Next]_vars => FileInv' /\ [Port!Next]_<<Value, Seen, damaged>>
  BY FileStep DEF Step, PortStep
<1>2. QED  BY <1>1, FileStart, PTL DEF Spec

\* "Atomic write via temp-file + replace" (FileVaultRepository.save): with one process
\* saving, what is at the path is one artifact from beginning to end.
THEOREM StoredWhole == ASSUME NEW s, Savers = {s} PROVE Spec => []StoredIsWhole
<1>1. FileInv => StoredIsWhole
  BY DEF FileInv
<1>2. QED  BY <1>1, FileAlways, PTL

\* And to the services (load, save, restore) that is one atomic value, whichever of the
\* repository's steps a load, a kill or a power cut falls between.
THEOREM ImplementsPort == ASSUME NEW s, Savers = {s} PROVE Spec => SavesAndLoadsAreAtomic
<1>1. Spec => [][Port!Next]_<<Value, Seen, damaged>>
  BY FileAlways, PTL
<1>2. QED  BY <1>1, FileStart, PTL DEF Spec, SavesAndLoadsAreAtomic, Port!Spec, Value, Seen
=============================================================================
