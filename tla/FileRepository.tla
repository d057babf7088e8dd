--------------------------- MODULE FileRepository ---------------------------
(***************************************************************************)
(* FileVaultRepository: what a save and a load are made of.                *)
(*                                                                         *)
(* A save writes the artifact to "<path>.tmp" and renames that over the    *)
(* path.  The name of the temporary file is the same for every process,    *)
(* nothing is synced, and `aegisvault restore` copies a file straight onto *)
(* the path.  Files are inodes: a name refers to one, and a descriptor     *)
(* keeps the one it was opened on.                                         *)
(***************************************************************************)
EXTENDS Integers, Sequences, FiniteSets

CONSTANTS Artifacts,     \* what is saved
          Nothing,       \* there is no such file, nothing is open
          Savers,        \* processes that save
          Readers,       \* processes that load
          Inodes,        \* the file system's inodes, enough never to run out
          Parts,         \* writes that an artifact takes
          Restoring,     \* whether the command `restore` is used
          PowerFails     \* whether the machine loses power

ASSUME RepositoryAssumption ==
  /\ Nothing \notin Artifacts \cup Inodes
  /\ Parts \in Nat \ {0}
  /\ Restoring \in BOOLEAN
  /\ PowerFails \in BOOLEAN

VARIABLES
  path,      \* the inode of the vault's path
  tmp,       \* the inode of "<path>.tmp"
  content,   \* content[i]: the parts in inode i
  durable,   \* durable[i]: how many of them are on the medium
  saver,     \* saver[s]: artifact, descriptor, name it is written under, parts written
  reader,    \* reader[r]: the descriptor of a load
  damaged    \* history: a restore has begun, or a power cut has taken parts of the
             \* file at the path, and no save or restore has returned since

vars == <<path, tmp, content, durable, saver, reader, damaged>>

Hole == [of |-> Nothing, part |-> 0]
Part == [of : Artifacts, part : 1..Parts] \cup {Hole}
ASSUME HoleAssumption == Nothing # Hole

Whole(a) == [k \in 1..Parts |-> [of |-> a, part |-> k]]
Resting == [of |-> Nothing, fd |-> Nothing, onto |-> "none", written |-> 0]
Writing(a, i, name) == [of |-> a, fd |-> i, onto |-> name, written |-> 0]

TypeOK ==
  /\ path \in Inodes \cup {Nothing}
  /\ tmp \in Inodes \cup {Nothing}
  /\ tmp = path => tmp = Nothing
  /\ content \in [Inodes -> Seq(Part)]
  /\ durable \in [Inodes -> 0..Parts]
  /\ saver \in [Savers -> [of : Artifacts \cup {Nothing}, fd : Inodes \cup {Nothing},
                           onto : {"none", "tmp", "path"}, written : 0..Parts]]
  /\ reader \in [Readers -> Inodes \cup {Nothing}]
  /\ damaged \in BOOLEAN

Init ==
  /\ path = Nothing
  /\ tmp = Nothing
  /\ content = [i \in Inodes |-> <<>>]
  /\ durable = [i \in Inodes |-> 0]
  /\ saver = [s \in Savers |-> Resting]
  /\ reader = [r \in Readers |-> Nothing]
  /\ damaged = FALSE

Free(i) ==
  /\ i \notin {path, tmp}
  /\ \A s \in Savers : saver[s].fd # i
  /\ \A r \in Readers : reader[r] # i

Empty(i) ==
  /\ content' = [content EXCEPT ![i] = <<>>]
  /\ durable' = [durable EXCEPT ![i] = 0]

\* open(name, "w"): the inode of that name is cut to nothing, or a new one made.
Truncate(i, inode) ==
  /\ IF inode = Nothing THEN Free(i) ELSE i = inode
  /\ Empty(i)

\* Slip: the temporary file is the path itself.
OpenPath(s, a, i) ==
  /\ saver[s] = Resting
  /\ Truncate(i, path)
  /\ path' = i
  /\ tmp' = i
  /\ saver' = [saver EXCEPT ![s] = Writing(a, i, "tmp")]
  /\ UNCHANGED <<reader, damaged>>

OpenTmp(s, a, i) ==
  /\ saver[s] = Resting
  /\ Truncate(i, tmp)
  /\ tmp' = i
  /\ saver' = [saver EXCEPT ![s] = Writing(a, i, "tmp")]
  /\ UNCHANGED <<path, reader, damaged>>

\* A write at an offset beyond the end leaves a hole before it.
WriteAt(parts, k, part) ==
  [j \in 1..(IF k > Len(parts) THEN k ELSE Len(parts)) |->
     IF j = k THEN part ELSE IF j <= Len(parts) THEN parts[j] ELSE Hole]

Write(s) ==
  LET w == saver[s] IN
  /\ w.fd # Nothing
  /\ w.written < Parts
  /\ content' = [content EXCEPT ![w.fd] =
                   WriteAt(@, w.written + 1, [of |-> w.of, part |-> w.written + 1])]
  /\ saver' = [saver EXCEPT ![s].written = @ + 1]
  /\ UNCHANGED <<path, tmp, durable, reader, damaged>>

\* os.replace once everything is written and closed
Replace(s) ==
  /\ saver[s].onto = "tmp"
  /\ saver[s].written = Parts
  /\ tmp # Nothing
  /\ path' = tmp
  /\ tmp' = Nothing
  /\ saver' = [saver EXCEPT ![s] = Resting]
  /\ damaged' = FALSE
  /\ UNCHANGED <<content, durable, reader>>

Leave(s) ==
  /\ saver[s] # Resting
  /\ saver' = [saver EXCEPT ![s] = Resting]
  /\ UNCHANGED <<path, tmp, content, durable, reader>>

\* The process is killed, the write raises, or os.replace finds no file.
Abort(s) == Leave(s) /\ UNCHANGED damaged

\* shutil.copy2(backup, path), in place of a save
RestoreOpen(s, a, i) ==
  /\ Restoring
  /\ saver[s] = Resting
  /\ Truncate(i, path)
  /\ path' = i
  /\ saver' = [saver EXCEPT ![s] = Writing(a, i, "path")]
  /\ damaged' = TRUE
  /\ UNCHANGED <<tmp, reader>>

RestoreClose(s) ==
  /\ saver[s].onto = "path"
  /\ saver[s].written = Parts
  /\ Leave(s)
  /\ damaged' = FALSE

(***************************************************************************)
(* load(): open, then read to the end.                                     *)
(***************************************************************************)
LoadOpen(r) ==
  /\ reader[r] = Nothing
  /\ path # Nothing
  /\ reader' = [reader EXCEPT ![r] = path]
  /\ UNCHANGED <<path, tmp, content, durable, saver, damaged>>

LoadClose(r) ==
  /\ reader[r] # Nothing
  /\ reader' = [reader EXCEPT ![r] = Nothing]
  /\ UNCHANGED <<path, tmp, content, durable, saver, damaged>>

(***************************************************************************)
(* The operating system writes pages back in its own time.  Renames are    *)
(* journalled; the pages of a file that nobody synced may be lost.         *)
(***************************************************************************)
WriteBack(i) ==
  /\ PowerFails
  /\ durable[i] < Len(content[i])
  /\ durable' = [durable EXCEPT ![i] = Len(content[i])]
  /\ UNCHANGED <<path, tmp, content, saver, reader, damaged>>

PowerLoss ==
  /\ PowerFails
  /\ content' = [i \in Inodes |-> SubSeq(content[i], 1, durable[i])]
  /\ saver' = [s \in Savers |-> Resting]
  /\ reader' = [r \in Readers |-> Nothing]
  /\ damaged' = (damaged \/ (path # Nothing /\ durable[path] < Len(content[path])))
  /\ UNCHANGED <<path, tmp, durable>>

Next ==
  \/ \E s \in Savers :
       \/ \E a \in Artifacts, i \in Inodes : OpenTmp(s, a, i) \/ RestoreOpen(s, a, i)
       \/ Write(s)
       \/ Replace(s)
       \/ RestoreClose(s)
       \/ Abort(s)
  \/ \E r \in Readers : LoadOpen(r) \/ LoadClose(r)
  \/ \E i \in Inodes : WriteBack(i)
  \/ PowerLoss

Spec == Init /\ [][Next]_vars
-----------------------------------------------------------------------------
\* "Atomic write via temp-file + replace": whatever a process that dies leaves
\* behind, the file at the path holds one artifact from beginning to end, but
\* for a restore that was cut short and parts that a power cut took.
StoredIsWhole ==
  path # Nothing /\ ~damaged => \E a \in Artifacts : content[path] = Whole(a)

(***************************************************************************)
(* The port: with one process saving, a save is one step and a load sees   *)
(* the artifact that was stored when it opened the file, even if another   *)
(* replaces it before the file is read.                                    *)
(***************************************************************************)
Found(parts) ==
  CHOOSE a \in Artifacts \cup {Hole} :
    parts = Whole(a) \/ (a = Hole /\ \A b \in Artifacts : parts # Whole(b))

ArtifactIn(inode) == IF inode = Nothing THEN Nothing ELSE Found(content[inode])

Port == INSTANCE StoredValue
  WITH value <- ArtifactIn(path),
       seen  <- [r \in Readers |-> ArtifactIn(reader[r])],
       Torn  <- Hole

SavesAndLoadsAreAtomic == Port!Spec
=============================================================================
