--------------------------- MODULE CacheStoreProofs ---------------------------
(***************************************************************************)
(* What the writes of the cache keep, for any processes, values and cap.   *)
(***************************************************************************)
EXTENDS CacheStore, SequenceTheorems, TLAPS

\* What may stand under a name of path p.
Bytes(p) == {Absent, Truncated, Torn} \cup {Whole(l) : l \in Lists[p]}

FilesTyped ==
  /\ users \subseteq Procs
  /\ file \in [Paths -> [Names -> UNION {Bytes(p) : p \in Paths}]]
  /\ \A p \in Paths, n \in Names : file[p][n] \in Bytes(p)

WritersTyped ==
  /\ pc \in [Procs -> {"idle", "open", "write", "rename"}]
  /\ path \in [Procs -> Paths]
  /\ fd \in [Procs -> Names \cup {"none", "gone"}]
  /\ DOMAIN buf = Procs

\* A process that writes, writes something sound.
SoundToWrite == \A q \in Procs : pc[q] # "idle" => buf[q] \in Lists[path[q]]

\* Nobody writes but the users, and who has no file open is not between the open
\* and the write.
UsersWrite ==
  \A q \in Procs : /\ pc[q] # "idle" => q \in users
                   /\ pc[q] = "write" <=> fd[q] # "none"

\* What a lone writer finds where it left off: its own temporary file.
LoneWriterHasItsFile ==
  Alone => \A q \in Procs :
    /\ pc[q] = "write"  => fd[q] = "tmp" /\ file[path[q]]["tmp"] = Truncated
    /\ pc[q] = "rename" => file[path[q]]["tmp"] = Whole(buf[q])

\* What one process means to make of the file it read.
Derived(p, old, new) ==
  \/ p = "specs" /\ old = <<>> /\ \E s \in Suites : new = <<s>>
  \/ p = "solutions" /\ \E e \in Entries : new = <<e>>
  \/ p = "failures" /\ \E f \in Forms : ~Known(old, f) /\ new = Trimmed(Append(old, f))

LoneWriterReadTheLatest ==
  Alone => \A q \in Procs : pc[q] # "idle" => Derived(path[q], Read(path[q]), buf[q])

IInv == /\ FilesTyped /\ WritersTyped /\ SoundToWrite /\ UsersWrite
        /\ LoneWriterNeverTears /\ LoneWriterHasItsFile /\ LoneWriterReadTheLatest

-----------------------------------------------------------------------------
\* The three kinds of contents are told apart by their state.
LEMMA BytesApart ==
  ASSUME NEW l
  PROVE  /\ Whole(l).st = "whole" /\ Whole(l).list = l
         /\ Whole(l) \notin {Absent, Truncated, Torn}
         /\ \A b \in {Absent, Truncated, Torn} : b.st # "whole" /\ b.list = <<>>
         /\ Absent.st = "absent" /\ Truncated.st = "empty" /\ Torn.st = "torn"
         /\ Absent # Truncated /\ Absent # Torn /\ Truncated # Torn
BY DEF Whole, Absent, Truncated, Torn

\* What a reader gets of a sound file is nothing or a sound list.
LEMMA ReadIsSound ==
  ASSUME IInv, NEW p \in Paths
  PROVE  /\ file[p]["json"].st = "whole" => Read(p) \in Lists[p]
         /\ file[p]["json"].st # "whole" => Read(p) = <<>>
<1>1. file[p]["json"] \in Bytes(p)
  BY DEF IInv, FilesTyped, Names
<1>2. CASE file[p]["json"] \in {Absent, Truncated, Torn}
  BY <1>2, BytesApart DEF Read
<1>3. CASE \E l \in Lists[p] : file[p]["json"] = Whole(l)
  BY <1>3, BytesApart DEF Read
<1> QED BY <1>1, <1>2, <1>3 DEF Bytes

\* Forms up to the cap, each once.
Distinct == {l \in Seq(Forms) : /\ Len(l) \in 0..Cap
                                /\ \A i, j \in DOMAIN l : l[i] = l[j] => i = j}

\* The sound lists of each path.
LEMMA ListsApart ==
  /\ Lists["specs"] = {<<s>> : s \in Suites}
  /\ Lists["solutions"] = {<<e>> : e \in Entries}
  /\ Lists["failures"] = {l \in Seq(Forms) :
                            /\ Len(l) \in 1..Cap
                            /\ \A i, j \in DOMAIN l : l[i] = l[j] => i = j}
BY DEF Lists

\* AddFailure makes a sound list of a sound list, however full it is.
LEMMA TrimmedIsSound ==
  ASSUME NEW old \in Distinct, NEW f \in Forms, ~Known(old, f)
  PROVE  Trimmed(Append(old, f)) \in Lists["failures"]
<1> DEFINE new == Append(old, f)
           n   == Len(old)
<1>1. /\ new \in Seq(Forms) /\ Len(new) = n + 1 /\ n \in Nat /\ n <= Cap
      /\ \A i \in 1..n : new[i] = old[i]
      /\ new[n + 1] = f
  BY AppendProperties DEF Distinct
<1>2. \A i, j \in 1..(n + 1) : new[i] = new[j] => i = j
  <2>1. \A i \in 1..n : old[i] # f
    BY <1>1 DEF Known, Distinct
  <2>2. \A i, j \in 1..n : old[i] = old[j] => i = j
    BY <1>1 DEF Distinct
  <2> QED BY <2>1, <2>2, <1>1
<1>3. CASE n + 1 <= Cap
  <2>1. Trimmed(new) = new
    BY <1>1, <1>3, StoreAssumption DEF Trimmed
  <2>2. DOMAIN new = 1..(n + 1)
    BY <1>1
  <2>3. n + 1 \in 1..Cap
    BY <1>1, <1>3, StoreAssumption
  <2> HIDE DEF new, n
  <2>4. new \in Lists["failures"]
    BY <2>2, <2>3, <1>1, <1>2, ListsApart
  <2> QED BY <2>1, <2>4 DEF new
<1>4. CASE n = Cap
  <2> DEFINE cut == SubSeq(new, 2, n + 1)
  <2>1. Trimmed(new) = cut
    BY <1>1, <1>4, StoreAssumption DEF Trimmed
  <2>2. /\ cut \in Seq(Forms) /\ Len(cut) = n
        /\ \A i \in 1..n : cut[i] = new[i + 1]
    <3>1. \A i \in 2..(n + 1) : new[i] \in Forms
      BY <1>1
    <3> QED BY <3>1, <1>1, <1>4, StoreAssumption, SubSeqProperties
  <2>3. \A i, j \in 1..n : cut[i] = cut[j] => i = j
    BY <2>2, <1>2, <1>1
  <2>4. DOMAIN cut = 1..n
    BY <2>2
  <2> HIDE DEF cut
  <2> QED BY <2>1, <2>2, <2>3, <2>4, <1>1, <1>4, StoreAssumption, ListsApart
<1>5. n + 1 <= Cap \/ n = Cap
  <2> HIDE DEF n
  <2> QED BY <1>1, StoreAssumption
<1> HIDE DEF n, new
<1> QED BY <1>3, <1>4, <1>5 DEF new

-----------------------------------------------------------------------------
LEMMA InitHolds == Init => IInv
<1> SUFFICES ASSUME Init PROVE IInv
  OBVIOUS
<1>1. FilesTyped
  BY DEF Init, FilesTyped, Bytes
<1>2. WritersTyped /\ SoundToWrite
  BY DEF Init, WritersTyped, SoundToWrite, Paths
<1>3. UsersWrite /\ LoneWriterHasItsFile /\ LoneWriterReadTheLatest
  BY DEF Init, UsersWrite, LoneWriterHasItsFile, LoneWriterReadTheLatest
<1>4. LoneWriterNeverTears
  BY BytesApart DEF Init, LoneWriterNeverTears, FilesAreNeverTorn, Names
<1> QED BY <1>1, <1>2, <1>3, <1>4 DEF IInv

\* A process that is called on to write a sound list.
LEMMA WriteKeeps ==
  ASSUME IInv, NEW q \in Procs, NEW p \in Paths, NEW list \in Lists[p],
         Derived(p, Read(p), list), Write(q, p, list)
  PROVE  IInv'
<1> USE DEF IInv
<1>1. /\ q \in users /\ pc[q] = "idle" /\ pc' = [pc EXCEPT ![q] = "open"]
      /\ path' = [path EXCEPT ![q] = p] /\ buf' = [buf EXCEPT ![q] = list]
      /\ users' = users /\ file' = file /\ fd' = fd
  BY DEF Write
<1>2. FilesTyped' /\ LoneWriterNeverTears'
  BY <1>1 DEF FilesTyped, LoneWriterNeverTears, FilesAreNeverTorn, Alone
<1>3. WritersTyped'
  BY <1>1 DEF WritersTyped
<1>4. SoundToWrite'
  BY <1>1 DEF SoundToWrite, WritersTyped
<1>5. UsersWrite'
  BY <1>1 DEF UsersWrite, WritersTyped
<1>6. LoneWriterHasItsFile'
  BY <1>1 DEF LoneWriterHasItsFile, WritersTyped, Alone
<1>7. LoneWriterReadTheLatest'
  BY <1>1 DEF LoneWriterReadTheLatest, WritersTyped, Alone, Read
<1> QED BY <1>2, <1>3, <1>4, <1>5, <1>6, <1>7

LEMMA PutSpecKeeps ==
  ASSUME IInv, NEW q \in Procs, PutSpec(q)
  PROVE  IInv'
<1>1. PICK s \in Suites : Write(q, "specs", <<s>>)
  BY DEF PutSpec
<1>2. <<s>> \in Lists["specs"] /\ Derived("specs", Read("specs"), <<s>>)
  BY ListsApart DEF PutSpec, Derived
<1> QED BY <1>1, <1>2, WriteKeeps DEF Paths

LEMMA PutSolutionKeeps ==
  ASSUME IInv, NEW q \in Procs, PutSolution(q)
  PROVE  IInv'
<1>1. PICK e \in Entries : Write(q, "solutions", <<e>>)
  BY DEF PutSolution
<1>2. <<e>> \in Lists["solutions"] /\ Derived("solutions", Read("solutions"), <<e>>)
  BY ListsApart DEF Derived
<1> QED BY <1>1, <1>2, WriteKeeps DEF Paths

LEMMA AddFailureKeeps ==
  ASSUME IInv, NEW q \in Procs, AddFailure(q)
  PROVE  IInv'
<1> DEFINE old == Read("failures")
<1>1. PICK f \in Forms : ~Known(old, f) /\ Write(q, "failures", Trimmed(Append(old, f)))
  BY DEF AddFailure
<1>2. old \in Distinct
  <2>1. <<>> \in Distinct
    BY StoreAssumption DEF Distinct
  <2>2. CASE old \in Lists["failures"]
    BY <2>2, ListsApart DEF Distinct
  <2> QED BY <2>1, <2>2, ReadIsSound DEF Paths
<1>3. Trimmed(Append(old, f)) \in Lists["failures"]
  BY <1>1, <1>2, TrimmedIsSound
<1>4. Derived("failures", old, Trimmed(Append(old, f)))
  BY <1>1 DEF Derived
<1> QED BY <1>1, <1>3, <1>4, WriteKeeps DEF Paths

\* While one process is alone, the others are idle.
LEMMA OthersIdle ==
  ASSUME IInv, Alone, NEW q \in Procs, pc[q] # "idle"
  PROVE  \A r \in Procs : pc[r] # "idle" => r = q
BY DEF IInv, UsersWrite, Alone

LEMMA OpenKeeps ==
  ASSUME IInv, NEW q \in Procs, Open(q)
  PROVE  IInv'
<1> USE DEF IInv
<1>1. /\ pc[q] = "open" /\ pc' = [pc EXCEPT ![q] = "write"]
      /\ fd' = [fd EXCEPT ![q] = "tmp"]
      /\ file' = [file EXCEPT ![path[q]]["tmp"] = Truncated]
      /\ users' = users /\ path' = path /\ buf' = buf
  BY DEF Open, Target
<1>2. path[q] \in Paths /\ "tmp" \in Names
  BY DEF WritersTyped, Names
<1>3. \A p \in Paths : file'[p]["json"] = file[p]["json"]
  BY <1>1, <1>2 DEF FilesTyped, Names
<1>4. file'[path[q]]["tmp"] = Truncated
  BY <1>1, <1>2 DEF FilesTyped
<1>5. FilesTyped'
  <2>1. Truncated \in Bytes(path[q])
    BY DEF Bytes
  <2>2. file' \in [Paths -> [Names -> UNION {Bytes(p) : p \in Paths}]]
    BY <2>1, <1>1, <1>2 DEF FilesTyped
  <2>3. \A p \in Paths, n \in Names : file'[p][n] \in Bytes(p)
    BY <2>1, <1>1, <1>2 DEF FilesTyped
  <2> QED BY <2>2, <2>3, <1>1 DEF FilesTyped
<1>6. WritersTyped' /\ SoundToWrite'
  BY <1>1, <1>2 DEF WritersTyped, SoundToWrite
<1>7. UsersWrite'
  BY <1>1 DEF UsersWrite, WritersTyped
<1>8. LoneWriterNeverTears'
  BY <1>1, <1>3 DEF LoneWriterNeverTears, FilesAreNeverTorn, Alone
<1>9. LoneWriterHasItsFile'
  BY <1>1, <1>4, OthersIdle DEF LoneWriterHasItsFile, WritersTyped, Alone
<1>10. LoneWriterReadTheLatest'
  BY <1>1, <1>3 DEF LoneWriterReadTheLatest, WritersTyped, Alone, Read
<1> QED BY <1>5, <1>6, <1>7, <1>8, <1>9, <1>10

LEMMA KillKeeps ==
  ASSUME IInv, NEW q \in Procs, Kill(q)
  PROVE  IInv'
<1> USE DEF IInv
<1>1. /\ pc' = [pc EXCEPT ![q] = "idle"] /\ fd' = [fd EXCEPT ![q] = "none"]
      /\ users' = users /\ file' = file /\ path' = path /\ buf' = buf
  BY DEF Kill
<1>2. FilesTyped' /\ LoneWriterNeverTears'
  BY <1>1 DEF FilesTyped, LoneWriterNeverTears, FilesAreNeverTorn, Alone
<1>3. WritersTyped' /\ SoundToWrite'
  BY <1>1 DEF WritersTyped, SoundToWrite
<1>4. UsersWrite'
  BY <1>1 DEF UsersWrite, WritersTyped
<1>5. LoneWriterHasItsFile' /\ LoneWriterReadTheLatest'
  BY <1>1 DEF LoneWriterHasItsFile, LoneWriterReadTheLatest, WritersTyped, Alone, Read
<1> QED BY <1>2, <1>3, <1>4, <1>5

LEMMA FillKeeps ==
  ASSUME IInv, NEW q \in Procs, Fill(q)
  PROVE  IInv'
<1> USE DEF IInv
<1> DEFINE p == path[q]
<1>1. /\ pc[q] = "write" /\ pc' = [pc EXCEPT ![q] = "rename"]
      /\ fd' = [fd EXCEPT ![q] = "none"]
      /\ users' = users /\ path' = path /\ buf' = buf
  BY DEF Fill
<1>2. p \in Paths /\ fd[q] \in {"json", "tmp", "gone"} /\ buf[q] \in Lists[p]
  BY <1>1 DEF WritersTyped, UsersWrite, SoundToWrite, Names
<1>3. \/ fd[q] = "gone" /\ file' = file
      \/ /\ fd[q] \in Names
         /\ \E c \in {Whole(buf[q]), Torn} :
              /\ c = Torn => file[p][fd[q]].st # "empty"
              /\ file' = [file EXCEPT ![p][fd[q]] = c]
  BY <1>2 DEF Fill, Names
<1>4. Alone => /\ fd[q] = "tmp"
               /\ file' = [file EXCEPT ![p]["tmp"] = Whole(buf[q])]
  <2> SUFFICES ASSUME Alone
               PROVE  fd[q] = "tmp" /\ file' = [file EXCEPT ![p]["tmp"] = Whole(buf[q])]
    OBVIOUS
  <2>1. fd[q] = "tmp" /\ file[p]["tmp"].st = "empty"
    BY <1>1, BytesApart DEF LoneWriterHasItsFile
  <2> QED BY <2>1, <1>3
<1>5. FilesTyped'
  <2>1. CASE fd[q] = "gone" /\ file' = file
    BY <2>1, <1>1 DEF FilesTyped
  <2>2. CASE fd[q] \in Names /\ \E c \in {Whole(buf[q]), Torn} : file' = [file EXCEPT ![p][fd[q]] = c]
    <3>1. PICK c \in {Whole(buf[q]), Torn} : file' = [file EXCEPT ![p][fd[q]] = c]
      BY <2>2
    <3>2. c \in Bytes(p)
      BY <1>2 DEF Bytes
    <3>3. file' \in [Paths -> [Names -> UNION {Bytes(r) : r \in Paths}]]
      BY <2>2, <3>1, <3>2, <1>2 DEF FilesTyped
    <3>4. \A r \in Paths, n \in Names : file'[r][n] \in Bytes(r)
      BY <2>2, <3>1, <3>2, <1>2 DEF FilesTyped
    <3> QED BY <3>3, <3>4, <1>1 DEF FilesTyped
  <2> QED BY <2>1, <2>2, <1>3
<1>6. WritersTyped' /\ SoundToWrite'
  BY <1>1 DEF WritersTyped, SoundToWrite
<1>7. UsersWrite'
  BY <1>1 DEF UsersWrite, WritersTyped
<1>8. Alone => \A r \in Paths : file'[r]["json"] = file[r]["json"]
  <2> SUFFICES ASSUME Alone, NEW r \in Paths PROVE file'[r]["json"] = file[r]["json"]
    OBVIOUS
  <2>1. file' = [file EXCEPT ![p]["tmp"] = Whole(buf[q])]
    BY <1>4
  <2>2. file[r] \in [Names -> UNION {Bytes(x) : x \in Paths}] /\ DOMAIN file = Paths
    BY DEF FilesTyped
  <2> QED BY <2>1, <2>2, <1>2 DEF Names
<1>9. LoneWriterNeverTears'
  BY <1>1, <1>8 DEF LoneWriterNeverTears, FilesAreNeverTorn, Alone
<1>10. LoneWriterHasItsFile'
  <2> SUFFICES ASSUME Alone', NEW r \in Procs
               PROVE  /\ pc'[r] = "write"  => fd'[r] = "tmp" /\ file'[path'[r]]["tmp"] = Truncated
                      /\ pc'[r] = "rename" => file'[path'[r]]["tmp"] = Whole(buf'[r])
    BY DEF LoneWriterHasItsFile
  <2>1. Alone
    BY <1>1 DEF Alone
  <2>2. file'[p]["tmp"] = Whole(buf[q])
    BY <2>1, <1>4, <1>2 DEF FilesTyped, Names
  <2>3. r # q => pc'[r] = "idle"
    BY <2>1, <1>1, OthersIdle DEF WritersTyped
  <2> QED BY <2>2, <2>3, <1>1 DEF WritersTyped
<1>11. LoneWriterReadTheLatest'
  BY <1>1, <1>2, <1>8 DEF LoneWriterReadTheLatest, WritersTyped, Alone, Read
<1> QED BY <1>5, <1>6, <1>7, <1>9, <1>10, <1>11

LEMMA RenameKeeps ==
  ASSUME IInv, NEW q \in Procs, Rename(q)
  PROVE  IInv'
<1> USE DEF IInv
<1> DEFINE p == path[q]
<1>1. /\ pc[q] = "rename" /\ pc' = [pc EXCEPT ![q] = "idle"]
      /\ users' = users /\ path' = path /\ buf' = buf
  BY DEF Rename
<1>2. p \in Paths /\ fd[q] = "none"
  BY <1>1 DEF WritersTyped, UsersWrite
<1>3. CASE file[p]["tmp"] = Absent
  <2>1. file' = file /\ fd' = fd
    BY <1>3 DEF Rename
  <2>2. FilesTyped' /\ LoneWriterNeverTears' /\ WritersTyped' /\ SoundToWrite'
    BY <2>1, <1>1 DEF FilesTyped, LoneWriterNeverTears, FilesAreNeverTorn, Alone,
                      WritersTyped, SoundToWrite
  <2>3. UsersWrite' /\ LoneWriterHasItsFile' /\ LoneWriterReadTheLatest'
    BY <2>1, <1>1 DEF UsersWrite, LoneWriterHasItsFile, LoneWriterReadTheLatest,
                      WritersTyped, Alone, Read
  <2> QED BY <2>2, <2>3
<1>4. CASE file[p]["tmp"] # Absent
  <2>1. /\ file' = [file EXCEPT ![p] =
                      [n \in Names |-> IF n = "json" THEN file[p]["tmp"] ELSE Absent]]
        /\ fd' = [r \in Procs |->
                    IF path[r] # p THEN fd[r]
                    ELSE CASE fd[r] = "tmp"  -> "json"
                           [] fd[r] = "json" -> "gone"
                           [] OTHER -> fd[r]]
    BY <1>4 DEF Rename
  <2>2. /\ file'[p]["json"] = file[p]["tmp"] /\ file'[p]["tmp"] = Absent
        /\ \A r \in Paths \ {p} : file'[r] = file[r]
        /\ file' \in [Paths -> [Names -> UNION {Bytes(r) : r \in Paths}]]
    <3> DEFINE B == UNION {Bytes(r) : r \in Paths}
    <3>1. file \in [Paths -> [Names -> B]] /\ Absent \in B
      BY <1>2 DEF FilesTyped, Bytes
    <3> HIDE DEF B
    <3>2. file[p]["tmp"] \in B
      BY <3>1, <1>2 DEF Names
    <3> DEFINE g == [n \in Names |-> IF n = "json" THEN file[p]["tmp"] ELSE Absent]
    <3>3. g["json"] = file[p]["tmp"] /\ g["tmp"] = Absent
      BY DEF Names
    <3>4. g \in [Names -> B]
      BY <3>1, <3>2
    <3>5. file' = [file EXCEPT ![p] = g]
      BY <2>1
    <3> HIDE DEF g
    <3>6. /\ file'[p] = g /\ file' \in [Paths -> [Names -> B]]
          /\ \A r \in Paths \ {p} : file'[r] = file[r]
      BY <3>1, <3>4, <3>5, <1>2
    <3> QED BY <3>3, <3>6 DEF B
  <2>3. FilesTyped'
    <3>1. Absent \in Bytes(p) /\ file[p]["tmp"] \in Bytes(p)
      BY <1>2 DEF FilesTyped, Bytes, Names
    <3>2. \A r \in Paths, n \in Names : file'[r][n] \in Bytes(r)
      BY <3>1, <2>2 DEF FilesTyped, Names
    <3> QED BY <3>2, <2>2, <1>1 DEF FilesTyped
  <2>4. /\ fd' \in [Procs -> Names \cup {"none", "gone"}]
        /\ \A r \in Procs : fd'[r] # "none" <=> fd[r] # "none"
    BY <2>1 DEF WritersTyped, Names
  <2>5. WritersTyped' /\ SoundToWrite'
    BY <2>4, <1>1 DEF WritersTyped, SoundToWrite
  <2>6. UsersWrite'
    BY <2>4, <1>1 DEF UsersWrite, WritersTyped
  <2>7. Alone' => \A r \in Procs : pc'[r] = "idle"
    BY <1>1, OthersIdle DEF WritersTyped, Alone
  <2>8. LoneWriterHasItsFile' /\ LoneWriterReadTheLatest'
    BY <2>7 DEF LoneWriterHasItsFile, LoneWriterReadTheLatest
  <2>9. LoneWriterNeverTears'
    <3> SUFFICES ASSUME Alone' PROVE \A r \in Paths : file'[r]["json"].st \in {"absent", "whole"}
      BY DEF LoneWriterNeverTears, FilesAreNeverTorn
    <3>1. Alone
      BY <1>1 DEF Alone
    <3>2. file'[p]["json"].st = "whole"
      BY <3>1, <2>2, <1>1, BytesApart DEF LoneWriterHasItsFile
    <3> QED BY <3>1, <3>2, <2>2 DEF LoneWriterNeverTears, FilesAreNeverTorn
  <2> QED BY <2>3, <2>5, <2>6, <2>8, <2>9
<1> QED BY <1>3, <1>4

LEMMA NextKeeps == IInv /\ [Next]_vars => IInv'
<1> SUFFICES ASSUME IInv, [Next]_vars PROVE IInv'
  OBVIOUS
<1>1. CASE UNCHANGED vars
  BY <1>1 DEF vars, IInv, FilesTyped, WritersTyped, SoundToWrite, UsersWrite,
              LoneWriterNeverTears, FilesAreNeverTorn, LoneWriterHasItsFile,
              LoneWriterReadTheLatest, Alone, Read
<1> QED BY <1>1, PutSpecKeeps, PutSolutionKeeps, AddFailureKeeps, OpenKeeps, FillKeeps,
           RenameKeeps, KillKeeps DEF Next

-----------------------------------------------------------------------------
LEMMA Invariance == Spec => []IInv
BY InitHolds, NextKeeps, PTL DEF Spec

\* Whatever can be read under the name of a file was meant by one writer, however
\* many write and wherever they are killed.
THEOREM ReadersAreSafe == Spec => []WholeFilesAreSound
<1>1. IInv => WholeFilesAreSound
  BY ReadIsSound DEF WholeFilesAreSound
<1> QED BY <1>1, Invariance, PTL

\* One process at a time, killed anywhere and started again, leaves no torn file
\* under the name of an entry.
THEOREM OneWriterIsEnough == Spec => []LoneWriterNeverTears
<1>1. IInv => LoneWriterNeverTears
  BY DEF IInv
<1> QED BY <1>1, Invariance, PTL

\* Opening and filling the temporary file changes nothing that can be read.
LEMMA ReadersSeeNothingYet ==
  ASSUME IInv, Alone, NEW q \in Procs, Open(q) \/ Fill(q)
  PROVE  contents' = contents
<1> USE DEF IInv
<1>1. path[q] \in Paths
  BY DEF WritersTyped
<1>2. CASE Open(q)
  <2>1. file' = [file EXCEPT ![path[q]]["tmp"] = Truncated]
    BY <1>2 DEF Open, Target
  <2>2. \A r \in Paths : file'[r]["json"] = file[r]["json"]
    BY <2>1, <1>1 DEF FilesTyped, Names
  <2> QED BY <2>2 DEF contents, Read
<1>3. CASE Fill(q)
  <2>1. pc[q] = "write" /\ fd[q] = "tmp"
    BY <1>3 DEF Fill, LoneWriterHasItsFile
  <2>2. PICK c : file' = [file EXCEPT ![path[q]]["tmp"] = c]
    BY <2>1, <1>3 DEF Fill
  <2>3. \A r \in Paths : file'[r]["json"] = file[r]["json"]
    BY <2>2, <1>1 DEF FilesTyped, Names
  <2> QED BY <2>3 DEF contents, Read
<1> QED BY <1>2, <1>3

\* What was meant for a file that has not changed since is a step of the store.
LEMMA DerivedIsAStep ==
  ASSUME NEW p \in Paths, NEW list, Derived(p, Read(p), list),
         Read("failures") \in Seq(Forms),
         contents' = [contents EXCEPT ![p] = list]
  PROVE  Store!Next
<1>1. contents[p] = Read(p) /\ contents["failures"] = Read("failures")
  BY DEF contents, Paths
<1>2. CASE p = "specs" /\ Read(p) = <<>> /\ \E s \in Suites : list = <<s>>
  <2>1. Store!Suite
    BY <1>1, <1>2 DEF Store!Suite, Store!Put
  <2> QED BY <2>1 DEF Store!Next
<1>3. CASE p = "solutions" /\ \E e \in Entries : list = <<e>>
  <2>1. Store!Entry
    BY <1>3 DEF Store!Entry, Store!Put
  <2> QED BY <2>1 DEF Store!Next
<1>4. CASE /\ p = "failures"
           /\ \E f \in Forms : ~Known(Read(p), f) /\ list = Trimmed(Append(Read(p), f))
  <2> DEFINE old == Read("failures")
  <2>1. PICK f \in Forms : ~Known(old, f) /\ list = Trimmed(Append(old, f))
    BY <1>4
  <2>2. Len(Append(old, f)) = Len(old) + 1 /\ Len(old) \in Nat
    BY AppendProperties
  <2>3. list = IF Len(old) < Cap THEN Append(old, f)
               ELSE SubSeq(Append(old, f), Len(old) + 2 - Cap, Len(old) + 1)
    <3>1. Len(old) + 1 > Cap <=> ~(Len(old) < Cap)
      BY <2>2, StoreAssumption
    <3>2. Len(old) + 1 - Cap + 1 = Len(old) + 2 - Cap
      BY <2>2, StoreAssumption
    <3> DEFINE new == Append(old, f)
    <3>3. list = IF Len(new) > Cap THEN SubSeq(new, Len(new) - Cap + 1, Len(new)) ELSE new
      BY <2>1 DEF Trimmed
    <3>4. Len(new) = Len(old) + 1
      BY <2>2
    <3> HIDE DEF old, new
    <3>5. CASE Len(old) < Cap
      BY <3>1, <3>3, <3>4, <3>5 DEF new
    <3>6. CASE ~(Len(old) < Cap)
      <4>1. list = SubSeq(new, Len(new) - Cap + 1, Len(new))
        BY <3>1, <3>3, <3>4, <3>6
      <4>2. Len(new) - Cap + 1 = Len(old) + 2 - Cap
        BY <3>4, <2>2, StoreAssumption
      <4>3. list = SubSeq(new, Len(old) + 2 - Cap, Len(old) + 1)
        BY <4>1, <4>2, <3>4, Zenon
      <4> QED BY <4>3, <3>6 DEF new
    <3> QED BY <3>5, <3>6
  <2>4. \A i \in DOMAIN old : old[i] # f
    BY <2>1 DEF Known
  <2> HIDE DEF old
  <2>5. Store!Refuted
    BY <2>3, <2>4, <1>1, <1>4 DEF Store!Refuted, Store!Put, old
  <2> QED BY <2>5 DEF Store!Next
<1> QED BY <1>2, <1>3, <1>4 DEF Derived

\* A lone writer's rename publishes what it meant to write.
LEMMA RenameIsAStep ==
  ASSUME IInv, Alone, NEW q \in Procs, Rename(q)
  PROVE  Store!Next
<1> USE DEF IInv
<1> DEFINE p == path[q]
<1>1. pc[q] = "rename" /\ p \in Paths
  BY DEF Rename, WritersTyped
<1>2. file[p]["tmp"] = Whole(buf[q]) /\ Whole(buf[q]) # Absent
  BY <1>1, BytesApart DEF LoneWriterHasItsFile
<1>3. file' = [file EXCEPT ![p] =
                [n \in Names |-> IF n = "json" THEN file[p]["tmp"] ELSE Absent]]
  BY <1>2 DEF Rename
<1>4. /\ file'[p]["json"] = Whole(buf[q])
      /\ \A r \in Paths \ {p} : file'[r] = file[r]
  BY <1>1, <1>2, <1>3 DEF FilesTyped, Names
<1>5. contents' = [contents EXCEPT ![p] = buf[q]]
  <2>1. file'[p]["json"].list = buf[q]
    BY <1>4, BytesApart
  <2>2. \A r \in Paths \ {p} : file'[r]["json"].list = file[r]["json"].list
    BY <1>4
  <2>3. contents' = [r \in Paths |-> file'[r]["json"].list]
    BY DEF contents, Read
  <2> HIDE DEF p
  <2> QED BY <2>1, <2>2, <2>3, <1>1 DEF contents, Read
<1>6. Derived(p, Read(p), buf[q])
  BY <1>1 DEF LoneWriterReadTheLatest
<1>7. Read("failures") \in Seq(Forms)
  <2>1. Read("failures") = <<>> \/ Read("failures") \in Lists["failures"]
    BY ReadIsSound DEF Paths
  <2>2. Lists["failures"] \subseteq Seq(Forms) /\ <<>> \in Seq(Forms)
    BY ListsApart
  <2> QED BY <2>1, <2>2
<1> QED BY <1>1, <1>5, <1>6, <1>7, DerivedIsAStep

\* To its readers the directory is the atomic store, as long as one process at a
\* time writes to it.
THEOREM StoreIsAtomic == Spec => AtomicWhenAlone
<1>1. Init => Store!Init
  BY BytesApart DEF Init, Store!Init, contents, Read, Paths, Names
<1>2. IInv /\ [Next]_vars => [Alone => Store!Next]_contents
  <2> SUFFICES ASSUME IInv, [Next]_vars, Alone PROVE Store!Next \/ contents' = contents
    OBVIOUS
  <2>1. CASE file' = file
    BY <2>1 DEF contents, Read
  <2>2. CASE \E q \in Procs : Open(q) \/ Fill(q) \/ Rename(q)
    BY <2>2, ReadersSeeNothingYet, RenameIsAStep
  <2> QED BY <2>1, <2>2 DEF Next, vars, PutSpec, PutSolution, AddFailure, Write, Kill
<1>3. Spec => Store!Init
  BY <1>1, PTL DEF Spec
<1> QED BY <1>2, <1>3, Invariance, PTL DEF Spec, AtomicWhenAlone
=============================================================================
