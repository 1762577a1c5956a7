----------------------------- MODULE CacheStore -----------------------------
(***************************************************************************)
(* Inside the writes of internal/cache/cache.go: the three files that the  *)
(* processes working on one problem share, namely the suite of the         *)
(* problem, one admitted solution and the list of refuted forms.           *)
(*                                                                         *)
(* writeJSON writes path.tmp and renames it over path.  The temporary name *)
(* is the same for every process, nothing is locked, and callers drop the  *)
(* error.  A file is what its name leads to at the moment; a process that  *)
(* has it open keeps it through a rename.                                  *)
(***************************************************************************)
EXTENDS Integers, Sequences, FiniteSets

CONSTANTS
  Procs,    \* processes that may use the directory
  Suites,   \* generated suites
  Entries,  \* entries for one solution: they differ in score and tier
  Forms,    \* refuted canonical forms
  Cap,      \* 64 in the code
  MaxOps    \* bound on the number of writes begun

ASSUME StoreAssumption == Cap \in Nat \ {0} /\ MaxOps \in Nat

VARIABLES
  users,  \* the processes that use the directory in this behaviour
  file,   \* file[p][n]: what name n of path p leads to, "json" or "tmp"
  pc, path, buf,  \* each process: its next call, the path and the bytes it writes
  fd,     \* where the file it has open is found now
  begun   \* writes begun so far

vars == <<users, file, pc, path, buf, fd, begun>>

Paths == {"specs", "solutions", "failures"}
Names == {"json", "tmp"}

\* A file that is not there, one cut off by O_TRUNC, one whose bytes are those of
\* two writers, and one that holds what one writer wrote.
Absent      == [st |-> "absent", list |-> <<>>]
Truncated   == [st |-> "empty",  list |-> <<>>]
Torn        == [st |-> "torn",   list |-> <<>>]
Whole(list) == [st |-> "whole",  list |-> list]

\* readJSON: what cannot be read is as good as absent to every caller.
Read(p) == file[p]["json"].list

Init ==
  /\ users \in SUBSET Procs
  /\ file = [p \in Paths |-> [n \in Names |-> Absent]]
  /\ pc = [q \in Procs |-> "idle"] /\ path = [q \in Procs |-> "specs"]
  /\ buf = [q \in Procs |-> <<>>] /\ fd = [q \in Procs |-> "none"]
  /\ begun = 0

\* A writeJSON of list to path p is called for.
Write(q, p, list) ==
  /\ q \in users /\ pc[q] = "idle" /\ begun < MaxOps
  /\ pc' = [pc EXCEPT ![q] = "open"]
  /\ path' = [path EXCEPT ![q] = p]
  /\ buf' = [buf EXCEPT ![q] = list]
  /\ begun' = begun + 1
  /\ UNCHANGED <<users, file, fd>>

\* Router.spec: GetSpec finds nothing, a suite is generated and put.
PutSpec(q) ==
  /\ Read("specs") = <<>>
  /\ \E s \in Suites : Write(q, "specs", <<s>>)

PutSolution(q) == \E e \in Entries : Write(q, "solutions", <<e>>)

\* Bugs: duplicates are not looked for; one form too many is cut off.
KnownNever(fs, f) == FALSE
TrimmedShort(fs) == IF Len(fs) > Cap THEN SubSeq(fs, Len(fs) - Cap + 2, Len(fs)) ELSE fs

Known(fs, f) == \E i \in DOMAIN fs : fs[i] = f
Trimmed(fs) == IF Len(fs) > Cap THEN SubSeq(fs, Len(fs) - Cap + 1, Len(fs)) ELSE fs

\* AddFailure reads the list, and writes it back with the new form unless that is
\* there already.
AddFailure(q) ==
  \E f \in Forms :
    /\ ~Known(Read("failures"), f)
    /\ Write(q, "failures", Trimmed(Append(Read("failures"), f)))

\* Bug: the file is written in its place.
InPlace == "json"

\* The name writeJSON opens.
Target == "tmp"

\* os.WriteFile opens the temporary file, cutting off what was in it.
Open(q) ==
  /\ pc[q] = "open"
  /\ file' = [file EXCEPT ![path[q]][Target] = Truncated]
  /\ fd' = [fd EXCEPT ![q] = Target]
  /\ pc' = [pc EXCEPT ![q] = "write"]
  /\ UNCHANGED <<users, path, buf, begun>>

\* It writes from the start of whatever file it has open, and closes it.  The tail
\* of a longer list that another process wrote there meanwhile stays.
Fill(q) ==
  /\ pc[q] = "write"
  /\ IF fd[q] = "gone" THEN UNCHANGED file
     ELSE \E c \in {Whole(buf[q]), Torn} :
            /\ c = Torn => file[path[q]][fd[q]].st # "empty"
            /\ file' = [file EXCEPT ![path[q]][fd[q]] = c]
  /\ fd' = [fd EXCEPT ![q] = "none"]
  /\ pc' = [pc EXCEPT ![q] = "rename"]
  /\ UNCHANGED <<users, path, buf, begun>>

\* os.Rename fails when another process has renamed the file already.
Rename(q) ==
  /\ pc[q] = "rename"
  /\ IF file[path[q]]["tmp"] = Absent THEN UNCHANGED <<file, fd>>
     ELSE /\ file' = [file EXCEPT ![path[q]] =
                        [n \in Names |-> IF n = "json" THEN @["tmp"] ELSE Absent]]
          /\ fd' = [r \in Procs |->
                      IF path[r] # path[q] THEN fd[r]
                      ELSE CASE fd[r] = "tmp"  -> "json"
                             [] fd[r] = "json" -> "gone"
                             [] OTHER -> fd[r]]
  /\ pc' = [pc EXCEPT ![q] = "idle"]
  /\ UNCHANGED <<users, path, buf, begun>>

\* The process is killed and, sooner or later, started again.
Kill(q) ==
  /\ pc[q] # "idle"
  /\ pc' = [pc EXCEPT ![q] = "idle"] /\ fd' = [fd EXCEPT ![q] = "none"]
  /\ UNCHANGED <<users, file, path, buf, begun>>

Next == \E q \in Procs : \/ PutSpec(q) \/ PutSolution(q) \/ AddFailure(q)
                         \/ Open(q) \/ Fill(q) \/ Rename(q) \/ Kill(q)

Spec == Init /\ [][Next]_vars

-----------------------------------------------------------------------------
Lists == [specs     |-> {<<s>> : s \in Suites},
          solutions |-> {<<e>> : e \in Entries},
          failures  |-> {l \in Seq(Forms) :
                           /\ Len(l) \in 1..Cap
                           /\ \A i, j \in DOMAIN l : l[i] = l[j] => i = j}]

\* What can be read is what one writer meant (cache.go:84-98, 213-226): a suite, an
\* entry, or at most Cap forms without a repetition, however many processes write
\* and wherever they are killed.
WholeFilesAreSound ==
  \A p \in Paths : file[p]["json"].st = "whole" => Read(p) \in Lists[p]

Alone == \E q \in Procs : users \subseteq {q}

\* "writes atomically" (cache.go:84-85): the name of an entry leads to a whole file
\* or to none.
FilesAreNeverTorn == \A p \in Paths : file[p]["json"].st \in {"absent", "whole"}

\* So it does while one process at a time uses the directory, wherever that process
\* is killed and started again.
LoneWriterNeverTears == Alone => FilesAreNeverTorn

\* What readers find under each name.
contents == [p \in Paths |-> Read(p)]

Store == INSTANCE AtomicStore WITH store <- contents

\* And then every write is one step of the atomic store: an old suite is not
\* replaced, and a form is forgotten only for Cap newer ones (cache.go:211-226,
\* cascade.go:281-314).
AtomicWhenAlone == Store!Init /\ [][Alone => Store!Next]_contents
=============================================================================
