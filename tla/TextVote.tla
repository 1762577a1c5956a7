------------------------------ MODULE TextVote ------------------------------
(***************************************************************************)
(* The vote on how candidates are written (internal/cluster/text.go): the  *)
(* rival of behavioural clustering, which never asks a verifier.           *)
(***************************************************************************)
EXTENDS Cluster, SequencesExt

CONSTANT TextKey  \* TextKey[s]: source s as reprinted without comments and blanks

Lower(i, j) == IF i < j THEN i ELSE j

\* The member that stands for a class whose members are seen one by one.
RepOf(rep, i) == Lower(rep, i)

\* One more member: of a class that was seen, or of a new one.
Enter(cands, t, i) ==
  LET k == TextKey[cands[i].source] IN
  IF k \in DOMAIN t.group
    THEN [t EXCEPT !.group[k] = [n |-> @.n + 1, rep |-> RepOf(@.rep, i)]]
    ELSE [keys |-> Append(t.keys, k),
          group |-> [q \in DOMAIN t.group \cup {k} |->
                       IF q = k THEN [n |-> 1, rep |-> i] ELSE t.group[q]]]

\* The classes in the order they are first seen, each with its size and member.
Tally(cands, order) ==
  FoldLeft(LAMBDA t, i : Enter(cands, t, i), [keys |-> <<>>, group |-> <<>>], order)

\* Bug: a tie stays with the class seen first.
Larger(g, best) == g.n > best.n

Beats(g, best) == g.n > best.n \/ (g.n = best.n /\ g.rep < best.rep)

Better(group, best, k) == IF Beats(group[k], best) THEN group[k] ELSE best

\* The class no other beats: the first one, or a later one that beats those before it.
Leader(t) ==
  FoldLeft(LAMBDA best, k : Better(t.group, best, k), t.group[t.keys[1]], Tail(t.keys))

\* The largest class, of equal ones the one with the lowest Index: its member and
\* its votes.  order is the slice handed to the vote, as Indexes.
Vote(cands, order) == Leader(Tally(cands, order))
=============================================================================
