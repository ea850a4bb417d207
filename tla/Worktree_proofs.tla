--------------------------- MODULE Worktree_proofs --------------------------
(***************************************************************************)
(* A node's work in git is kept, for any number of commits and any         *)
(* tolerance, wherever archive, rebuild, salvage, landing and reset break  *)
(* off.                                                                    *)
(*                                                                         *)
(* What an operation leaves behind is a sequence of states of the clone,   *)
(* so the proof is of states rather than of steps: a state is Sound when   *)
(* ancestry is what git makes of it, the refs name commits and the tree    *)
(* was cut from its pin; and one state Keeps another when it is sound and  *)
(* every commit the other's refs hold, and every commit made since, is     *)
(* still held.  Every stage of every operation keeps the state it was      *)
(* begun in, whichever of them turns out to be the last; that it Saves the *)
(* tree's dirt, or commits it, is shown along the same stages.             *)
(***************************************************************************)
EXTENDS Worktree, TLAPS

\* A commit reaches itself, what its ancestors reach, and none made later.
Ancestry(g) ==
    \A c \in 1..Newest(g) :
        /\ c \in g.anc[c] /\ g.anc[c] \subseteq 1..c
        /\ \A a \in g.anc[c] : g.anc[a] \subseteq g.anc[c]

Names(g) == {g.branch} \cup g.archives \cup g.salvages
Held(g, c) == Holds(g, Names(g), c)

RefsAreCommits(g) ==
    /\ g.trunk \in 1..Newest(g)
    /\ Names(g) \cup {g.base, g.merging, g.origin} \subseteq 0..Newest(g)

\* A tree has its branch, which was cut from the pin it has.
TreeIsCut(g) ==
    g.dir => /\ g.branch # 0
             /\ g.base # 0 => Reaches(g, g.branch, g.base)

Sound(g) ==
    /\ g \in Clone /\ Newest(g) <= MaxCommits
    /\ Ancestry(g) /\ RefsAreCommits(g) /\ TreeIsCut(g)

\* A commit may be made on all that `reached` reaches; h has it on top of g.
Closed(g, reached) == reached \subseteq 1..Newest(g) /\ \A a \in reached : g.anc[a] \subseteq reached
CommitsOn(g, h, reached) == h.anc = Append(g.anc, reached \cup {Newest(g) + 1})

\* h is sound, and holds what g's refs held and what was committed since.
Keeps(g, h) ==
    /\ Sound(h) /\ Newest(g) <= Newest(h)
    /\ \A c \in 1..Newest(h) : Held(g, c) \/ c > Newest(g) => Held(h, c)
    /\ g.proposals <= 1 => h.proposals <= 1

\* An operation of the clone alone: each of its stages keeps what it began with.
Rebuilds(g, h) == Keeps(g, h) /\ h.origin = g.origin
AllKeep(g, stages) ==
    stages \in Seq(Clone) /\ \A k \in 1..Len(stages) : Rebuilds(g, stages[k])

\* Dirt that g has, h has too, or it was committed on the way.
Saves(g, h) == g.dirty => h.dirty \/ Newest(g) < Newest(h)
AllSave(g, stages) == \A k \in 1..Len(stages) : Saves(g, stages[k])

WorktreeInv ==
    /\ WorktreeTypeOK /\ Sound(git) /\ made \subseteq 1..Newest(git)
    /\ WorkStaysReachable /\ OneProposal

-----------------------------------------------------------------------------
(* States that keep one another *)

LEMMA SoundFacts ==
    ASSUME NEW g, Sound(g)
    PROVE  /\ Newest(g) \in Nat /\ Newest(g) <= MaxCommits /\ MaxCommits \in Nat
           /\ g.anc \in Seq(SUBSET Commits)
           /\ g.trunk \in Commits /\ g.branch \in Ref /\ g.base \in Ref /\ g.merging \in Ref
           /\ g.origin \in Ref /\ g.archives \subseteq Commits /\ g.salvages \subseteq Commits
           /\ g.kept \subseteq Commits /\ g.dir \in BOOLEAN /\ g.dirty \in BOOLEAN
           /\ g.sealed \in BOOLEAN /\ g.proposals \in 0..2
    BY WorktreeAssumption DEF Sound, Clone, Newest

LEMMA SoundRefs ==
    ASSUME NEW g, Sound(g)
    PROVE  /\ g.trunk \in 1..Newest(g)
           /\ \A a \in {g.branch, g.base, g.merging, g.origin} : a # 0 => a \in 1..Newest(g)
           /\ g.archives \subseteq 1..Newest(g) /\ g.salvages \subseteq 1..Newest(g)
<1>1. Newest(g) \in Nat /\ g.archives \subseteq Commits /\ g.salvages \subseteq Commits
    BY SoundFacts
<1>2. Names(g) \cup {g.base, g.merging, g.origin} \subseteq 0..Newest(g) /\ g.trunk \in 1..Newest(g)
    BY DEF Sound, RefsAreCommits
<1>3. \A a \in 0..Newest(g) : a # 0 => a \in 1..Newest(g)
    BY <1>1
<1>4. 0 \notin Commits
    BY DEF Commits
<1> QED BY <1>1, <1>2, <1>3, <1>4 DEF Names

LEMMA KeepsItself ==
    ASSUME NEW g, Sound(g) PROVE Keeps(g, g)
<1>1. Newest(g) \in Nat
    BY SoundFacts
<1>2. \A c \in 1..Newest(g) : ~(c > Newest(g))
    BY <1>1
<1> QED BY <1>1, <1>2 DEF Keeps

LEMMA KeepsOn ==
    ASSUME NEW f, NEW g, NEW h, Sound(f), Keeps(f, g), Keeps(g, h) PROVE Keeps(f, h)
<1>1. Newest(f) \in Nat /\ Newest(g) \in Nat /\ Newest(h) \in Nat
    BY SoundFacts DEF Keeps
<1>2. ASSUME NEW c \in 1..Newest(h), Held(f, c) \/ c > Newest(f) PROVE Held(h, c)
    <2>1. CASE c \in 1..Newest(g)
        BY <1>2, <2>1 DEF Keeps
    <2>2. CASE c > Newest(g)
        BY <2>2 DEF Keeps
    <2> QED BY <1>1, <1>2, <2>1, <2>2
<1> QED BY <1>1, <1>2 DEF Keeps

\* Nothing is committed, and no ref is given up.
LEMMA SameHistory ==
    ASSUME NEW g, Sound(g), NEW h \in Clone, h.anc = g.anc, h.trunk = g.trunk,
           Names(h) \cup {h.base, h.merging, h.origin} \subseteq 0..Newest(g),
           Names(g) \ {0} \subseteq Names(h), TreeIsCut(h), g.proposals <= 1 => h.proposals <= 1
    PROVE  Keeps(g, h)
<1>1. Newest(h) = Newest(g) /\ Newest(g) \in Nat
    BY SoundFacts DEF Newest
<1>2. Ancestry(h)
    BY <1>1 DEF Sound, Ancestry
<1>3. RefsAreCommits(h)
    BY <1>1 DEF Sound, RefsAreCommits
<1>4. Sound(h)
    BY <1>1, <1>2, <1>3 DEF Sound
<1>5. \A c \in 1..Newest(h) : Held(g, c) => Held(h, c)
    BY DEF Held, Holds, Reaches
<1>6. \A c \in 1..Newest(h) : ~(c > Newest(g))
    BY <1>1
<1> QED BY <1>1, <1>4, <1>5, <1>6 DEF Keeps

\* A commit is made, on what reaches all it reaches itself.
LEMMA OneMore ==
    ASSUME NEW g, Sound(g), Room(g), NEW h, h \in Clone,
           NEW reached, Closed(g, reached), CommitsOn(g, h, reached)
    PROVE  /\ Newest(h) = Newest(g) + 1 /\ Newest(h) <= MaxCommits
           /\ \A c \in 1..Newest(g) : h.anc[c] = g.anc[c]
           /\ h.anc[Newest(h)] = reached \cup {Newest(h)}
           /\ Ancestry(h)
<1>a. /\ h.anc = Append(g.anc, reached \cup {Newest(g) + 1})
      /\ reached \subseteq 1..Newest(g) /\ \A a \in reached : g.anc[a] \subseteq reached
    BY DEF Closed, CommitsOn
<1>1. Newest(g) \in Nat /\ g.anc \in Seq(SUBSET Commits) /\ MaxCommits \in Nat
    BY SoundFacts
<1>2. Newest(h) = Newest(g) + 1 /\ Newest(h) <= MaxCommits
    BY <1>a, <1>1 DEF Newest, Room
<1>3. \A c \in 1..Newest(g) : h.anc[c] = g.anc[c]
    BY <1>a, <1>1 DEF Newest
<1>4. h.anc[Newest(h)] = reached \cup {Newest(h)}
    BY <1>a, <1>1, <1>2 DEF Newest
<1>5. ASSUME NEW c \in 1..Newest(h)
      PROVE  /\ c \in h.anc[c] /\ h.anc[c] \subseteq 1..c
             /\ \A a \in h.anc[c] : h.anc[a] \subseteq h.anc[c]
    <2>1. CASE c \in 1..Newest(g)
        <3>1. /\ c \in g.anc[c] /\ g.anc[c] \subseteq 1..c
              /\ \A a \in g.anc[c] : g.anc[a] \subseteq g.anc[c]
            BY <2>1 DEF Sound, Ancestry
        <3>2. \A a \in g.anc[c] : a \in 1..Newest(g)
            BY <1>1, <2>1, <3>1
        <3> QED BY <1>3, <2>1, <3>1, <3>2
    <2>2. CASE c = Newest(h)
        <3>1. c \in h.anc[c] /\ h.anc[c] \subseteq 1..c
            <4>1. h.anc[c] = reached \cup {c} /\ c = Newest(g) + 1
                BY <1>2, <1>4, <2>2
            <4>2. c \in 1..c /\ 1..Newest(g) \subseteq 1..c
                BY <1>1, <4>1
            <4> QED BY <1>a, <4>1, <4>2
        <3>2. \A a \in reached : h.anc[a] \subseteq h.anc[c]
            BY <1>a, <1>3, <1>4, <2>2
        <3>3. \A a \in h.anc[c] : a \in reached \/ a = c
            BY <1>4, <2>2
        <3> QED BY <3>1, <3>2, <3>3
    <2>3. c \in 1..Newest(g) \/ c = Newest(h)
        BY <1>1, <1>2
    <2> QED BY <2>1, <2>2, <2>3
<1> QED BY <1>1, <1>2, <1>3, <1>4, <1>5 DEF Ancestry

\* What a commit of the tree is: it reaches what the branch and the merge did.
LEMMA CommittedKeeps ==
    ASSUME NEW g, Sound(g), Room(g), g.branch # 0, NEW h, h = Committed(g)
    PROVE  /\ Keeps(g, h) /\ Newest(h) = Newest(g) + 1
           /\ h.branch = Newest(h) /\ ~h.dirty /\ h.merging = 0
           /\ h.dir = g.dir /\ h.base = g.base /\ h.archives = g.archives /\ h.salvages = g.salvages
           /\ h.origin = g.origin /\ h.kept = g.kept /\ h.proposals = g.proposals
           /\ h.trunk = g.trunk /\ h.sealed = g.sealed
           /\ \A a \in 1..Newest(g) : h.anc[a] = g.anc[a]
           /\ \A c \in g.anc[g.branch] : Reaches(h, h.branch, c)
<1>a. PICK new : new = Newest(g) + 1
    OBVIOUS
<1>b. PICK reached : reached = g.anc[g.branch] \cup (IF g.merging = 0 THEN {} ELSE g.anc[g.merging])
    OBVIOUS
<1>1. /\ Newest(g) \in Nat /\ g.anc \in Seq(SUBSET Commits) /\ MaxCommits \in Nat
      /\ Newest(g) < MaxCommits /\ new \in Commits /\ g \in Clone
      /\ new \in Ref /\ new # 0 /\ 0 \in Ref
    BY <1>a, SoundFacts DEF Room, Newest, Commits, Ref, Sound
<1>2. g.branch \in 1..Newest(g) /\ (g.merging # 0 => g.merging \in 1..Newest(g))
    BY SoundRefs
<1>3. reached \subseteq 1..Newest(g) /\ \A a \in reached : g.anc[a] \subseteq reached
    <2>1. \A b \in 1..Newest(g) : /\ g.anc[b] \subseteq 1..Newest(g)
                                  /\ \A a \in g.anc[b] : g.anc[a] \subseteq g.anc[b]
        BY <1>1 DEF Sound, Ancestry
    <2>2. CASE g.merging = 0
        BY <1>b, <1>2, <2>1, <2>2
    <2>3. CASE g.merging # 0
        BY <1>b, <1>2, <2>1, <2>3
    <2> QED BY <2>2, <2>3
<1>4. PICK anc : anc = Append(g.anc, reached \cup {new})
    OBVIOUS
<1>5. anc \in Seq(SUBSET Commits)
    <2>1. reached \cup {new} \in SUBSET Commits
        <3>1. 1..Newest(g) \subseteq Commits
            BY <1>1 DEF Commits
        <3> QED BY <1>1, <1>3, <3>1
    <2> QED BY <1>1, <1>4, <2>1
<1>6. h = [g EXCEPT !.anc = anc, !.branch = new, !.dirty = FALSE, !.merging = 0]
    BY <1>a, <1>b, <1>4 DEF Committed, Newest
<1>7. /\ h \in Clone /\ h.anc = anc /\ h.branch = new /\ ~h.dirty /\ h.merging = 0
      /\ h.dir = g.dir /\ h.base = g.base /\ h.archives = g.archives /\ h.salvages = g.salvages
      /\ h.origin = g.origin /\ h.kept = g.kept /\ h.proposals = g.proposals
      /\ h.trunk = g.trunk /\ h.sealed = g.sealed
    BY <1>1, <1>5, <1>6 DEF Clone
<1>8. /\ Newest(h) = new /\ Newest(h) <= MaxCommits
      /\ \A c \in 1..Newest(g) : h.anc[c] = g.anc[c]
      /\ h.anc[Newest(h)] = reached \cup {new}
      /\ Ancestry(h)
    <2>1. Closed(g, reached) /\ CommitsOn(g, h, reached) /\ h \in Clone
        BY <1>a, <1>3, <1>4, <1>7 DEF Closed, CommitsOn
    <2> QED BY <1>a, <2>1, OneMore
<1>9. \A c \in g.anc[g.branch] : Reaches(h, h.branch, c)
    BY <1>b, <1>7, <1>8 DEF Reaches
<1>10. RefsAreCommits(h)
    <2>1. Newest(g) \in Nat /\ Newest(h) = Newest(g) + 1
        BY <1>a, <1>1, <1>8
    <2>2. 1..Newest(g) \subseteq 0..Newest(h) /\ 1..Newest(g) \subseteq 1..Newest(h)
          /\ Newest(h) \in 0..Newest(h) /\ 0 \in 0..Newest(h)
        BY <2>1
    <2>3. h.trunk \in 1..Newest(h)
        BY <1>7, <2>2, SoundRefs
    <2>4. \A a \in {h.base, h.origin} : a \in 0..Newest(h)
        BY <1>7, <2>2, SoundRefs
    <2>5. h.archives \cup h.salvages \subseteq 0..Newest(h)
        BY <1>7, <2>2, SoundRefs
    <2> QED BY <1>7, <1>8, <2>2, <2>3, <2>4, <2>5 DEF RefsAreCommits, Names
<1>11. TreeIsCut(h)
    BY <1>1, <1>7, <1>9 DEF Sound, TreeIsCut, Reaches
<1>12. \A c \in 1..Newest(h) : Held(g, c) \/ c > Newest(g) => Held(h, c)
    <2>1. ASSUME NEW c, Held(g, c) PROVE Held(h, c)
        <3>1. PICK a \in Names(g) \ {0} : c \in g.anc[a]
            BY <2>1 DEF Held, Holds, Reaches
        <3>2. CASE a = g.branch
            BY <1>1, <1>7, <1>9, <3>1, <3>2 DEF Held, Holds, Names
        <3>3. CASE a \in g.archives \cup g.salvages
            <4>1. a \in 1..Newest(g)
                BY <3>3, SoundRefs
            <4> QED BY <1>7, <1>8, <3>1, <3>3, <4>1 DEF Held, Holds, Names, Reaches
        <3> QED BY <3>1, <3>2, <3>3 DEF Names
    <2>2. Held(h, new)
        BY <1>1, <1>7, <1>8 DEF Held, Holds, Names, Reaches
    <2>3. \A c \in 1..Newest(h) : c > Newest(g) => c = new
        BY <1>a, <1>1, <1>8
    <2> QED BY <2>1, <2>2, <2>3
<1>13. Keeps(g, h)
    <2>1. Newest(g) <= Newest(h) /\ h.proposals = g.proposals
        BY <1>a, <1>1, <1>7, <1>8
    <2>2. Sound(h)
        BY <1>7, <1>8, <1>10, <1>11 DEF Sound
    <2> QED BY <1>12, <2>1, <2>2 DEF Keeps
<1> QED BY <1>a, <1>7, <1>8, <1>9, <1>13

-----------------------------------------------------------------------------
(* Sequences of stages *)

LEMMA NoStages ==
    ASSUME NEW g PROVE AllKeep(g, <<>>) /\ After(g, <<>>) = g
    BY DEF AllKeep, After

LEMMA AfterKeeps ==
    ASSUME NEW g, Sound(g), NEW s, AllKeep(g, s)
    PROVE  Rebuilds(g, After(g, s)) /\ Sound(After(g, s))
<1>1. CASE s = <<>>
    BY <1>1, KeepsItself DEF After, Rebuilds
<1>2. CASE s # <<>>
    <2>1. Len(s) \in 1..Len(s)
        BY <1>2 DEF AllKeep
    <2>2. After(g, s) = s[Len(s)]
        BY <1>2 DEF After, Last
    <2> QED BY <2>1, <2>2 DEF AllKeep, Rebuilds, Keeps
<1> QED BY <1>1, <1>2

LEMMA StagesJoin ==
    ASSUME NEW g, Sound(g), NEW s, AllKeep(g, s), NEW t, AllKeep(After(g, s), t)
    PROVE  AllKeep(g, s \o t) /\ After(g, s \o t) = After(After(g, s), t)
<1>1. PICK h : h = After(g, s)
    OBVIOUS
<1>2. s \in Seq(Clone) /\ t \in Seq(Clone) /\ Rebuilds(g, h) /\ AllKeep(h, t)
    BY <1>1, AfterKeeps DEF AllKeep
<1>3. /\ s \o t \in Seq(Clone) /\ Len(s \o t) = Len(s) + Len(t)
      /\ \A k \in 1..Len(s \o t) : (s \o t)[k] = IF k <= Len(s) THEN s[k] ELSE t[k - Len(s)]
      /\ Len(s) \in Nat /\ Len(t) \in Nat
    BY <1>2
<1>4. ASSUME NEW k \in 1..Len(s \o t) PROVE Rebuilds(g, (s \o t)[k])
    <2>1. CASE k <= Len(s)
        <3>1. k \in 1..Len(s) /\ (s \o t)[k] = s[k]
            BY <1>3, <2>1
        <3> QED BY <3>1 DEF AllKeep
    <2>2. CASE ~(k <= Len(s))
        <3>1. k - Len(s) \in 1..Len(t) /\ (s \o t)[k] = t[k - Len(s)]
            BY <1>3, <2>2
        <3>2. Rebuilds(h, (s \o t)[k])
            BY <1>2, <3>1 DEF AllKeep
        <3> QED BY <1>2, <3>2, KeepsOn DEF Rebuilds
    <2> QED BY <2>1, <2>2
<1>5. After(g, s \o t) = After(h, t)
    <2>1. CASE t = <<>>
        BY <1>1, <1>2, <2>1 DEF After
    <2>2. CASE t # <<>>
        <3>1. Len(t) \in 1..Len(t) /\ Len(s \o t) \in 1..Len(s \o t) /\ ~(Len(s \o t) <= Len(s))
              /\ Len(s \o t) - Len(s) = Len(t)
            BY <1>2, <1>3, <2>2
        <3>2. (s \o t)[Len(s \o t)] = t[Len(t)] /\ s \o t # <<>>
            BY <1>2, <1>3, <3>1
        <3> QED BY <2>2, <3>2 DEF After, Last
    <2> QED BY <2>1, <2>2
<1> QED BY <1>1, <1>3, <1>4, <1>5 DEF AllKeep

LEMMA AfterSaves ==
    ASSUME NEW g, NEW s, AllKeep(g, s), AllSave(g, s) PROVE Saves(g, After(g, s))
<1>1. CASE s = <<>>
    BY <1>1 DEF After, Saves
<1>2. CASE s # <<>>
    <2>1. Len(s) \in 1..Len(s) /\ After(g, s) = s[Len(s)]
        BY <1>2 DEF AllKeep, After, Last
    <2> QED BY <2>1 DEF AllSave
<1> QED BY <1>1, <1>2

LEMMA SavedStagesJoin ==
    ASSUME NEW g, Sound(g), NEW s, AllKeep(g, s), AllSave(g, s),
           NEW t, AllKeep(After(g, s), t), AllSave(After(g, s), t)
    PROVE  AllSave(g, s \o t)
<1>1. PICK h : h = After(g, s)
    OBVIOUS
<1>2. Saves(g, h) /\ AllKeep(h, t) /\ AllSave(h, t)
    BY <1>1, AfterSaves
<1>3. Newest(g) \in Nat /\ Newest(h) \in Nat /\ Newest(g) <= Newest(h)
    BY <1>1, AfterKeeps, SoundFacts DEF Rebuilds, Keeps
<1>4. /\ s \in Seq(Clone) /\ t \in Seq(Clone) /\ Len(s) \in Nat /\ Len(t) \in Nat
      /\ Len(s \o t) = Len(s) + Len(t)
      /\ \A k \in 1..Len(s \o t) : (s \o t)[k] = IF k <= Len(s) THEN s[k] ELSE t[k - Len(s)]
    BY <1>2 DEF AllKeep
<1>5. ASSUME NEW k \in 1..Len(s \o t) PROVE Saves(g, (s \o t)[k])
    <2>1. CASE k <= Len(s)
        <3>1. k \in 1..Len(s) /\ (s \o t)[k] = s[k]
            BY <1>4, <2>1
        <3> QED BY <3>1 DEF AllSave
    <2>2. CASE ~(k <= Len(s))
        <3>1. k - Len(s) \in 1..Len(t) /\ (s \o t)[k] = t[k - Len(s)]
            BY <1>4, <2>2
        <3>2. PICK last : last = t[k - Len(s)]
            OBVIOUS
        <3>3. Saves(h, last) /\ Newest(h) <= Newest(last) /\ Newest(last) \in Nat
            BY <1>2, <3>1, <3>2, SoundFacts DEF AllSave, AllKeep, Rebuilds, Keeps
        <3>4. Saves(g, last)
            BY <1>2, <1>3, <3>3 DEF Saves
        <3> QED BY <3>1, <3>2, <3>4
    <2> QED BY <2>1, <2>2
<1> QED BY <1>5 DEF AllSave

\* A run of an operation ends in what it began with or at one of its stages.
LEMMA RunKeeps ==
    ASSUME Sound(git), NEW s, AllKeep(git, s), NEW said, Run(s, said)
    PROVE  /\ Rebuilds(git, git') /\ answer' \in {said, "none"}
           /\ AllSave(git, s) => Saves(git, git')
<1>1. git' \in {git, After(git, s)} \/ \E k \in 1..Len(s) : git' = s[k]
    <2>1. ASSUME NEW k \in 0..Len(s), git' = (IF k = 0 THEN git ELSE s[k])
          PROVE  git' = git \/ (k \in 1..Len(s) /\ git' = s[k])
        BY <2>1 DEF AllKeep
    <2> QED BY <2>1 DEF Run
<1>2. Rebuilds(git, git)
    BY KeepsItself DEF Rebuilds
<1>3. Rebuilds(git, After(git, s))
    BY AfterKeeps
<1>4. AllSave(git, s) => Saves(git, git')
    BY <1>1, AfterSaves DEF AllSave, Saves
<1> QED BY <1>1, <1>2, <1>3, <1>4 DEF AllKeep, Run

-----------------------------------------------------------------------------
(* _archive_node *)

LEMMA ArchiveKeeps ==
    ASSUME NEW g, Sound(g), g.dir /\ g.dirty => Room(g), NEW s, s = ArchiveStages(g)
    PROVE  /\ AllKeep(g, s) /\ Len(s) = 4 /\ s # <<>>
           /\ ~After(g, s).dir /\ After(g, s).base = 0
<1>1. PICK saved : saved = IF g.dir /\ g.dirty THEN Committed(g) ELSE g
    OBVIOUS
<1>2. PICK bare : bare = [saved EXCEPT !.dir = FALSE, !.merging = 0, !.sealed = FALSE]
    OBVIOUS
<1>3. PICK moved : moved = IF bare.branch \in {0} \cup bare.archives THEN bare
                           ELSE [bare EXCEPT !.archives = @ \cup {bare.branch}, !.branch = 0]
    OBVIOUS
<1>4. PICK last : last = [moved EXCEPT !.base = 0]
    OBVIOUS
<1>5. s = <<saved, bare, moved, last>>
    BY <1>1, <1>2, <1>3, <1>4 DEF ArchiveStages
<1>6. Rebuilds(g, saved)
    <2>1. CASE g.dir /\ g.dirty
        <3>1. g.branch # 0
            BY <2>1 DEF Sound, TreeIsCut
        <3> QED BY <1>1, <2>1, <3>1, CommittedKeeps DEF Rebuilds
    <2>2. CASE ~(g.dir /\ g.dirty)
        BY <1>1, <2>2, KeepsItself DEF Rebuilds
    <2> QED BY <2>1, <2>2
<1>7. Sound(saved) /\ saved \in Clone /\ 0 \in Ref
    BY <1>6, WorktreeAssumption DEF Rebuilds, Keeps, Sound, Ref
<1>8. /\ bare \in Clone /\ bare.anc = saved.anc /\ bare.trunk = saved.trunk /\ bare.branch = saved.branch
      /\ bare.archives = saved.archives /\ bare.salvages = saved.salvages /\ bare.base = saved.base
      /\ bare.merging = 0 /\ bare.origin = saved.origin /\ bare.proposals = saved.proposals
      /\ bare.dir = FALSE
    BY <1>2, <1>7 DEF Clone
<1>9. Rebuilds(saved, bare)
    <2>1. Names(bare) = Names(saved) /\ TreeIsCut(bare)
        BY <1>8 DEF Names, TreeIsCut
    <2>2. Names(bare) \cup {bare.base, bare.merging, bare.origin} \subseteq 0..Newest(saved)
        BY <1>7, <1>8, <2>1, SoundFacts DEF Sound, RefsAreCommits
    <2> QED BY <1>7, <1>8, <2>1, <2>2, SameHistory DEF Rebuilds
<1>10. Sound(bare)
    BY <1>9 DEF Rebuilds, Keeps
<1>11. /\ moved \in Clone /\ moved.anc = bare.anc /\ moved.trunk = bare.trunk
       /\ moved.salvages = bare.salvages /\ moved.base = bare.base /\ moved.merging = bare.merging
       /\ moved.origin = bare.origin /\ moved.proposals = bare.proposals /\ moved.dir = FALSE
       /\ \/ moved.branch = bare.branch /\ moved.archives = bare.archives
          \/ moved.branch = 0 /\ moved.archives = bare.archives \cup {bare.branch}
    <2>1. CASE bare.branch \in {0} \cup bare.archives
        BY <1>3, <1>8, <2>1
    <2>2. CASE bare.branch \notin {0} \cup bare.archives
        <3>1. bare.archives \cup {bare.branch} \in SUBSET Commits
            BY <1>8, <2>2, WorktreeAssumption DEF Clone, Ref, Commits
        <3>2. moved = [bare EXCEPT !.archives = @ \cup {bare.branch}, !.branch = 0]
            BY <1>3, <2>2
        <3> QED BY <1>7, <1>8, <3>1, <3>2 DEF Clone
    <2> QED BY <2>1, <2>2
<1>12. Rebuilds(bare, moved)
    <2>1. Names(bare) \subseteq Names(moved) /\ TreeIsCut(moved) /\ Names(moved) \subseteq Names(bare) \cup {0}
        BY <1>11 DEF Names, TreeIsCut
    <2>2. Names(moved) \cup {moved.base, moved.merging, moved.origin} \subseteq 0..Newest(bare)
        BY <1>10, <1>11, <2>1, SoundFacts DEF Sound, RefsAreCommits
    <2> QED BY <1>10, <1>11, <2>1, <2>2, SameHistory DEF Rebuilds
<1>13. Sound(moved)
    BY <1>12 DEF Rebuilds, Keeps
<1>14. /\ last \in Clone /\ last.anc = moved.anc /\ last.trunk = moved.trunk /\ last.branch = moved.branch
       /\ last.archives = moved.archives /\ last.salvages = moved.salvages /\ last.base = 0
       /\ last.merging = moved.merging /\ last.origin = moved.origin /\ last.proposals = moved.proposals
       /\ last.dir = FALSE
    BY <1>4, <1>7, <1>11 DEF Clone
<1>15. Rebuilds(moved, last)
    <2>1. Names(last) = Names(moved) /\ TreeIsCut(last)
        BY <1>14 DEF Names, TreeIsCut
    <2>2. Names(last) \cup {last.base, last.merging, last.origin} \subseteq 0..Newest(moved)
        BY <1>13, <1>14, <2>1, SoundFacts DEF Sound, RefsAreCommits
    <2> QED BY <1>13, <1>14, <2>1, <2>2, SameHistory DEF Rebuilds
<1>16. Rebuilds(g, bare) /\ Rebuilds(g, moved) /\ Rebuilds(g, last)
    BY <1>6, <1>9, <1>12, <1>15, KeepsOn DEF Rebuilds
<1>17. s \in Seq(Clone) /\ Len(s) = 4 /\ s[1] = saved /\ s[2] = bare /\ s[3] = moved /\ s[4] = last
    BY <1>5, <1>7, <1>8, <1>11, <1>14
<1>18. AllKeep(g, s)
    BY <1>6, <1>16, <1>17 DEF AllKeep
<1>19. After(g, s) = last /\ s # <<>>
    BY <1>5, <1>17 DEF After, Last
<1> QED BY <1>14, <1>17, <1>18, <1>19

\* A commit of what is in the tree is one more.
LEMMA CommittedSaves ==
    ASSUME NEW g, g \in Clone PROVE Newest(Committed(g)) = Newest(g) + 1
<1>1. PICK set : Committed(g).anc = Append(g.anc, set)
    <2>1. Committed(g).anc = Append(g.anc, g.anc[g.branch] \cup (IF g.merging = 0 THEN {} ELSE g.anc[g.merging])
                                              \cup {Len(g.anc) + 1})
        BY DEF Committed, Clone
    <2> QED BY <2>1
<1> QED BY <1>1 DEF Newest, Clone

LEMMA ArchiveSaves ==
    ASSUME NEW g, Sound(g), NEW s, s = ArchiveStages(g) PROVE AllSave(g, s)
<1>1. PICK saved : saved = IF g.dir /\ g.dirty THEN Committed(g) ELSE g
    OBVIOUS
<1>2. PICK bare : bare = [saved EXCEPT !.dir = FALSE, !.merging = 0, !.sealed = FALSE]
    OBVIOUS
<1>3. PICK moved : moved = IF bare.branch \in {0} \cup bare.archives THEN bare
                           ELSE [bare EXCEPT !.archives = @ \cup {bare.branch}, !.branch = 0]
    OBVIOUS
<1>4. PICK last : last = [moved EXCEPT !.base = 0]
    OBVIOUS
<1>5. s = <<saved, bare, moved, last>>
    BY <1>1, <1>2, <1>3, <1>4 DEF ArchiveStages
<1>6. Newest(g) \in Nat /\ g \in Clone
    BY SoundFacts DEF Sound
<1>7. DOMAIN saved = DOMAIN g
    BY <1>1 DEF Committed
<1>8. (saved.dirty = g.dirty /\ Newest(saved) = Newest(g)) \/ Newest(saved) = Newest(g) + 1
    BY <1>1, <1>6, CommittedSaves
<1>9. \A h \in {bare, moved, last} : h.dirty = saved.dirty /\ h.anc = saved.anc
    <2>1. bare.dirty = saved.dirty /\ bare.anc = saved.anc /\ DOMAIN bare = DOMAIN g
        BY <1>2, <1>6, <1>7 DEF Clone
    <2>2. moved.dirty = saved.dirty /\ moved.anc = saved.anc /\ DOMAIN moved = DOMAIN g
        BY <1>3, <1>6, <2>1 DEF Clone
    <2>3. last.dirty = saved.dirty /\ last.anc = saved.anc
        BY <1>4, <1>6, <2>2 DEF Clone
    <2> QED BY <2>1, <2>2, <2>3
<1>10. \A h \in {saved, bare, moved, last} : Saves(g, h)
    <2> TAKE h \in {saved, bare, moved, last}
    <2>1. h.dirty = saved.dirty /\ Newest(h) = Newest(saved)
        BY <1>9 DEF Newest
    <2>2. h.dirty = g.dirty \/ Newest(g) < Newest(h)
        BY <1>6, <1>8, <2>1
    <2> QED BY <2>2 DEF Saves
<1>11. Len(s) = 4 /\ \A k \in 1..4 : s[k] \in {saved, bare, moved, last}
    BY <1>5
<1> QED BY <1>10, <1>11 DEF AllSave

-----------------------------------------------------------------------------
(* ensure *)

\* An archive that is wanted, or none: what is left of it is no tree.
LEMMA MaybeArchive ==
    ASSUME NEW g, Sound(g), g.dir /\ g.dirty => Room(g), NEW s,
           s = ArchiveStages(g) \/ s = <<>>
    PROVE  /\ AllKeep(g, s) /\ AllSave(g, s) /\ Sound(After(g, s))
           /\ \/ s = <<>> /\ After(g, s) = g
              \/ s # <<>> /\ ~After(g, s).dir /\ After(g, s).base = 0
<1>1. CASE s = <<>>
    BY <1>1, NoStages DEF AllSave
<1>2. CASE s = ArchiveStages(g)
    BY <1>2, ArchiveKeeps, ArchiveSaves, AfterKeeps
<1> QED BY <1>1, <1>2

\* The tree that is there, or one on the branch that reaches its pin, or one on
\* a new branch.
LEMMA AttachKeeps ==
    ASSUME NEW g, Sound(g), NEW pin \in 1..Newest(g),
           ~g.dir /\ g.branch # 0 => Reaches(g, g.branch, pin),
           ~g.dir /\ g.base # 0 => g.base = pin
    PROVE  AllKeep(g, Attached(g, pin))
<1>1. /\ g \in Clone /\ Newest(g) \in Nat /\ pin \in Ref
      /\ 1..Newest(g) \subseteq 0..Newest(g) /\ g.branch \in Ref
    BY SoundFacts DEF Sound, Ref
<1>2. g.branch # 0 => Reaches(g, g.branch, g.branch)
    BY SoundRefs DEF Sound, Ancestry, Reaches
<1>3. CASE g.dir
    <2>1. PICK base : base = IF g.base = 0 THEN g.branch ELSE g.base
        OBVIOUS
    <2>2. PICK h : h = [g EXCEPT !.base = base]
        OBVIOUS
    <2>3. Attached(g, pin) = <<h>>
        BY <1>1, <1>3, <2>1, <2>2 DEF Attached, Clone
    <2>4. base \in Ref
        BY <1>1, <2>1 DEF Clone
    <2>5. /\ h \in Clone /\ h.anc = g.anc /\ h.trunk = g.trunk /\ h.branch = g.branch
          /\ h.archives = g.archives /\ h.salvages = g.salvages /\ h.base = base
          /\ h.merging = g.merging /\ h.origin = g.origin /\ h.proposals = g.proposals
        BY <1>1, <2>2, <2>4 DEF Clone
    <2>6. TreeIsCut(h)
        BY <1>2, <1>3, <2>1, <2>5 DEF Sound, TreeIsCut, Reaches
    <2>7. Names(h) = Names(g) /\ Names(h) \cup {h.base, h.merging, h.origin} \subseteq 0..Newest(g)
        BY <2>1, <2>5 DEF Names, Sound, RefsAreCommits
    <2>8. Rebuilds(g, h)
        BY <2>5, <2>6, <2>7, SameHistory DEF Rebuilds
    <2>9. <<h>> \in Seq(Clone) /\ Len(<<h>>) = 1 /\ <<h>>[1] = h
        BY <2>5
    <2> QED BY <2>3, <2>8, <2>9 DEF AllKeep
<1>4. CASE ~g.dir
    <2>1. PICK branch : branch = IF g.branch = 0 THEN pin ELSE g.branch
        OBVIOUS
    <2>2. PICK out : out = [g EXCEPT !.dir = TRUE, !.branch = branch]
        OBVIOUS
    <2>3. PICK h : h = [out EXCEPT !.base = pin]
        OBVIOUS
    <2>4. Attached(g, pin) = <<out, h>>
        BY <1>1, <1>4, <2>1, <2>2, <2>3 DEF Attached, Clone
    <2>5. branch \in Ref /\ branch \in 1..Newest(g) /\ Reaches(g, branch, pin)
        BY <1>1, <1>4, <2>1, SoundRefs DEF Sound, Ancestry, Reaches
    <2>6. /\ out \in Clone /\ out.anc = g.anc /\ out.trunk = g.trunk /\ out.branch = branch
          /\ out.archives = g.archives /\ out.salvages = g.salvages /\ out.base = g.base
          /\ out.merging = g.merging /\ out.origin = g.origin /\ out.proposals = g.proposals
        BY <1>1, <2>2, <2>5 DEF Clone
    <2>7. /\ h \in Clone /\ h.anc = g.anc /\ h.trunk = g.trunk /\ h.branch = branch
          /\ h.archives = g.archives /\ h.salvages = g.salvages /\ h.base = pin
          /\ h.merging = g.merging /\ h.origin = g.origin /\ h.proposals = g.proposals
        BY <1>1, <2>3, <2>6 DEF Clone
    <2>8. branch # 0
        BY <2>5
    <2>9. TreeIsCut(out) /\ TreeIsCut(h)
        BY <1>4, <2>5, <2>6, <2>7, <2>8 DEF TreeIsCut, Reaches
    <2>10. /\ Names(g) \ {0} \subseteq Names(h) /\ Names(h) = Names(out)
           /\ Names(h) \subseteq Names(g) \cup {branch}
        BY <2>1, <2>6, <2>7 DEF Names
    <2>11. Names(g) \cup {g.base, g.merging, g.origin} \subseteq 0..Newest(g)
        BY DEF Sound, RefsAreCommits
    <2>12. /\ Names(out) \cup {out.base, out.merging, out.origin} \subseteq 0..Newest(g)
           /\ Names(h) \cup {h.base, h.merging, h.origin} \subseteq 0..Newest(g)
        BY <1>1, <2>5, <2>6, <2>7, <2>10, <2>11
    <2>13. Rebuilds(g, out)
        BY <2>6, <2>9, <2>10, <2>12, SameHistory DEF Rebuilds
    <2>14. Rebuilds(g, h)
        BY <2>7, <2>9, <2>10, <2>12, SameHistory DEF Rebuilds
    <2>15. <<out, h>> \in Seq(Clone) /\ Len(<<out, h>>) = 2 /\ <<out, h>>[1] = out /\ <<out, h>>[2] = h
        BY <2>6, <2>7
    <2> QED BY <2>4, <2>13, <2>14, <2>15 DEF AllKeep
<1> QED BY <1>3, <1>4

LEMMA AttachSaves ==
    ASSUME NEW g, g \in Clone, NEW pin PROVE AllSave(g, Attached(g, pin))
<1>1. CASE g.dir
    <2>1. PICK h : Attached(g, pin) = <<h>> /\ h.dirty = g.dirty
        BY <1>1 DEF Attached, Clone
    <2>2. Len(<<h>>) = 1 /\ <<h>>[1] = h
        OBVIOUS
    <2>3. \A k \in 1..Len(Attached(g, pin)) : Attached(g, pin)[k].dirty = g.dirty
        BY <2>1, <2>2
    <2> QED BY <2>3 DEF AllSave, Saves
<1>2. CASE ~g.dir
    <2>1. PICK branch : branch = IF g.branch = 0 THEN pin ELSE g.branch
        OBVIOUS
    <2>2. PICK out : out = [g EXCEPT !.dir = TRUE, !.branch = branch]
        OBVIOUS
    <2>3. PICK h : h = [out EXCEPT !.base = pin]
        OBVIOUS
    <2>4. Attached(g, pin) = <<out, h>>
        BY <1>2, <2>1, <2>2, <2>3 DEF Attached, Clone
    <2>5. out.dirty = g.dirty /\ h.dirty = g.dirty
        BY <2>2, <2>3 DEF Clone
    <2>6. Len(<<out, h>>) = 2 /\ <<out, h>>[1] = out /\ <<out, h>>[2] = h
        OBVIOUS
    <2>7. \A k \in 1..Len(Attached(g, pin)) : Attached(g, pin)[k].dirty = g.dirty
        BY <2>4, <2>5, <2>6
    <2> QED BY <2>7 DEF AllSave, Saves
<1> QED BY <1>1, <1>2

LEMMA EnsureKeeps ==
    ASSUME NEW g, Sound(g), Room(g)
    PROVE  AllKeep(g, EnsureStages(g).stages) /\ AllSave(g, EnsureStages(g).stages)
<1>1. PICK first : first = StaleTree(g)
    OBVIOUS
<1>2. PICK g1 : g1 = After(g, first)
    OBVIOUS
<1>3. PICK second : second = LostPin(g1)
    OBVIOUS
<1>4. PICK g2 : g2 = After(g1, second)
    OBVIOUS
<1>5. PICK third : third = StrayBranch(g2)
    OBVIOUS
<1>6. PICK g3 : g3 = After(g2, third)
    OBVIOUS
<1>7. PICK end : end = IF third # <<>> /\ g3.branch # 0 THEN <<g3>> ELSE Attached(g3, Pin(g2))
    OBVIOUS
<1>8. EnsureStages(g).stages = first \o second \o third \o end
    BY <1>1, <1>2, <1>3, <1>4, <1>5, <1>6, <1>7 DEF EnsureStages
<1>9. /\ AllKeep(g, first) /\ AllSave(g, first) /\ Sound(g1)
      /\ \/ first = <<>> /\ g1 = g
         \/ first # <<>> /\ ~g1.dir /\ g1.base = 0
    BY <1>1, <1>2, MaybeArchive DEF StaleTree
<1>10. /\ AllKeep(g1, second) /\ AllSave(g1, second) /\ Sound(g2)
       /\ \/ second = <<>> /\ g2 = g1
          \/ second # <<>> /\ ~g2.dir /\ g2.base = 0
    <2>1. second = <<>> \/ (second = ArchiveStages(g1) /\ ~g1.dir)
        BY <1>3 DEF LostPin
    <2>2. CASE second = <<>>
        BY <1>4, <1>9, <2>2, NoStages DEF AllSave
    <2>3. CASE second = ArchiveStages(g1) /\ ~g1.dir
        BY <1>4, <1>9, <2>3, MaybeArchive
    <2> QED BY <2>1, <2>2, <2>3
<1>11. /\ AllKeep(g2, third) /\ AllSave(g2, third) /\ Sound(g3)
       /\ \/ third = <<>> /\ g3 = g2
          \/ third # <<>> /\ ~g3.dir /\ g3.base = 0
    <2>1. third = <<>> \/ (third = ArchiveStages(g2) /\ ~g2.dir)
        BY <1>5 DEF StrayBranch
    <2>2. CASE third = <<>>
        BY <1>6, <1>10, <2>2, NoStages DEF AllSave
    <2>3. CASE third = ArchiveStages(g2) /\ ~g2.dir
        BY <1>6, <1>10, <2>3, MaybeArchive
    <2> QED BY <2>1, <2>2, <2>3
<1>12. Pin(g2) \in 1..Newest(g3)
    <2>1. Pin(g2) \in 1..Newest(g2)
        BY <1>10, SoundRefs DEF Pin
    <2>2. Newest(g2) <= Newest(g3) /\ Newest(g2) \in Nat /\ Newest(g3) \in Nat
        BY <1>6, <1>10, <1>11, AfterKeeps, SoundFacts DEF Rebuilds, Keeps
    <2> QED BY <2>1, <2>2
<1>13. AllKeep(g3, end) /\ AllSave(g3, end)
    <2>1. CASE third # <<>> /\ g3.branch # 0
        <3>1. Rebuilds(g3, g3) /\ g3 \in Clone
            BY <1>11, KeepsItself DEF Rebuilds, Sound
        <3>2. <<g3>> \in Seq(Clone) /\ Len(<<g3>>) = 1 /\ <<g3>>[1] = g3
            BY <3>1
        <3> QED BY <1>7, <2>1, <3>1, <3>2 DEF AllKeep, AllSave, Saves
    <2>2. CASE third # <<>> /\ g3.branch = 0
        BY <1>7, <1>11, <1>12, <2>2, AttachKeeps, AttachSaves DEF Sound
    <2>3. CASE third = <<>>
        <3>1. ~g3.dir /\ g3.branch # 0 => Reaches(g3, g3.branch, Pin(g2))
            <4>1. SUFFICES ASSUME ~g2.dir, g2.branch # 0, ~Reaches(g2, g2.branch, Pin(g2)) PROVE FALSE
                BY <1>11, <2>3
            <4>2. third = ArchiveStages(g2)
                BY <1>5, <4>1 DEF StrayBranch
            <4> QED BY <1>10, <2>3, <4>1, <4>2, ArchiveKeeps
        <3>2. g3.base # 0 => g3.base = Pin(g2)
            BY <1>11, <2>3 DEF Pin
        <3> QED BY <1>7, <1>11, <1>12, <2>3, <3>1, <3>2, AttachKeeps, AttachSaves DEF Sound
    <2> QED BY <2>1, <2>2, <2>3
<1>14. /\ AllKeep(g, first \o second) /\ AllSave(g, first \o second)
       /\ After(g, first \o second) = g2
    BY <1>2, <1>4, <1>9, <1>10, StagesJoin, SavedStagesJoin
<1>15. /\ AllKeep(g, first \o second \o third) /\ AllSave(g, first \o second \o third)
       /\ After(g, first \o second \o third) = g3
    BY <1>6, <1>11, <1>14, StagesJoin, SavedStagesJoin
<1>16. /\ AllKeep(g, first \o second \o third \o end)
       /\ AllSave(g, first \o second \o third \o end)
    BY <1>13, <1>15, StagesJoin, SavedStagesJoin
<1> QED BY <1>8, <1>16

-----------------------------------------------------------------------------
(* The steps *)

Answers == {"none", "prepared", "refused", "salvaged", "reset", "landing", "ref conflict"}

LEMMA WorktreeFacts ==
    ASSUME WorktreeInv
    PROVE  /\ Sound(git) /\ git \in Clone /\ Newest(git) \in Nat /\ git.proposals <= 1
           /\ made \subseteq 1..Newest(git) /\ answer \in Answers
           /\ \A c \in made : Held(git, c)
    BY SoundFacts DEF WorktreeInv, WorktreeTypeOK, Sound, Answers, OneProposal, WorkStaysReachable, Held, Names

\* What makes a state one the invariant allows.
LEMMA InvHolds ==
    ASSUME Sound(git'), git'.proposals <= 1, made' \subseteq 1..Newest(git'), answer' \in Answers,
           \A c \in made' : Held(git', c)
    PROVE  WorktreeInv'
<1>1. Newest(git') \in Nat /\ Newest(git') <= MaxCommits /\ MaxCommits \in Nat /\ git' \in Clone
    BY SoundFacts DEF Sound
<1>2. made' \subseteq Commits
    BY <1>1 DEF Commits
<1>3. WorktreeTypeOK'
    BY <1>1, <1>2 DEF WorktreeTypeOK, Answers, Newest
<1>4. WorkStaysReachable' /\ OneProposal'
    BY DEF WorkStaysReachable, OneProposal, Held, Names
<1>5. Sound(git)' /\ (made \subseteq 1..Newest(git))'
    OBVIOUS
<1> QED BY <1>3, <1>4, <1>5 DEF WorktreeInv

\* A step of the factory keeps the clone, and answers for what it commits.
LEMMA FactoryKeeps ==
    ASSUME WorktreeInv, Keeps(git, git'), FactoryMade \/ made' = made, answer' \in Answers
    PROVE  WorktreeInv'
<1>1. /\ Newest(git) \in Nat /\ Newest(git') \in Nat /\ Newest(git) <= Newest(git') /\ Sound(git')
      /\ made \subseteq 1..Newest(git)
    BY WorktreeFacts, SoundFacts DEF Keeps
<1>2. made' \subseteq 1..Newest(git')
    <2>1. 1..Newest(git) \subseteq 1..Newest(git')
        BY <1>1
    <2>2. made' \subseteq made \cup 1..Newest(git')
        BY DEF FactoryMade
    <2> QED BY <1>1, <2>1, <2>2
<1>3. ASSUME NEW c \in made' PROVE Held(git', c)
    <2>1. c \in made \/ c > Newest(git)
        BY <1>1, <1>2, <1>3 DEF FactoryMade
    <2>2. c \in made => Held(git, c)
        BY WorktreeFacts
    <2> QED BY <1>2, <1>3, <2>1, <2>2 DEF Keeps
<1>4. git'.proposals <= 1
    BY WorktreeFacts DEF Keeps
<1> QED BY <1>1, <1>2, <1>3, <1>4, InvHolds

LEMMA EnsureStep ==
    ASSUME WorktreeInv, ensure PROVE WorktreeInv' /\ git'.origin = git.origin
<1>1. PICK said \in {"refused", "prepared"} : Run(EnsureStages(git).stages, said)
    BY DEF ensure
<1>2. AllKeep(git, EnsureStages(git).stages) /\ Sound(git)
    BY EnsureKeeps, WorktreeFacts DEF ensure
<1>3. Rebuilds(git, git') /\ answer' \in {said, "none"}
    BY <1>1, <1>2, RunKeeps
<1>4. answer' \in Answers
    BY <1>3 DEF Answers
<1> QED BY <1>3, <1>4, FactoryKeeps DEF ensure, Rebuilds

\* The agent dirties its tree, commits, or amends: what an amendment gives up
\* and no other ref holds is its own.
LEMMA WorksStep ==
    ASSUME WorktreeInv, AgentWorks PROVE WorktreeInv' /\ git'.origin = git.origin
<1>1. Sound(git) /\ git \in Clone /\ git.branch # 0 /\ answer' = "none" /\ answer' \in Answers /\ git.dir
      /\ git.base # 0 /\ Reaches(git, git.branch, git.base)
    BY WorktreeFacts DEF AgentWorks, Sound, TreeIsCut, Answers
<1>2. CASE git' = [git EXCEPT !.dirty = TRUE, !.sealed = FALSE] /\ UNCHANGED made
    <2>1. /\ git' \in Clone /\ git'.anc = git.anc /\ git'.trunk = git.trunk /\ git'.branch = git.branch
          /\ git'.archives = git.archives /\ git'.salvages = git.salvages /\ git'.base = git.base
          /\ git'.merging = git.merging /\ git'.origin = git.origin /\ git'.proposals = git.proposals
          /\ git'.dir = git.dir
        BY <1>1, <1>2 DEF Clone
    <2>2. Names(git') = Names(git) /\ TreeIsCut(git')
        BY <1>1, <2>1 DEF Names, TreeIsCut, Sound, Reaches
    <2>3. Names(git') \cup {git'.base, git'.merging, git'.origin} \subseteq 0..Newest(git)
        BY <1>1, <2>1, <2>2 DEF Sound, RefsAreCommits
    <2>4. Keeps(git, git')
        BY <1>1, <2>1, <2>2, <2>3, SameHistory
    <2> QED BY <1>1, <1>2, <2>1, <2>4, FactoryKeeps
<1>3. CASE Room(git) /\ git' = [Committed(git) EXCEPT !.sealed = FALSE] /\ UNCHANGED made
    <2>1. PICK h : h = Committed(git)
        OBVIOUS
    <2>2. Keeps(git, h) /\ h.origin = git.origin /\ Sound(h) /\ h \in Clone
        BY <1>1, <1>3, <2>1, CommittedKeeps DEF Keeps, Sound
    <2>3. git' = [h EXCEPT !.sealed = FALSE]
        BY <1>3, <2>1
    <2>4. /\ git' \in Clone /\ git'.anc = h.anc /\ git'.trunk = h.trunk /\ git'.branch = h.branch
          /\ git'.archives = h.archives /\ git'.salvages = h.salvages /\ git'.base = h.base
          /\ git'.merging = h.merging /\ git'.origin = h.origin /\ git'.proposals = h.proposals
          /\ git'.dir = h.dir
        BY <2>2, <2>3 DEF Clone
    <2>5. Names(git') = Names(h) /\ TreeIsCut(git')
        BY <2>2, <2>4 DEF Names, TreeIsCut, Sound, Reaches
    <2>6. Names(git') \cup {git'.base, git'.merging, git'.origin} \subseteq 0..Newest(h)
        BY <2>2, <2>4, <2>5 DEF Sound, RefsAreCommits
    <2>7. Keeps(h, git')
        BY <2>2, <2>4, <2>5, <2>6, SameHistory
    <2>8. Keeps(git, git')
        BY <1>1, <2>2, <2>7, KeepsOn
    <2> QED BY <1>1, <1>3, <2>2, <2>4, <2>8, FactoryKeeps
<1>4. CASE /\ Room(git) /\ ~Reaches(git, git.base, git.branch) /\ git.merging = 0
           /\ git' = [git EXCEPT !.anc = Append(@, (git.anc[git.branch] \ {git.branch}) \cup {Len(@) + 1}),
                                 !.branch = Newest(git) + 1, !.dirty = FALSE, !.sealed = FALSE]
           /\ made' = {c \in made : Holds(git', {git'.branch} \cup git'.archives \cup git'.salvages, c)}
    <2>1. PICK reached : reached = git.anc[git.branch] \ {git.branch}
        OBVIOUS
    <2>2. PICK new : new = Newest(git) + 1
        OBVIOUS
    <2>3. /\ Newest(git) \in Nat /\ git.anc \in Seq(SUBSET Commits) /\ git.branch \in 1..Newest(git)
          /\ MaxCommits \in Nat /\ new \in Commits /\ new \in Ref /\ new # 0
        BY <1>1, <1>4, <2>2, SoundFacts, SoundRefs DEF Room, Newest, Commits, Ref
    <2>4. PICK anc : anc = Append(git.anc, reached \cup {new})
        OBVIOUS
    <2>5. Closed(git, reached)
        <3>1. git.anc[git.branch] \subseteq 1..git.branch
            BY <1>1, <2>3 DEF Sound, Ancestry
        <3>2. \A a \in reached : a \in 1..Newest(git) /\ a < git.branch
            BY <2>1, <2>3, <3>1
        <3>3. ASSUME NEW a \in reached PROVE git.anc[a] \subseteq reached
            <4>1. git.anc[a] \subseteq git.anc[git.branch] /\ git.anc[a] \subseteq 1..a
                BY <1>1, <2>1, <2>3, <3>2 DEF Sound, Ancestry
            <4>2. git.branch \notin 1..a
                BY <2>3, <3>2
            <4> QED BY <2>1, <4>1, <4>2
        <3> QED BY <3>2, <3>3 DEF Closed
    <2>6. anc \in Seq(SUBSET Commits)
        <3>1. 1..Newest(git) \subseteq Commits
            BY <1>4, <2>3 DEF Commits, Room, Newest
        <3>2. reached \cup {new} \in SUBSET Commits
            BY <2>3, <2>5, <3>1 DEF Closed
        <3> QED BY <2>3, <2>4, <3>2
    <2>7. git' = [git EXCEPT !.anc = anc, !.branch = new, !.dirty = FALSE, !.sealed = FALSE]
        BY <1>4, <2>1, <2>2, <2>4 DEF Newest
    <2>8. /\ git' \in Clone /\ git'.anc = anc /\ git'.trunk = git.trunk /\ git'.branch = new
          /\ git'.archives = git.archives /\ git'.salvages = git.salvages /\ git'.base = git.base
          /\ git'.merging = 0 /\ git'.origin = git.origin /\ git'.proposals = git.proposals
          /\ git'.dir = git.dir
        BY ZenonT(40), <1>1, <1>4, <2>3, <2>6, <2>7 DEF Clone
    <2>9. CommitsOn(git, git', reached)
        BY <2>2, <2>4, <2>8 DEF CommitsOn
    <2>10. /\ Newest(git') = new /\ Newest(git') <= MaxCommits
           /\ \A c \in 1..Newest(git) : git'.anc[c] = git.anc[c]
           /\ git'.anc[new] = reached \cup {new}
           /\ Ancestry(git')
        <3>1. /\ Newest(git') = Newest(git) + 1 /\ Newest(git') <= MaxCommits
              /\ \A c \in 1..Newest(git) : git'.anc[c] = git.anc[c]
              /\ git'.anc[Newest(git')] = reached \cup {Newest(git')}
              /\ Ancestry(git')
            <4>1. PICK h : h = git'
                OBVIOUS
            <4>2. h \in Clone /\ CommitsOn(git, h, reached)
                BY <2>8, <2>9, <4>1
            <4>3. /\ Newest(h) = Newest(git) + 1 /\ Newest(h) <= MaxCommits
                  /\ \A c \in 1..Newest(git) : h.anc[c] = git.anc[c]
                  /\ h.anc[Newest(h)] = reached \cup {Newest(h)}
                  /\ Ancestry(h)
                BY <1>1, <1>4, <2>5, <4>2, OneMore
            <4> QED BY <4>1, <4>3
        <3> QED BY <2>2, <3>1
    <2>11. RefsAreCommits(git')
        <3>1. 1..Newest(git) \subseteq 0..new /\ 1..Newest(git) \subseteq 1..new /\ 0 \in 0..new /\ new \in 0..new
            BY <2>2, <2>3
        <3>2. git'.trunk \in 1..new /\ git'.base \in 0..new /\ git'.origin \in 0..new
            BY <1>1, <2>8, <3>1, SoundRefs
        <3>3. git'.archives \cup git'.salvages \subseteq 0..new
            BY <1>1, <2>8, <3>1, SoundRefs
        <3> QED BY <2>8, <2>10, <3>1, <3>2, <3>3 DEF RefsAreCommits, Names
    <2>12. TreeIsCut(git')
        <3>1. git.base # git.branch
            BY <1>1, <1>4, SoundRefs DEF Sound, Ancestry, Reaches
        <3> QED BY <1>1, <2>1, <2>3, <2>8, <2>10, <3>1 DEF TreeIsCut, Reaches
    <2>13. Sound(git') /\ git'.proposals <= 1
        BY <2>8, <2>10, <2>11, <2>12, WorktreeFacts DEF Sound
    <2>14. made' \subseteq 1..Newest(git')
        BY <1>4, <2>2, <2>3, <2>10, WorktreeFacts
    <2>15. \A c \in made' : Held(git', c)
        BY <1>4 DEF Held, Names
    <2> QED BY <1>1, <2>8, <2>13, <2>14, <2>15, InvHolds
<1> QED BY <1>2, <1>3, <1>4 DEF AgentWorks

\* Refs are added and moved on commits that are there; origin's moves forward.
LEMMA PushStep ==
    ASSUME WorktreeInv, NEW g, Keeps(git, g), g.origin = git.origin, g.dir, git' \in Clone,
           git'.anc = g.anc, git'.trunk = g.trunk, git'.branch = g.branch, git'.archives = g.archives,
           git'.base = g.base, git'.merging = g.merging, git'.dir = g.dir, git'.proposals <= 1,
           g.salvages \subseteq git'.salvages, git'.salvages \subseteq g.salvages \cup {g.branch},
           git'.origin = g.origin \/ (git'.origin = g.branch /\ Pushable(g)),
           FactoryMade \/ made' = made, answer' \in Answers
    PROVE  WorktreeInv' /\ MovesOriginForward
<1>1. Sound(g) /\ g.branch # 0 /\ Sound(git)
    BY WorktreeFacts DEF Keeps, Sound, TreeIsCut
<1>2. Names(g) \subseteq Names(git') /\ Names(git') = Names(g) \cup git'.salvages /\ Names(git') \subseteq Names(g)
    BY DEF Names
<1>3. Names(git') \cup {git'.base, git'.merging, git'.origin} \subseteq 0..Newest(g)
    BY <1>1, <1>2 DEF Sound, RefsAreCommits, Names
<1>4. TreeIsCut(git')
    BY <1>1 DEF Sound, TreeIsCut, Reaches
<1>5. Keeps(g, git')
    BY <1>1, <1>2, <1>3, <1>4, SameHistory
<1>6. Keeps(git, git')
    BY <1>1, <1>5, KeepsOn
<1>7. WorktreeInv'
    BY <1>6, FactoryKeeps
<1>8. MovesOriginForward
    BY <1>1 DEF MovesOriginForward, Pushable, Reaches
<1> QED BY <1>7, <1>8

LEMMA SalvageStep ==
    ASSUME WorktreeInv, salvage PROVE WorktreeInv' /\ MovesOriginForward
<1>1. Sound(git) /\ git.dir /\ Room(git) /\ git.branch # 0
    BY WorktreeFacts DEF salvage, Sound, TreeIsCut
<1> DEFINE g == IF git.sealed /\ ~git.dirty THEN git ELSE [Committed(git) EXCEPT !.sealed = TRUE]
<1>2. g = IF git.sealed /\ ~git.dirty THEN git ELSE [Committed(git) EXCEPT !.sealed = TRUE]
    OBVIOUS
<1>4. PICK named \in BOOLEAN, pushed \in BOOLEAN :
          /\ pushed => Pushable(g)
          /\ git' = [g EXCEPT !.salvages = IF named THEN @ \cup {g.branch} ELSE @,
                              !.origin = IF pushed THEN g.branch ELSE @]
    BY Zenon DEF salvage
<1> HIDE DEF g
<1>3. /\ Keeps(git, g) /\ g.origin = git.origin /\ g.dir /\ g.proposals = git.proposals
      /\ g \in Clone /\ g.branch \in Commits
    <2>1. CASE git.sealed /\ ~git.dirty
        BY <1>1, <1>2, <2>1, KeepsItself, SoundFacts DEF Sound, Commits, Ref
    <2>2. CASE ~(git.sealed /\ ~git.dirty)
        <3>1. PICK h : h = Committed(git)
            OBVIOUS
        <3>2. /\ Keeps(git, h) /\ h.origin = git.origin /\ h.dir /\ Sound(h) /\ h \in Clone
              /\ h.proposals = git.proposals
            BY <1>1, <3>1, CommittedKeeps DEF Keeps, Sound
        <3>3. g = [h EXCEPT !.sealed = TRUE]
            BY <1>2, <2>2, <3>1
        <3>4. /\ g \in Clone /\ g.anc = h.anc /\ g.trunk = h.trunk /\ g.branch = h.branch
              /\ g.archives = h.archives /\ g.salvages = h.salvages /\ g.base = h.base
              /\ g.merging = h.merging /\ g.origin = h.origin /\ g.proposals = h.proposals
              /\ g.dir = h.dir
            BY <3>2, <3>3 DEF Clone
        <3>5. Names(g) = Names(h) /\ TreeIsCut(g)
            BY <3>2, <3>4 DEF Names, TreeIsCut, Sound, Reaches
        <3>6. Names(g) \cup {g.base, g.merging, g.origin} \subseteq 0..Newest(h)
            BY <3>2, <3>4, <3>5 DEF Sound, RefsAreCommits
        <3>7. Keeps(h, g)
            BY <3>2, <3>4, <3>5, <3>6, SameHistory
        <3>8. Keeps(git, g)
            BY <1>1, <3>2, <3>7, KeepsOn
        <3>9. g.branch \in Commits
            BY <1>1, <3>2, <3>4, <3>5, SoundFacts DEF TreeIsCut, Commits, Ref
        <3> QED BY <3>2, <3>4, <3>8, <3>9
    <2> QED BY <2>1, <2>2
<1>5. PICK salvages, origin :
          /\ salvages = IF named THEN g.salvages \cup {g.branch} ELSE g.salvages
          /\ origin = IF pushed THEN g.branch ELSE g.origin
    OBVIOUS
<1>6. git' = [g EXCEPT !.salvages = salvages, !.origin = origin]
    BY <1>3, <1>4, <1>5 DEF Clone
<1>7. salvages \in SUBSET Commits /\ origin \in Ref
    BY <1>3, <1>5 DEF Clone
<1>8. /\ git' \in Clone /\ git'.anc = g.anc /\ git'.trunk = g.trunk /\ git'.branch = g.branch
      /\ git'.archives = g.archives /\ git'.salvages = salvages /\ git'.base = g.base
      /\ git'.merging = g.merging /\ git'.origin = origin /\ git'.proposals = g.proposals
      /\ git'.dir = g.dir
    BY <1>3, <1>6, <1>7 DEF Clone
<1>9. /\ g.salvages \subseteq salvages /\ salvages \subseteq g.salvages \cup {g.branch}
      /\ origin = g.origin \/ (origin = g.branch /\ Pushable(g))
    BY <1>4, <1>5
<1>10. git'.proposals <= 1
    BY <1>3, <1>8, WorktreeFacts
<1>11. FactoryMade /\ answer' \in Answers
    BY DEF salvage, Answers
<1> QED BY <1>3, <1>8, <1>9, <1>10, <1>11, PushStep

LEMMA RemoveStep ==
    ASSUME WorktreeInv, remove PROVE WorktreeInv' /\ git'.origin = git.origin
<1>1. Sound(git) /\ git \in Clone /\ 0 \in Ref
    BY WorktreeFacts, WorktreeAssumption DEF Ref
<1>2. PICK bare : bare = [git EXCEPT !.dir = FALSE, !.dirty = FALSE, !.merging = 0, !.sealed = FALSE]
    OBVIOUS
<1>3. PICK gone : gone = [bare EXCEPT !.base = 0]
    OBVIOUS
<1>4. Run(<<bare, gone>>, "none")
    BY <1>1, <1>2, <1>3 DEF remove, Clone
<1>5. \A h \in {bare, gone} :
          /\ h \in Clone /\ h.anc = git.anc /\ h.trunk = git.trunk /\ h.branch = git.branch
          /\ h.archives = git.archives /\ h.salvages = git.salvages /\ h.base \in {0, git.base}
          /\ h.merging = 0 /\ h.origin = git.origin /\ h.proposals = git.proposals /\ ~h.dir
    <2>1. /\ bare \in Clone /\ bare.anc = git.anc /\ bare.trunk = git.trunk /\ bare.branch = git.branch
          /\ bare.archives = git.archives /\ bare.salvages = git.salvages /\ bare.base = git.base
          /\ bare.merging = 0 /\ bare.origin = git.origin /\ bare.proposals = git.proposals /\ ~bare.dir
        BY <1>1, <1>2 DEF Clone
    <2>2. /\ gone \in Clone /\ gone.anc = git.anc /\ gone.trunk = git.trunk /\ gone.branch = git.branch
          /\ gone.archives = git.archives /\ gone.salvages = git.salvages /\ gone.base = 0
          /\ gone.merging = 0 /\ gone.origin = git.origin /\ gone.proposals = git.proposals /\ ~gone.dir
        BY <1>1, <1>3, <2>1 DEF Clone
    <2> QED BY <2>1, <2>2
<1>6. ASSUME NEW h \in {bare, gone} PROVE Rebuilds(git, h)
    <2>1. Names(h) = Names(git) /\ TreeIsCut(h)
        BY <1>5 DEF Names, TreeIsCut
    <2>2. 0 \in 0..Newest(git) /\ Names(git) \cup {git.base, git.origin} \subseteq 0..Newest(git)
        BY <1>1, SoundFacts DEF Sound, RefsAreCommits
    <2>3. Names(h) \cup {h.base, h.merging, h.origin} \subseteq 0..Newest(git)
        BY <1>5, <2>1, <2>2
    <2> QED BY <1>1, <1>5, <2>1, <2>3, SameHistory DEF Rebuilds
<1>7. <<bare, gone>> \in Seq(Clone) /\ Len(<<bare, gone>>) = 2
      /\ <<bare, gone>>[1] = bare /\ <<bare, gone>>[2] = gone
    BY <1>5
<1>8. AllKeep(git, <<bare, gone>>)
    BY <1>6, <1>7 DEF AllKeep
<1>9. Rebuilds(git, git') /\ answer' \in Answers
    BY <1>1, <1>4, <1>8, RunKeeps DEF Answers
<1> QED BY <1>9, FactoryKeeps DEF remove, Rebuilds

LEMMA SyncStep ==
    ASSUME WorktreeInv, sync_with_target PROVE WorktreeInv' /\ git'.origin = git.origin
<1>1. /\ Sound(git) /\ git \in Clone /\ git.dir /\ Room(git) /\ git.branch # 0
      /\ FactoryMade /\ answer' \in Answers
    BY WorktreeFacts DEF sync_with_target, Sound, TreeIsCut, Answers
<1>2. git.trunk \in 1..Newest(git) /\ git.trunk \in Ref /\ git.trunk # 0
    BY <1>1, SoundFacts, SoundRefs DEF Commits, Ref
<1>3. CASE UNCHANGED git
    BY <1>1, <1>3, KeepsItself, FactoryKeeps
<1>4. ASSUME NEW h, h \in Clone, h.anc = git.anc, h.trunk = git.trunk, h.branch = git.branch,
             h.archives = git.archives, h.salvages = git.salvages, h.base = git.base,
             h.merging = git.trunk, h.origin = git.origin, h.proposals = git.proposals, h.dir = git.dir
      PROVE  Rebuilds(git, h)
    <2>1. Names(h) = Names(git) /\ TreeIsCut(h)
        BY <1>1, <1>4 DEF Names, TreeIsCut, Sound, Reaches
    <2>2. Names(git) \cup {git.base, git.origin} \subseteq 0..Newest(git) /\ git.trunk \in 0..Newest(git)
        BY <1>1, <1>2, SoundFacts DEF Sound, RefsAreCommits
    <2>3. Names(h) \cup {h.base, h.merging, h.origin} \subseteq 0..Newest(git)
        BY <1>4, <2>1, <2>2
    <2> QED BY <1>1, <1>4, <2>1, <2>3, SameHistory DEF Rebuilds
<1>5. CASE git' = Committed([git EXCEPT !.merging = git.trunk])
    <2>1. PICK m : m = [git EXCEPT !.merging = git.trunk]
        OBVIOUS
    <2>2. /\ m \in Clone /\ m.anc = git.anc /\ m.trunk = git.trunk /\ m.branch = git.branch
          /\ m.archives = git.archives /\ m.salvages = git.salvages /\ m.base = git.base
          /\ m.merging = git.trunk /\ m.origin = git.origin /\ m.proposals = git.proposals
          /\ m.dir = git.dir
        BY <1>1, <1>2, <2>1 DEF Clone
    <2>3. Rebuilds(git, m) /\ Sound(m) /\ Room(m) /\ m.branch # 0
        BY <1>1, <1>4, <2>2 DEF Rebuilds, Keeps, Room
    <2>4. Rebuilds(m, git')
        <3>1. PICK h : h = Committed(m)
            OBVIOUS
        <3>2. Rebuilds(m, h)
            BY <2>3, <3>1, CommittedKeeps DEF Rebuilds
        <3> QED BY <1>5, <2>1, <3>1, <3>2
    <2>5. Rebuilds(git, git')
        BY <1>1, <2>3, <2>4, KeepsOn DEF Rebuilds
    <2> QED BY <1>1, <2>5, FactoryKeeps DEF Rebuilds
<1>6. CASE git' = [git EXCEPT !.dirty = TRUE, !.merging = git.trunk]
    <2>1. /\ git' \in Clone /\ git'.anc = git.anc /\ git'.trunk = git.trunk /\ git'.branch = git.branch
          /\ git'.archives = git.archives /\ git'.salvages = git.salvages /\ git'.base = git.base
          /\ git'.merging = git.trunk /\ git'.origin = git.origin /\ git'.proposals = git.proposals
          /\ git'.dir = git.dir
        BY <1>1, <1>2, <1>6 DEF Clone
    <2>2. Rebuilds(git, git')
        BY <1>4, <2>1
    <2> QED BY <1>1, <2>2, FactoryKeeps DEF Rebuilds
<1> QED BY <1>3, <1>5, <1>6 DEF sync_with_target

LEMMA LandingStep ==
    ASSUME WorktreeInv, open_landing_pr PROVE WorktreeInv' /\ MovesOriginForward
<1>1. /\ Sound(git) /\ git \in Clone /\ git.dir /\ git.branch # 0 /\ git.proposals <= 1
      /\ git.proposals \in 0..2 /\ made' = made
    BY WorktreeFacts, SoundFacts DEF open_landing_pr, Sound, TreeIsCut
<1>2. CASE UNCHANGED git /\ answer' = "ref conflict"
    <2>1. answer' \in Answers
        BY <1>2 DEF Answers
    <2> QED BY <1>1, <1>2, <2>1, KeepsItself, FactoryKeeps DEF MovesOriginForward
<1>3. CASE Pushable(git)
    <2>1. PICK pushed : pushed = [git EXCEPT !.origin = git.branch]
        OBVIOUS
    <2>2. PICK proposals : proposals = IF git.proposals = 0 THEN 1 ELSE git.proposals
        OBVIOUS
    <2>3. PICK opened : opened = [pushed EXCEPT !.proposals = proposals]
        OBVIOUS
    <2>4. /\ pushed \in Clone /\ pushed.anc = git.anc /\ pushed.trunk = git.trunk
          /\ pushed.branch = git.branch /\ pushed.archives = git.archives
          /\ pushed.salvages = git.salvages /\ pushed.base = git.base /\ pushed.merging = git.merging
          /\ pushed.origin = git.branch /\ pushed.dir = git.dir /\ pushed.proposals = git.proposals
        BY <1>1, <2>1 DEF Clone
    <2>5. proposals \in 0..2 /\ proposals <= 1
        BY <1>1, <2>2
    <2>6. /\ opened \in Clone /\ opened.anc = git.anc /\ opened.trunk = git.trunk
          /\ opened.branch = git.branch /\ opened.archives = git.archives
          /\ opened.salvages = git.salvages /\ opened.base = git.base /\ opened.merging = git.merging
          /\ opened.origin = git.branch /\ opened.dir = git.dir /\ opened.proposals = proposals
        BY <2>3, <2>4, <2>5 DEF Clone
    <2>7. Run(<<pushed, opened>>, "landing")
        BY <1>1, <1>3, <2>1, <2>2, <2>3, <2>4 DEF open_landing_pr
    <2>8. git' \in {git, pushed, opened} /\ answer' \in Answers
        <3>1. Len(<<pushed, opened>>) = 2 /\ <<pushed, opened>>[1] = pushed
              /\ <<pushed, opened>>[2] = opened /\ <<pushed, opened>> # <<>>
            OBVIOUS
        <3>2. \A k \in 0..2 : k = 0 \/ k = 1 \/ k = 2
            OBVIOUS
        <3> QED BY <2>7, <3>1, <3>2 DEF Run, After, Last, Answers
    <2>9. /\ git' \in Clone /\ git'.anc = git.anc /\ git'.trunk = git.trunk /\ git'.branch = git.branch
          /\ git'.archives = git.archives /\ git'.salvages = git.salvages /\ git'.base = git.base
          /\ git'.merging = git.merging /\ git'.dir = git.dir /\ git'.proposals <= 1
          /\ git'.origin = git.origin \/ git'.origin = git.branch
        BY <1>1, <2>4, <2>5, <2>6, <2>8
    <2>10. Keeps(git, git)
        BY <1>1, KeepsItself
    <2> QED BY <1>1, <1>3, <2>8, <2>9, <2>10, PushStep
<1> QED BY <1>2, <1>3 DEF open_landing_pr

\* The landing branch is not the node's: no ref of the node moves.
LEMMA TrunkStep ==
    ASSUME WorktreeInv, TrunkMoves PROVE WorktreeInv' /\ git'.origin = git.origin
<1>1. /\ Sound(git) /\ git \in Clone /\ Room(git) /\ made' = made /\ answer' \in Answers
      /\ git.proposals <= 1
    BY WorktreeFacts DEF TrunkMoves, Answers
<1>2. PICK new : new = Newest(git) + 1
    OBVIOUS
<1>3. PICK reached \in {git.anc[git.trunk], {}} :
          git' = [git EXCEPT !.anc = Append(@, reached \cup {Newest(git) + 1}), !.trunk = Newest(git) + 1]
    BY DEF TrunkMoves
<1>4. PICK anc : anc = Append(git.anc, reached \cup {Newest(git) + 1})
    OBVIOUS
<1>5. /\ Newest(git) \in Nat /\ git.anc \in Seq(SUBSET Commits) /\ git.trunk \in 1..Newest(git)
      /\ MaxCommits \in Nat /\ new \in Commits
    BY <1>1, <1>2, SoundFacts, SoundRefs DEF Room, Newest, Commits
<1>6. Closed(git, reached)
    <2>1. /\ git.anc[git.trunk] \subseteq 1..Newest(git)
          /\ \A a \in git.anc[git.trunk] : git.anc[a] \subseteq git.anc[git.trunk]
        BY <1>1, <1>5 DEF Sound, Ancestry
    <2> QED BY <1>3, <2>1 DEF Closed
<1>7. anc \in Seq(SUBSET Commits)
    <2>1. 1..Newest(git) \subseteq Commits
        BY <1>1, <1>5 DEF Commits, Room, Newest
    <2>2. reached \cup {new} \in SUBSET Commits
        BY <1>5, <1>6, <2>1 DEF Closed
    <2> QED BY <1>2, <1>4, <1>5, <2>2
<1>8. git' = [git EXCEPT !.anc = anc, !.trunk = new]
    BY <1>1, <1>2, <1>3, <1>4 DEF Clone
<1>9. PICK h : h = git'
    OBVIOUS
<1>10. /\ h \in Clone /\ h.anc = anc /\ h.trunk = new /\ h.branch = git.branch
       /\ h.archives = git.archives /\ h.salvages = git.salvages /\ h.base = git.base
       /\ h.merging = git.merging /\ h.origin = git.origin /\ h.proposals = git.proposals
       /\ h.dir = git.dir
    BY <1>1, <1>5, <1>7, <1>8, <1>9 DEF Clone
<1>11. CommitsOn(git, h, reached)
    BY <1>4, <1>10 DEF CommitsOn
<1>12. /\ Newest(h) = Newest(git) + 1 /\ Newest(h) <= MaxCommits
       /\ \A c \in 1..Newest(git) : h.anc[c] = git.anc[c]
       /\ Ancestry(h)
    BY <1>1, <1>6, <1>10, <1>11, OneMore
<1>13. 0..Newest(git) \subseteq 0..Newest(h) /\ 1..Newest(git) \subseteq 1..Newest(h) /\ new \in 1..Newest(h)
    BY <1>2, <1>5, <1>12
<1>14. RefsAreCommits(h)
    <2>1. Names(h) = Names(git)
        BY <1>10 DEF Names
    <2>2. Names(git) \cup {git.base, git.merging, git.origin} \subseteq 0..Newest(git)
        BY <1>1 DEF Sound, RefsAreCommits
    <2>3. Names(h) \cup {h.base, h.merging, h.origin} \subseteq 0..Newest(h)
        BY <1>10, <1>13, <2>1, <2>2
    <2> QED BY <1>10, <1>13, <2>3 DEF RefsAreCommits
<1>15. TreeIsCut(h)
    BY <1>1, <1>10, <1>12, SoundRefs DEF Sound, TreeIsCut, Reaches
<1>16. Sound(h)
    BY <1>10, <1>12, <1>14, <1>15 DEF Sound
<1>17. ASSUME NEW c \in made PROVE Held(h, c)
    <2>1. PICK a \in Names(git) \ {0} : c \in git.anc[a]
        BY WorktreeFacts DEF Held, Holds, Reaches
    <2>2. a \in 1..Newest(git)
        BY <1>1, <2>1, SoundRefs DEF Names
    <2> QED BY <1>10, <1>12, <2>1, <2>2 DEF Held, Holds, Reaches, Names
<1>18. WorktreeInv'
    <2>1. Sound(git') /\ git'.proposals <= 1 /\ answer' \in Answers
        BY <1>1, <1>9, <1>10, <1>16
    <2>2. made' \subseteq 1..Newest(git')
        BY <1>1, <1>9, <1>13, WorktreeFacts
    <2>3. \A c \in made' : Held(git', c)
        BY <1>1, <1>9, <1>17
    <2> QED BY <2>1, <2>2, <2>3, InvHolds
<1> QED BY <1>9, <1>10, <1>18

\* The proposal ends, or origin's branch goes whose commits origin keeps.
LEMMA RemoteStep ==
    ASSUME WorktreeInv, ProposalEnds \/ DeletesRemoteBranch PROVE WorktreeInv' /\ MovesOriginForward
<1>1. /\ Sound(git) /\ git \in Clone /\ made' = made /\ answer' \in Answers
      /\ git.proposals <= 1 /\ git.proposals \in 0..2 /\ 0 \in Ref
    <2>1. Sound(git) /\ git \in Clone /\ git.proposals <= 1
        BY WorktreeFacts
    <2>2. made' = made /\ answer' = "none"
        BY DEF ProposalEnds, DeletesRemoteBranch
    <2>3. git.proposals \in 0..2
        BY <2>1, SoundFacts
    <2>4. 0 \in Ref
        BY WorktreeAssumption DEF Ref
    <2> QED BY <2>1, <2>2, <2>3, <2>4 DEF Answers
<1>2. /\ git' \in Clone /\ git'.anc = git.anc /\ git'.trunk = git.trunk /\ git'.branch = git.branch
      /\ git'.archives = git.archives /\ git'.salvages = git.salvages /\ git'.base = git.base
      /\ git'.merging = git.merging /\ git'.dir = git.dir /\ git'.proposals <= 1 /\ git'.kept = git.kept
      /\ git'.origin = git.origin \/ (git'.origin = 0 /\ Holds(git, git.kept, git.origin))
    <2>1. CASE ProposalEnds
        <3>1. PICK proposals : proposals = git.proposals - 1
            OBVIOUS
        <3>2. git' = [git EXCEPT !.proposals = proposals] /\ proposals \in 0..2 /\ proposals <= 1
            BY <1>1, <2>1, <3>1 DEF ProposalEnds, Clone
        <3> QED BY <1>1, <3>2 DEF Clone
    <2>2. CASE DeletesRemoteBranch
        <3>1. git' = [git EXCEPT !.origin = 0, !.proposals = 0] /\ Holds(git, git.kept, git.origin)
            BY <2>2 DEF DeletesRemoteBranch
        <3>2. 0 \in 0..2 /\ 0 <= 1
            OBVIOUS
        <3> QED BY <1>1, <3>1, <3>2 DEF Clone
    <2> QED BY <2>1, <2>2
<1>3. Names(git') = Names(git) /\ TreeIsCut(git')
    BY <1>1, <1>2 DEF Names, TreeIsCut, Sound, Reaches
<1>4. Names(git') \cup {git'.base, git'.merging, git'.origin} \subseteq 0..Newest(git)
    <2>1. 0 \in 0..Newest(git) /\ Names(git) \cup {git.base, git.merging, git.origin} \subseteq 0..Newest(git)
        BY <1>1, SoundFacts DEF Sound, RefsAreCommits
    <2> QED BY <1>2, <1>3, <2>1
<1>5. Keeps(git, git')
    BY <1>1, <1>2, <1>3, <1>4, SameHistory
<1>6. MovesOriginForward
    BY <1>2 DEF MovesOriginForward, Holds, Reaches
<1> QED BY <1>1, <1>5, <1>6, FactoryKeeps

\* Where reset ends when clearing the remote branch breaks off after k stages.
ResetEnds(g, stages, k) == [IF k = 0 THEN g ELSE stages[k] EXCEPT !.base = 0]

\* The branch on origin goes only once origin keeps an archive that holds it.
LEMMA ClearKeepsClone ==
    ASSUME NEW g, Sound(g), NEW stages \in ClearStages(g), NEW k \in 0..Len(stages),
           NEW h, h = ResetEnds(g, stages, k)
    PROVE  /\ Keeps(g, h)
           /\ h.origin = g.origin \/ (h.origin = 0 /\ Holds(h, h.kept, g.origin))
<1>1. /\ g \in Clone /\ 0 \in Ref /\ Names(g) \cup {g.base, g.merging, g.origin} \subseteq 0..Newest(g)
      /\ 0 \in 0..Newest(g)
    BY SoundFacts, WorktreeAssumption DEF Sound, RefsAreCommits, Ref
<1>2. ASSUME NEW m, m \in Clone, m.anc = g.anc, m.trunk = g.trunk, m.branch = g.branch,
             m.archives = g.archives, m.salvages = g.salvages, m.base = g.base, m.merging = g.merging,
             m.dir = g.dir, m.proposals = g.proposals \/ m.proposals = 0, m.origin \in {0, g.origin},
             h = [m EXCEPT !.base = 0]
      PROVE  Keeps(g, h) /\ h.origin = m.origin /\ h.kept = m.kept /\ h.anc = g.anc
    <2>1. /\ h \in Clone /\ h.anc = g.anc /\ h.trunk = g.trunk /\ h.branch = g.branch
          /\ h.archives = g.archives /\ h.salvages = g.salvages /\ h.base = 0 /\ h.merging = g.merging
          /\ h.dir = g.dir /\ h.proposals = m.proposals /\ h.origin = m.origin /\ h.kept = m.kept
        BY <1>1, <1>2 DEF Clone
    <2>2. Names(h) = Names(g) /\ TreeIsCut(h)
        BY <2>1 DEF Names, TreeIsCut, Sound
    <2>3. Names(h) \cup {h.base, h.merging, h.origin} \subseteq 0..Newest(g)
        BY <1>1, <1>2, <2>1, <2>2
    <2>4. g.proposals <= 1 => h.proposals <= 1
        BY <1>2, <2>1
    <2> QED BY <2>1, <2>2, <2>3, <2>4, SameHistory
<1>3. CASE k = 0
    <2>1. h = [g EXCEPT !.base = 0]
        BY <1>3 DEF ResetEnds
    <2> QED BY <1>1, <1>2, <2>1
<1>4. CASE k # 0
    <2>1. stages # <<>>
        BY <1>4
    <2>2. PICK a \in g.archives : /\ Reaches(g, a, g.origin)
                                  /\ stages = <<[g EXCEPT !.kept = @ \cup {a}],
                                                [[g EXCEPT !.kept = @ \cup {a}] EXCEPT !.origin = 0, !.proposals = 0]>>
        BY <2>1 DEF ClearStages
    <2>3. PICK kept : kept = [g EXCEPT !.kept = @ \cup {a}]
        OBVIOUS
    <2>4. PICK cleared : cleared = [kept EXCEPT !.origin = 0, !.proposals = 0]
        OBVIOUS
    <2>5. stages = <<kept, cleared>>
        BY <2>2, <2>3, <2>4
    <2>6. a \in Commits /\ a # 0 /\ g.kept \cup {a} \in SUBSET Commits /\ 0 \in 0..2
        BY <1>1, <2>2 DEF Clone, Commits
    <2>7. /\ kept \in Clone /\ kept.anc = g.anc /\ kept.trunk = g.trunk /\ kept.branch = g.branch
          /\ kept.archives = g.archives /\ kept.salvages = g.salvages /\ kept.base = g.base
          /\ kept.merging = g.merging /\ kept.dir = g.dir /\ kept.proposals = g.proposals
          /\ kept.origin = g.origin
        BY <1>1, <2>3, <2>6 DEF Clone
    <2>8. /\ cleared \in Clone /\ cleared.anc = g.anc /\ cleared.trunk = g.trunk /\ cleared.branch = g.branch
          /\ cleared.archives = g.archives /\ cleared.salvages = g.salvages /\ cleared.base = g.base
          /\ cleared.merging = g.merging /\ cleared.dir = g.dir /\ cleared.proposals = 0
          /\ cleared.origin = 0 /\ cleared.kept = g.kept \cup {a}
        BY <1>1, <2>3, <2>4, <2>6, <2>7 DEF Clone
    <2>9. k = 1 \/ k = 2
        BY <1>4, <2>5
    <2>10. CASE k = 1
        <3>1. h = [kept EXCEPT !.base = 0]
            BY <2>5, <2>10 DEF ResetEnds
        <3> QED BY <1>2, <2>7, <3>1
    <2>11. CASE k = 2
        <3>1. h = [cleared EXCEPT !.base = 0]
            BY <2>5, <2>11 DEF ResetEnds
        <3>2. Keeps(g, h) /\ h.origin = 0 /\ h.kept = g.kept \cup {a} /\ h.anc = g.anc
            BY <1>2, <2>8, <3>1
        <3> QED BY <2>2, <2>6, <3>2 DEF Holds, Reaches
    <2> QED BY <2>9, <2>10, <2>11
<1> QED BY <1>3, <1>4

LEMMA ResetStep ==
    ASSUME WorktreeInv, reset PROVE WorktreeInv' /\ MovesOriginForward
<1>1. Sound(git) /\ Room(git) /\ FactoryMade
    BY WorktreeFacts DEF reset
<1>2. PICK archived : archived = IF git.dir \/ git.branch # 0 THEN ArchiveStages(git) ELSE <<>>
    OBVIOUS
<1>3. PICK g : g = After(git, archived)
    OBVIOUS
<1>4. PICK clear \in ClearStages(g) :
          \/ Run(archived, "none")
          \/ \E k \in 0..Len(clear) :
                /\ git' = [IF k = 0 THEN g ELSE clear[k] EXCEPT !.base = 0]
                /\ answer' = "reset"
    BY <1>2, <1>3 DEF reset
<1>5. AllKeep(git, archived) /\ Sound(g) /\ Rebuilds(git, g)
    BY <1>1, <1>2, <1>3, MaybeArchive, AfterKeeps
<1>6. CASE Run(archived, "none")
    <2>1. Rebuilds(git, git') /\ answer' \in Answers
        BY <1>1, <1>5, <1>6, RunKeeps DEF Answers
    <2> QED BY <1>1, <2>1, FactoryKeeps DEF Rebuilds, MovesOriginForward
<1>7. CASE \E k \in 0..Len(clear) :
              /\ git' = [IF k = 0 THEN g ELSE clear[k] EXCEPT !.base = 0]
              /\ answer' = "reset"
    <2>1. PICK k \in 0..Len(clear) : git' = ResetEnds(g, clear, k) /\ answer' = "reset"
        BY <1>7 DEF ResetEnds
    <2>2. PICK h : h = git'
        OBVIOUS
    <2>3. /\ Keeps(g, h)
          /\ h.origin = g.origin \/ (h.origin = 0 /\ Holds(h, h.kept, g.origin))
        BY <1>5, <2>1, <2>2, ClearKeepsClone
    <2>4. Keeps(git, h) /\ g.origin = git.origin
        BY <1>1, <1>5, <2>3, KeepsOn DEF Rebuilds
    <2>5. answer' \in Answers
        BY <2>1 DEF Answers
    <2> QED BY <1>1, <2>2, <2>3, <2>4, <2>5, FactoryKeeps DEF MovesOriginForward
<1> QED BY <1>4, <1>6, <1>7

-----------------------------------------------------------------------------
(* The results *)

LEMMA WorktreeBegins ==
    ASSUME WorktreeInit PROVE WorktreeInv
<1>1. /\ 1 \in Commits /\ 0 \in Ref /\ 0 \in 0..2 /\ 1 <= MaxCommits
    BY WorktreeAssumption DEF Commits, Ref
<1>2. <<{1}>> \in Seq(SUBSET Commits) /\ Len(<<{1}>>) = 1 /\ <<{1}>>[1] = {1}
    BY <1>1
<1>3. /\ git.anc = <<{1}>> /\ git.trunk = 1 /\ git.branch = 0 /\ git.archives = {} /\ git.salvages = {}
      /\ git.base = 0 /\ git.merging = 0 /\ git.origin = 0 /\ ~git.dir /\ git.proposals = 0
      /\ answer = "none" /\ made = {}
    BY DEF WorktreeInit
<1>4. git \in Clone
    BY <1>1, <1>2 DEF WorktreeInit, Clone
<1>5. Newest(git) = 1 /\ \A c \in 1..Newest(git) : c = 1
    BY <1>2, <1>3 DEF Newest
<1>6. Ancestry(git)
    BY <1>2, <1>3, <1>5 DEF Ancestry
<1>7. RefsAreCommits(git) /\ TreeIsCut(git)
    BY <1>3, <1>5 DEF RefsAreCommits, TreeIsCut, Names
<1>8. Sound(git)
    BY <1>1, <1>4, <1>5, <1>6, <1>7 DEF Sound
<1> QED BY <1>1, <1>2, <1>3, <1>4, <1>8 DEF WorktreeInv, WorktreeTypeOK, WorkStaysReachable, OneProposal

LEMMA WorktreeKeeps ==
    ASSUME WorktreeInv, [WorktreeNext]_wvars
    PROVE  WorktreeInv' /\ MovesOriginForward
<1>1. CASE UNCHANGED wvars
    <2>1. git' = git /\ made' = made /\ answer' = answer
        BY <1>1 DEF wvars
    <2> QED BY <2>1, WorktreeFacts, KeepsItself, FactoryKeeps DEF MovesOriginForward
<1>2. CASE WorktreeNext
    BY <1>2, EnsureStep, WorksStep, SalvageStep, RemoveStep, SyncStep, LandingStep, TrunkStep,
       RemoteStep, ResetStep DEF WorktreeNext, MovesOriginForward
<1> QED BY <1>1, <1>2

\* What a run of stages that save leaves, what a reset goes on to, and what each
\* other step writes of the tree.
LEMMA DirtStep ==
    ASSUME WorktreeInv, [WorktreeNext]_wvars PROVE CommitsDirt
<1>1. Sound(git) /\ git \in Clone /\ Newest(git) \in Nat
    BY WorktreeFacts
<1>2. SUFFICES ASSUME ~remove PROVE Saves(git, git')
    BY <1>1, SoundFacts, WorktreeKeeps DEF CommitsDirt, Saves, WorktreeInv
<1>3. CASE UNCHANGED wvars
    BY <1>3 DEF wvars, Saves
<1>4. CASE ensure
    BY <1>1, <1>4, EnsureKeeps, RunKeeps DEF ensure
<1>5. CASE AgentWorks
    <2>1. CASE git' = [git EXCEPT !.dirty = TRUE, !.sealed = FALSE]
        BY <1>1, <2>1 DEF Clone, Saves
    <2>2. CASE git' = [Committed(git) EXCEPT !.sealed = FALSE]
        <3>1. DOMAIN Committed(git) = DOMAIN git
            BY DEF Committed
        <3>2. git'.anc = Committed(git).anc
            BY <1>1, <2>2, <3>1 DEF Clone
        <3> QED BY <1>1, <3>2, CommittedSaves DEF Saves, Newest
    <2>3. CASE git' = [git EXCEPT !.anc = Append(@, (git.anc[git.branch] \ {git.branch}) \cup {Len(@) + 1}),
                                  !.branch = Newest(git) + 1, !.dirty = FALSE, !.sealed = FALSE]
        <3>1. \E set : git'.anc = Append(git.anc, set)
            BY <1>1, <2>3 DEF Clone
        <3> QED BY <1>1, <3>1 DEF Saves, Newest, Clone
    <2> QED BY <1>5, <2>1, <2>2, <2>3 DEF AgentWorks
<1>6. CASE salvage
    <2> DEFINE g == IF git.sealed /\ ~git.dirty THEN git ELSE [Committed(git) EXCEPT !.sealed = TRUE]
    <2>1. \E salvages, origin : git' = [g EXCEPT !.salvages = salvages, !.origin = origin]
        <3>1. PICK named \in BOOLEAN, pushed \in BOOLEAN :
                  git' = [g EXCEPT !.salvages = IF named THEN @ \cup {g.branch} ELSE @,
                                   !.origin = IF pushed THEN g.branch ELSE @]
            BY <1>6, Zenon DEF salvage
        <3> QED BY <3>1
    <2>2. DOMAIN Committed(git) = DOMAIN git
        BY DEF Committed
    <2>3. DOMAIN g = DOMAIN git /\ (git.dirty => g.anc = Committed(git).anc)
        BY <1>1, <2>2 DEF Clone
    <2>4. git.dirty => git'.anc = Committed(git).anc
        <3> HIDE DEF g
        <3> QED BY <1>1, <2>1, <2>3 DEF Clone
    <2> QED BY <1>1, <2>4, CommittedSaves DEF Saves, Newest
<1>7. CASE sync_with_target
    BY <1>1, <1>7 DEF sync_with_target, Clone, Saves
<1>8. CASE open_landing_pr
    <2>1. CASE UNCHANGED git
        BY <2>1 DEF Saves
    <2>2. PICK pushed : pushed = [git EXCEPT !.origin = git.branch]
        OBVIOUS
    <2>3. PICK opened : opened = [pushed EXCEPT !.proposals = IF @ = 0 THEN 1 ELSE @]
        OBVIOUS
    <2>4. CASE Run(<<pushed, opened>>, "landing")
        <3>1. Len(<<pushed, opened>>) = 2 /\ <<pushed, opened>>[1] = pushed
              /\ <<pushed, opened>>[2] = opened /\ <<pushed, opened>> # <<>>
            OBVIOUS
        <3>2. \A k \in 0..2 : k = 0 \/ k = 1 \/ k = 2
            OBVIOUS
        <3>3. git' \in {git, pushed, opened}
            BY <2>4, <3>1, <3>2 DEF Run, After, Last
        <3>4. pushed.dirty = git.dirty /\ opened.dirty = git.dirty
            BY <1>1, <2>2, <2>3 DEF Clone
        <3> QED BY <3>3, <3>4 DEF Saves
    <2> QED BY <1>8, <2>1, <2>2, <2>3, <2>4 DEF open_landing_pr
<1>9. CASE TrunkMoves \/ ProposalEnds \/ DeletesRemoteBranch
    <2>1. git'.dirty = git.dirty
        BY <1>1, <1>9 DEF TrunkMoves, ProposalEnds, DeletesRemoteBranch, Clone
    <2> QED BY <2>1 DEF Saves
<1>10. CASE reset
    <2>1. PICK archived : archived = IF git.dir \/ git.branch # 0 THEN ArchiveStages(git) ELSE <<>>
        OBVIOUS
    <2>2. PICK g : g = After(git, archived)
        OBVIOUS
    <2>3. PICK clear \in ClearStages(g) :
              \/ Run(archived, "none")
              \/ \E k \in 0..Len(clear) : git' = ResetEnds(g, clear, k)
        BY <1>10, <2>1, <2>2 DEF reset, ResetEnds
    <2>4. AllKeep(git, archived) /\ AllSave(git, archived) /\ Sound(g)
        BY <1>1, <1>10, <2>1, <2>2, MaybeArchive DEF reset
    <2>5. CASE Run(archived, "none")
        BY <1>1, <2>4, <2>5, RunKeeps
    <2>6. CASE \E k \in 0..Len(clear) : git' = ResetEnds(g, clear, k)
        <3>1. g \in Clone /\ Saves(git, g)
            BY <2>2, <2>4, AfterSaves DEF Sound
        <3>2. PICK k \in 0..Len(clear) : git' = ResetEnds(g, clear, k)
            BY <2>6
        <3>3. git'.dirty = g.dirty /\ git'.anc = g.anc
            <4>1. CASE k = 0
                BY <3>1, <3>2, <4>1 DEF ResetEnds, Clone
            <4>2. CASE k # 0
                <5>1. clear # <<>>
                    BY <3>2, <4>2
                <5>2. PICK kept : /\ kept \in {[g EXCEPT !.kept = @ \cup {a}] : a \in g.archives}
                                  /\ clear = <<kept, [kept EXCEPT !.origin = 0, !.proposals = 0]>>
                    BY <5>1 DEF ClearStages
                <5>3. DOMAIN kept = DOMAIN g /\ kept.dirty = g.dirty /\ kept.anc = g.anc
                    BY <3>1, <5>2 DEF Clone
                <5>4. k = 1 \/ k = 2
                    BY <4>2, <5>2
                <5>5. PICK end : end = clear[k]
                    OBVIOUS
                <5>6. end = kept \/ end = [kept EXCEPT !.origin = 0, !.proposals = 0]
                    BY <5>2, <5>4, <5>5
                <5>7. DOMAIN end = DOMAIN g /\ end.dirty = g.dirty /\ end.anc = g.anc
                    BY <3>1, <5>3, <5>6 DEF Clone
                <5>8. git' = [end EXCEPT !.base = 0]
                    BY <3>2, <4>2, <5>5 DEF ResetEnds
                <5> QED BY <3>1, <5>7, <5>8 DEF Clone
            <4> QED BY <4>1, <4>2
        <3> QED BY <3>1, <3>3 DEF Saves, Newest
    <2> QED BY <2>3, <2>5, <2>6
<1> QED BY <1>2, <1>3, <1>4, <1>5, <1>6, <1>7, <1>8, <1>9, <1>10 DEF WorktreeNext

\* The state of a node's clone under every interleaving of the operations of
\* worktree.py: every stage of each is sound, and what it holds it goes on holding.
THEOREM WorktreeInvariant == WorktreeSpec => []WorktreeInv
<1>1. WorktreeInit => WorktreeInv
    BY WorktreeBegins
<1>2. WorktreeInv /\ [WorktreeNext]_wvars => WorktreeInv'
    BY WorktreeKeeps
<1> QED BY <1>1, <1>2, PTL DEF WorktreeSpec

\* The clone, its origin and the node's directory are what git makes of them.
THEOREM WorktreeTypeCorrect == WorktreeSpec => []WorktreeTypeOK
<1>1. WorktreeInv => WorktreeTypeOK
    BY DEF WorktreeInv
<1> QED BY <1>1, WorktreeInvariant, PTL

\* No commit made for a node goes out of reach, the tree was cut from the commit
\* its diff is read against, and its branch has one proposal, wherever archive,
\* rebuild, salvage, landing and reset break off.
THEOREM WorkAlwaysKept == WorktreeSpec => []WorkIsKept
<1>1. WorktreeInv => WorkIsKept
    BY DEF WorktreeInv, Sound, TreeIsCut, WorkIsKept, CutFromItsPin
<1> QED BY <1>1, WorktreeInvariant, PTL

\* The branch on origin is never forced: it moves on to a commit that reaches it,
\* or goes when origin keeps all it held.
THEOREM OriginAlwaysMovesForward == WorktreeSpec => OriginOnlyMovesForward
<1>1. WorktreeInv /\ [WorktreeNext]_wvars => [MovesOriginForward]_wvars
    BY WorktreeKeeps
<1>2. [][WorktreeNext]_wvars /\ []WorktreeInv => OriginOnlyMovesForward
    BY <1>1, PTL DEF OriginOnlyMovesForward
<1> QED BY <1>2, WorktreeInvariant, PTL DEF WorktreeSpec

\* What an agent left uncommitted leaves its tree as a commit, or with the tree
\* when `remove` is called, in no other step and at no break in one.
THEOREM DirtAlwaysCommitted == WorktreeSpec => DirtIsCommitted
<1>1. WorktreeInv /\ [WorktreeNext]_wvars => [CommitsDirt]_wvars
    BY DirtStep
<1>2. [][WorktreeNext]_wvars /\ []WorktreeInv => DirtIsCommitted
    BY <1>1, PTL DEF DirtIsCommitted
<1> QED BY <1>2, WorktreeInvariant, PTL DEF WorktreeSpec
=============================================================================
