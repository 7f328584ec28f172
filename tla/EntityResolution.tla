--------------------------- MODULE EntityResolution ---------------------------
(* Entity resolution, pass after pass: block, score, take the components of   *)
(* the accepted pairs, refine them by average linkage, elect a survivor and   *)
(* merge; a merge is undone from its snapshots, by whoever holds its record.  *)
EXTENDS Integers, FiniteSets, Sequences, FiniteSetsExt

CONSTANTS
    Ids,         \* entity ids, ordered as the strings are
    FirstSeen,   \* per id, when it was first seen; 0: not known
    Mentions,    \* per id, how often it was mentioned
    Blocks,      \* the blocks: [low (a low-precision kind), ids]
    MaxBlock,    \* max_block_size
    Floor,       \* MIN_WITHIN_CLUSTER_LINKAGE, in percent
    Evidence,    \* what the features of a pair may say
    MaxPasses, MaxUnmerges

ASSUME ResolutionAssumption ==
    /\ Ids \subseteq Nat /\ IsFiniteSet(Ids) /\ FirstSeen \in [Ids -> Nat] /\ Mentions \in [Ids -> Nat]
    /\ \A b \in Blocks : b.low \in BOOLEAN /\ b.ids \subseteq Ids
    /\ {MaxBlock, Floor, MaxPasses, MaxUnmerges} \subseteq Nat

Pairs == kSubset(2, Ids)

VARIABLES
    verdict,    \* per pair, what its features say
    live,       \* the records that are not merged away
    merges,     \* the merge log: [into, members (their snapshots)]
    mustNot,    \* pairs an un-merge has separated
    refining,   \* the components of the pass: the clusters each still has
    passes, unmerges,
    known,      \* history: the ids that ever came in
    standing,   \* history: of each merge of the log, the members it still holds
    strayed     \* history: whether an un-merge was not of an outermost merge

resolutionVars == <<known, standing, strayed, verdict, live, merges, mustNot, refining, passes, unmerges>>

-----------------------------------------------------------------------------
(* Blocking and scoring.                                                    *)

\* BlockingIndex.candidate_pairs: pairs of one block; an oversized block of a
\* low-precision kind proposes none.
Candidates(ids) ==
    UNION {kSubset(2, b.ids \cap ids) :
             b \in {x \in Blocks : ~(x.low /\ Cardinality(x.ids \cap ids) > MaxBlock)}}

\* MatchScorer._compute: a conflict of types or identifiers and a shared
\* identifier decide alone; a score in the merge band without evidence in the
\* names is for a reviewer.
Combined(pair) ==
    CASE verdict[pair] = "identifier" -> 100
      [] verdict[pair] \in {"alike", "unnamed"} -> 95
      [] verdict[pair] = "similar" -> 80
      [] verdict[pair] \in {"conflict", "different"} -> 0
Accepted(pair) == verdict[pair] \in {"identifier", "alike"}

-----------------------------------------------------------------------------
(* Components and their refinement.                                         *)

\* _UnionFind over the accepted pairs: what is connected.
SelfContained(ids, links) == \A p \in links : p \cap ids # {} => p \subseteq ids
Components(ids, links) ==
    {c \in (SUBSET ids) \ {{}} : /\ SelfContained(c, links)
                               /\ \A d \in (SUBSET c) \ {{}} : SelfContained(d, links) => d = c}

\* Pairs nobody proposed are scored as well; a forbidden pair counts as 0.
Similarity(a, b) == IF {a, b} \in mustNot THEN 0 ELSE Combined({a, b})

\* _average_linkage, as [sum, of].
Linkage(l, r) ==
    [sum |-> MapThenSumSet(LAMBDA ab : Similarity(ab[1], ab[2]), l \X r),
     of  |-> Cardinality(l) * Cardinality(r)]
Above(x, y) == x.sum * y.of > y.sum * x.of

\* Lexicographic order of sorted ids, decided by the first one they differ in.
Earlier(s, t) ==
    \E d \in (s \cup t) \ (s \cap t) :
       /\ \A i \in (s \cup t) \ (s \cap t) : d <= i
       /\ IF d \in s THEN \E i \in t : d < i ELSE \A i \in s : i < d

\* Clusters and components come sorted; they are disjoint.
Leads(s, t) == \E i \in s : \A j \in t : i < j

\* refine_component: what may be joined, and of two such pairs the one that
\* agrees more, or of equal ones the first by its sorted members.
Link(p) == LET l == CHOOSE x \in p : TRUE IN Linkage(l, CHOOSE x \in p \ {l} : TRUE)
Near(clusters) == {p \in kSubset(2, clusters) : Link(p).sum >= Floor * Link(p).of}
Prefers(p, q) ==
    \/ Above(Link(p), Link(q))
    \/ ~Above(Link(q), Link(p)) /\ ~Earlier(UNION q, UNION p)

Singletons(ids) == {{i} : i \in ids}

-----------------------------------------------------------------------------
(* The merge.                                                               *)

\* The best evidenced record survives.
ByMentions(r, s) == r.mentions > s.mentions
\* _survivor_sort_key: first seen first, unknown last; then mentions; then id.
Outranks(r, s) ==
    \/ r.seen # 0 /\ (s.seen = 0 \/ r.seen < s.seen)
    \/ /\ r.seen = s.seen
       /\ r.mentions > s.mentions \/ (r.mentions = s.mentions /\ r.id <= s.id)

\* elect_survivor
Survivor(members) ==
    CHOOSE r \in members : \A s \in members : r = s \/ Outranks(r, s)

\* Only the ids absorbed now are kept.
AbsorbedNow(members, survivor) == {m.id : m \in members} \ {survivor.id}
\* merged_from: the ids absorbed now and those the members had absorbed.
Absorbed(members, survivor) ==
    ({m.id : m \in members} \cup UNION {m.from : m \in members}) \ {survivor.id}

\* _merge_into
MergeInto(survivor, members) ==
    [id |-> survivor.id,
     seen |-> LET stamps == {m.seen : m \in members} \ {0}
              IN  IF stamps = {} THEN 0 ELSE Min(stamps),
     mentions |-> Cardinality(UNION {{m.id} \X (1..m.mentions) : m \in members}),
     from |-> Absorbed(members, survivor)]

Fresh(i) == [id |-> i, seen |-> FirstSeen[i], mentions |-> Mentions[i], from |-> {}]
LiveIds == {r.id : r \in live}

ResolutionInit ==
    /\ verdict \in [Pairs -> Evidence]
    /\ live = {} /\ merges = <<>> /\ mustNot = {} /\ refining = {} /\ passes = 0 /\ unmerges = 0
    /\ known = {} /\ standing = <<>> /\ strayed = FALSE

\* Records of new entities come in between passes.
Arrive ==
    /\ refining = {} /\ passes < MaxPasses
    /\ \E ids \in SUBSET (Ids \ known) :
          ids # {} /\ known' = known \cup ids /\ live' = live \cup {Fresh(i) : i \in ids}
    /\ UNCHANGED <<standing, strayed, verdict, merges, mustNot, refining, passes, unmerges>>

\* resolve: score the candidates and take the components.
Resolve ==
    /\ refining = {} /\ passes < MaxPasses /\ passes' = passes + 1
    /\ refining' = {Singletons(c) : c \in
           Components(LiveIds, {p \in Candidates(LiveIds) : p \notin mustNot /\ Accepted(p)})}
    /\ UNCHANGED <<known, standing, strayed, verdict, live, merges, mustNot, unmerges>>

\* The component that resolve has come to.
InTurn(clusters) ==
    clusters \in refining /\ \A others \in refining \ {clusters} : Leads(UNION clusters, UNION others)

\* refine_component: join the two clusters that agree most while they agree
\* enough.
Join ==
    /\ \E clusters \in refining : InTurn(clusters) /\
       \E best \in Near(clusters) :
          /\ \A p \in Near(clusters) \ {best} : Prefers(best, p)
          /\ refining' = (refining \ {clusters}) \cup {(clusters \ best) \cup {UNION best}}
    /\ UNCHANGED <<known, standing, strayed, verdict, live, merges, mustNot, passes, unmerges>>

\* _build_cluster, of a refined component.
Build ==
    /\ \E clusters \in refining : InTurn(clusters) /\ Near(clusters) = {} /\
       \E c \in clusters :
       LET members  == {r \in live : r.id \in c}
           survivor == Survivor(members)
       IN  /\ \A d \in clusters \ {c} : Leads(c, d)
           /\ IF Cardinality(c) = 1 THEN UNCHANGED <<live, merges, standing>>
              ELSE /\ live' = (live \ members) \cup {MergeInto(survivor, members)}
                   /\ merges' = Append(merges, [into |-> survivor.id, members |-> members])
                   /\ standing' = Append(standing, [into |-> survivor.id, members |-> members])
           /\ refining' = (refining \ {clusters}) \cup ({clusters \ {c}} \ {{}})
    /\ UNCHANGED <<known, strayed, verdict, mustNot, passes, unmerges>>

\* The merge n is whole, and nothing was merged over it that still stands.
Outermost(n, canonical) ==
    /\ standing[n] = merges[n] /\ canonical.id \in LiveIds
    /\ \A k \in (n + 1)..Len(standing) : canonical.id \notin {r.id : r \in standing[k].members}

\* The plan of unmerge, applied: the targets come back as they were, the rest is
\* folded again into the same survivor, and the ones are kept from the others.
\* The record of the merge is frozen.
Detach(n, canonical, targets) ==
    LET kept == merges[n].members \ targets
        back == targets \cup {IF kept = {canonical} THEN canonical ELSE MergeInto(canonical, kept)}
    IN
    /\ live' = {r \in live : r.id \notin {b.id : b \in back}} \cup back
    /\ mustNot' = mustNot \cup {{t.id, k.id} : t \in targets, k \in kept}
    /\ standing' = [standing EXCEPT ![n].members = IF kept = {canonical} THEN {} ELSE kept]
    /\ strayed' = (strayed \/ ~Outermost(n, canonical))

\* unmerge: all or some members of any merge there is a record of, never the
\* survivor.  It does not ask what has happened since.
Unmerge ==
    /\ refining = {} /\ unmerges < MaxUnmerges /\ unmerges' = unmerges + 1
    /\ \E n \in DOMAIN merges : \E canonical \in merges[n].members :
          /\ canonical.id = merges[n].into
          /\ \E targets \in SUBSET (merges[n].members \ {canonical}) :
                targets # {} /\ Detach(n, canonical, targets)
    /\ UNCHANGED <<known, verdict, merges, refining, passes>>

ResolutionNext == Arrive \/ Resolve \/ Join \/ Build \/ Unmerge
ResolutionSpec == ResolutionInit /\ [][ResolutionNext]_resolutionVars

-----------------------------------------------------------------------------
(* Properties.                                                              *)

ResolutionTypeOK ==
    /\ live \subseteq [id : Ids, seen : Nat, mentions : Nat, from : SUBSET Ids]
    /\ mustNot \subseteq Pairs /\ passes \in 0..MaxPasses /\ unmerges \in 0..MaxUnmerges

\* _merge_into, elect_survivor, unmerge: across passes, late arrivals and
\* corrections every id that was ever known leads to one live entity, as long
\* as each un-merge is of an outermost merge; and whatever is undone, in
\* whatever order, no reference moves to a newcomer: an entity's id is no
\* younger than the ids that lead to it.
IdsLeadHome ==
    /\ ~strayed => \A i \in known : Cardinality({r \in live : i \in {r.id} \cup r.from}) = 1
    /\ \A r \in live : \A i \in r.from :
          FirstSeen[i] # 0 => FirstSeen[r.id] # 0 /\ FirstSeen[r.id] <= FirstSeen[i]
=============================================================================
