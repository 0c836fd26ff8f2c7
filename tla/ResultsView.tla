------------------------------ MODULE ResultsView ------------------------------
(***************************************************************************)
(* The result lists of the window: streamed matches are joined into groups   *)
(* by union-find, the groups of the open tab are filled into rows, large     *)
(* fills in chunks over several turns of the event loop, and the user marks  *)
(* and deletes by the rows.                                                 *)
(*                                                                         *)
(* A row does not hold its group but the group's index, and a fill that finds *)
(* the rows a prefix of the list it would fill leaves them as they are.      *)
(***************************************************************************)
EXTENDS Integers, Sequences, FiniteSets, SequencesExt

CONSTANTS PathSeq,       \* the files, in the order that breaks ties
          VideoPaths,    \* those of the video tab
          StreamMatches, \* what a scan may find: <<left, right, percent>>
          FillMin,       \* kDeferFillMin: a larger list is filled in chunks
          AppendMin,     \* kDeferAppendMin: so is a larger addition
          FillChunk,     \* kChunk
          MaxStreams, MaxViewScans, MaxDeletes   \* bounds

ViewPaths == Range(PathSeq)
NoPath == "no path"
NoFill == [kind |-> "none"]
NoKind == "no kind"
Kinds == {"images", "videos"}
KindOf(p) == IF p \in VideoPaths THEN "videos" ELSE "images"

ASSUME ViewAssumption ==
    /\ PathSeq \in Seq(ViewPaths) /\ IsInjective(PathSeq) /\ NoPath \notin ViewPaths
    /\ VideoPaths \subseteq ViewPaths
    /\ \A m \in StreamMatches : /\ {m[1], m[2]} \subseteq ViewPaths
                               /\ m[1] # m[2] /\ KindOf(m[1]) = KindOf(m[2])
    /\ {FillMin, AppendMin, MaxStreams, MaxViewScans, MaxDeletes} \subseteq Nat /\ FillChunk \in Nat \ {0}

VARIABLES
    parent,      \* pathParent_, NoPath for a path it does not hold
    best,        \* bestPct_
    kindOf,      \* pathKind_, NoKind for a path it does not hold
    groups,      \* groups_: root, members with the reference first, best percent, tab
    noneOrder,   \* noneOrder_: the roots in the order of the list
    dirty,       \* groupsDirty_
    listRows,    \* the rows of each tab: index, the group it was made for, check box
    shownSigs,   \* imgShown_ and vidShown_
    job,         \* fillJob_
    tab,         \* the open tab
    marked,      \* marked_
    scan,        \* "idle", "live", or "held" while the view is frozen
    fileOp,      \* the files a delete is working on
    matchesSeen, \* history: the matches added
    pruned,      \* history: files taken out of the view
    viewLeft     \* what remains of the bounds

treeVars == <<parent, best, kindOf, matchesSeen>>
listVars == <<groups, noneOrder, dirty>>
paneVars == <<listRows, shownSigs, job>>
viewVars == <<treeVars, listVars, paneVars, tab, marked, scan, fileOp, pruned, viewLeft>>

ViewInit ==
    /\ parent = [p \in ViewPaths |-> NoPath] /\ best = [p \in ViewPaths |-> 0]
    /\ kindOf = [p \in ViewPaths |-> NoKind]
    /\ groups = <<>> /\ noneOrder = <<>> /\ dirty = FALSE
    /\ listRows = [k \in Kinds |-> <<>>] /\ shownSigs = [k \in Kinds |-> <<>>] /\ job = NoFill
    /\ tab = "images" /\ marked = {} /\ scan = "idle" /\ fileOp = {}
    /\ matchesSeen = {} /\ pruned = {}
    /\ viewLeft = [streams |-> MaxStreams, scans |-> MaxViewScans, deletes |-> MaxDeletes]

-----------------------------------------------------------------------------
(* Union-find.                                                               *)

Parent(par, p) == IF par[p] = NoPath THEN p ELSE par[p]

\* A path, its parent, the parent's parent, and so on: no chain is longer than the paths are many.
Chain(par, p) ==
    LET next == [q \in ViewPaths |-> Parent(par, q)]
        up[n \in 0 .. Len(PathSeq)] == IF n = 0 THEN p ELSE next[up[n - 1]]
    IN  up

FindRoot(par, p) == Chain(par, p)[Len(PathSeq)]

\* findRoot on every path that is held leaves each pointing at its root.
Compressed(par) ==
    [p \in ViewPaths |-> IF par[p] = NoPath THEN NoPath ELSE FindRoot(par, p)]

\* A mutant: the node is put below the other root, not the root of its group.
JoinedNodes(par, l, r) ==
    LET entered == [p \in ViewPaths |-> IF p \in {l, r} /\ par[p] = NoPath THEN p ELSE par[p]]
    IN  [entered EXCEPT ![r] = FindRoot(entered, l)]

\* Both paths are entered, their chains compressed, the right root put below
\* the left one.
Joined(par, l, r) ==
    LET entered == [p \in ViewPaths |-> IF p \in {l, r} /\ par[p] = NoPath THEN p ELSE par[p]]
        rl == FindRoot(entered, l)
        rr == FindRoot(entered, r)
        flat == [entered EXCEPT ![l] = rl, ![r] = rr]
    IN  IF rl = rr THEN flat ELSE [flat EXCEPT ![rr] = rl]

Larger(a, b) == IF a > b THEN a ELSE b

AddMatch(m) ==
    /\ parent' = Joined(parent, m[1], m[2])
    /\ best' = [best EXCEPT ![m[1]] = Larger(@, m[3]), ![m[2]] = Larger(@, m[3])]
    /\ kindOf' = [p \in ViewPaths |-> IF p \in {m[1], m[2]} /\ kindOf[p] = NoKind
                                      THEN KindOf(p) ELSE kindOf[p]]
    /\ matchesSeen' = matchesSeen \cup {m}

-----------------------------------------------------------------------------
(* rebuildGroups.                                                            *)

Members(at, root) == {p \in ViewPaths : at[p] = root}

\* What a sequence holds of a set, in its order.
Picked(q, S) ==
    LET pick[n \in 0 .. Len(q)] ==
          IF n = 0 THEN <<>>
          ELSE IF q[n] \in S THEN Append(pick[n - 1], q[n]) ELSE pick[n - 1]
    IN  pick[Len(q)]

\* The best percent first; a tie goes after what precedes it in PathSeq.
Ordered(ms, pct) ==
    LET placed[u \in Seq(ViewPaths) \X ViewPaths] ==
          InsertAt(u[1], Cardinality({i \in DOMAIN u[1] : pct[u[1][i]] >= pct[u[2]]}) + 1, u[2])
        sort[n \in 0 .. Len(PathSeq)] ==
          IF n = 0 THEN <<>>
          ELSE IF PathSeq[n] \in ms THEN placed[<<sort[n - 1], PathSeq[n]>>] ELSE sort[n - 1]
    IN  sort[Len(PathSeq)]

\* A path of no known kind is taken for an image.
TabOf(kd, p) == IF kd[p] = NoKind THEN "images" ELSE kd[p]

Group(at, pct, kd, root) ==
    LET ms == Ordered(Members(at, root), pct)
    IN  [root |-> root, paths |-> ms, best |-> pct[ms[1]], kind |-> TabOf(kd, ms[1])]

\* A mutant: what is left of a group of two is a group.
RootsOfSingles(at) == {r \in ViewPaths : Members(at, r) # {}}

GroupRoots(at) == {r \in ViewPaths : Cardinality(Members(at, r)) >= 2}

\* Groups keep their place in the list, new ones follow in the order of names.
ListOrder(roots, order) == Picked(order, roots) \o Picked(PathSeq, roots \ Range(order))

GroupsOf(at, pct, kd, order) == [i \in DOMAIN order |-> Group(at, pct, kd, order[i])]

-----------------------------------------------------------------------------
(* fillPair.                                                                 *)

MarkState(gs, marks, gi) ==
    IF gi \notin DOMAIN gs THEN "off"
    ELSE LET others == Range(Tail(gs[gi].paths))
         IN  IF others \cap marks = {} THEN "off"
             ELSE IF others \subseteq marks THEN "on" ELSE "some"

Row(gs, marks, gi) == [gi |-> gi, root |-> gs[gi].root, check |-> MarkState(gs, marks, gi)]
Sig(g) == <<g.root, Len(g.paths), g.best>>

\* The groups of a tab, as indices.
Indices(gs, k) ==
    Picked([i \in DOMAIN gs |-> i], {i \in DOMAIN gs : gs[i].kind = k})

Sigs(gs, k) == LET index == Indices(gs, k) IN [n \in DOMAIN index |-> Sig(gs[index[n]])]

Fill(k, index, sigs, append) ==
    [kind |-> k, index |-> index, pos |-> 0, sigs |-> sigs, append |-> append]

\* A fill supersedes one that is under way, and then starts from nothing.
MayExtend(append) == append /\ job = NoFill

\* The list a rebuild has made is filled into the open tab.
FillPair(gs, marks, k, append) ==
    \E index \in {Indices(gs, k)} : \E sigs \in {Sigs(gs, k)} :
    LET n == Len(shownSigs[k])
        MakeRows(ix) == [i \in DOMAIN ix |-> Row(gs, marks, ix[i])]
    IN  IF MayExtend(append) /\ IsPrefix(shownSigs[k], sigs)
        THEN LET new == SubSeq(index, n + 1, Len(index))
             IN  IF Len(new) > AppendMin
                 THEN /\ job' = Fill(k, new, sigs, TRUE)
                      /\ UNCHANGED <<listRows, shownSigs>>
                 ELSE /\ job' = NoFill
                      /\ listRows' = [listRows EXCEPT ![k] = @ \o MakeRows(new)]
                      /\ shownSigs' = [shownSigs EXCEPT ![k] = sigs]
        ELSE IF Len(index) > FillMin
             THEN /\ job' = Fill(k, index, sigs, FALSE)
                  /\ listRows' = [listRows EXCEPT ![k] = <<>>]
                  /\ UNCHANGED shownSigs
             ELSE /\ job' = NoFill
                  /\ listRows' = [listRows EXCEPT ![k] = MakeRows(index)]
                  /\ shownSigs' = [shownSigs EXCEPT ![k] = sigs]

\* A mutant: the list is built again at every tick.
RebuildAlways(par, pct, kd, marks, append) ==
    \E at \in {Compressed(par)} : \E order \in {ListOrder(GroupRoots(at), noneOrder)} :
        /\ parent' = at /\ groups' = GroupsOf(at, pct, kd, order) /\ noneOrder' = order
        /\ dirty' = dirty
        /\ FillPair(groups', marks, tab, append)

RebuildAndFill(par, pct, kd, marks, append) ==
    \E at \in {Compressed(par)} : \E order \in {ListOrder(GroupRoots(at), noneOrder)} :
        /\ parent' = at
        /\ groups' = GroupsOf(at, pct, kd, order)
        /\ noneOrder' = order
        /\ dirty' = FALSE
        /\ FillPair(groups', marks, tab, append)

\* continueGroupFill: a chunk, then another turn of the loop.
ContinueFill ==
    /\ job # NoFill
    /\ LET last  == IF job.pos + FillChunk > Len(job.index) THEN Len(job.index) ELSE job.pos + FillChunk
           chunk == SubSeq(job.index, job.pos + 1, last)
       IN  /\ listRows' = [listRows EXCEPT ![job.kind] =
                            @ \o [i \in DOMAIN chunk |-> Row(groups, marked, chunk[i])]]
           /\ IF last < Len(job.index)
              THEN job' = [job EXCEPT !.pos = last] /\ UNCHANGED shownSigs
              ELSE job' = NoFill /\ shownSigs' = [shownSigs EXCEPT ![job.kind] = job.sigs]
    /\ UNCHANGED <<treeVars, listVars, tab, marked, scan, fileOp, pruned, viewLeft>>

-----------------------------------------------------------------------------
(* The scan and the ticks of the window.                                     *)

\* With results on the screen the view is frozen until the scan's answer.  The
\* percents and kinds start afresh, the trees and the groups stay.
BeginScan ==
    /\ scan = "idle" /\ viewLeft.scans > 0
    /\ viewLeft' = [viewLeft EXCEPT !.scans = @ - 1]
    /\ scan' = IF groups = <<>> THEN "live" ELSE "held"
    /\ best' = [p \in ViewPaths |-> 0] /\ kindOf' = [p \in ViewPaths |-> NoKind]
    /\ UNCHANGED <<parent, matchesSeen, listVars, paneVars, tab, marked, fileOp, pruned>>

OnMatchesBatch(m) ==
    /\ scan # "idle" /\ viewLeft.streams > 0
    /\ viewLeft' = [viewLeft EXCEPT !.streams = @ - 1]
    /\ AddMatch(m)
    /\ dirty' = TRUE
    /\ UNCHANGED <<groups, noneOrder, paneVars, tab, marked, scan, fileOp, pruned>>

RefreshStreaming ==
    /\ dirty /\ scan # "held"
    /\ RebuildAndFill(parent, best, kindOf, marked, scan = "live")
    /\ UNCHANGED <<best, kindOf, matchesSeen, tab, marked, scan, fileOp, pruned, viewLeft>>

\* onResults, or the end of a cancelled or failed scan, which may have streamed nothing.
OnResults ==
    /\ scan # "idle"
    /\ scan' = "idle"
    /\ RebuildAndFill(parent, best, kindOf, marked, TRUE)
    /\ UNCHANGED <<best, kindOf, matchesSeen, tab, marked, fileOp, pruned, viewLeft>>

ActivateTab(k) ==
    /\ k # tab
    /\ tab' = k
    /\ FillPair(groups, marked, k, FALSE)
    /\ UNCHANGED <<treeVars, listVars, marked, scan, fileOp, pruned, viewLeft>>

-----------------------------------------------------------------------------
(* Marks and the delete.                                                     *)

\* setGroupMarked: all but the reference on, all off; every row's box follows.
MarkGroup(gi, on) ==
    LET marks == IF on THEN marked \cup Range(Tail(groups[gi].paths))
                 ELSE marked \ Range(groups[gi].paths)
    IN  /\ marked' = marks
        /\ listRows' = [k \in Kinds |-> [i \in DOMAIN listRows[k] |->
                        [listRows[k][i] EXCEPT !.check = MarkState(groups, marks, listRows[k][i].gi)]]]

\* The box of a row is clicked: one that is partly on goes on.
CheckRow(i) ==
    /\ i \in DOMAIN listRows[tab]
    /\ listRows[tab][i].gi \in DOMAIN groups
    /\ MarkGroup(listRows[tab][i].gi, listRows[tab][i].check # "on")
    /\ UNCHANGED <<treeVars, listVars, shownSigs, job, tab, scan, fileOp, pruned, viewLeft>>

\* Every file that is marked, wherever it is; a worker thread deletes.
DeleteSelected ==
    /\ marked # {} /\ fileOp = {} /\ viewLeft.deletes > 0
    /\ viewLeft' = [viewLeft EXCEPT !.deletes = @ - 1]
    /\ fileOp' = marked
    /\ UNCHANGED <<treeVars, listVars, paneVars, tab, marked, scan, pruned>>

\* Some could not be deleted.  prunePaths takes the others out of everything,
\* and children of a root that is gone keep its name.
DeleteDone ==
    \E gone \in (SUBSET fileOp) \ {{}} :
        LET par == [p \in ViewPaths |-> IF p \in gone THEN NoPath ELSE parent[p]]
            pct == [p \in ViewPaths |-> IF p \in gone THEN 0 ELSE best[p]]
            kd  == [p \in ViewPaths |-> IF p \in gone THEN NoKind ELSE kindOf[p]]
        IN  /\ fileOp' = {}
            /\ pruned' = pruned \cup gone
            /\ marked' = marked \ gone
            /\ best' = pct /\ kindOf' = kd
            /\ RebuildAndFill(par, pct, kd, marked \ gone, FALSE)
            /\ UNCHANGED <<matchesSeen, tab, scan, viewLeft>>

ViewNext ==
    \/ BeginScan \/ (\E m \in StreamMatches : OnMatchesBatch(m)) \/ RefreshStreaming \/ OnResults
    \/ ContinueFill \/ (\E k \in Kinds : ActivateTab(k))
    \/ (\E i \in 1 .. Len(PathSeq) : CheckRow(i)) \/ DeleteSelected \/ DeleteDone

\* The event loop gets to the next chunk and to the next tick.
ViewFairness == WF_viewVars(ContinueFill) /\ WF_viewVars(RefreshStreaming)

ViewSpec == ViewInit /\ [][ViewNext]_viewVars /\ ViewFairness

-----------------------------------------------------------------------------

ViewTypeOK ==
    /\ parent \in [ViewPaths -> ViewPaths \cup {NoPath}]
    /\ kindOf \in [ViewPaths -> Kinds \cup {NoKind}] /\ \A i \in DOMAIN groups : groups[i].kind \in Kinds
    /\ marked \subseteq ViewPaths /\ fileOp \subseteq ViewPaths
    /\ scan \in {"idle", "live", "held"} /\ tab \in Kinds
    /\ \A i \in DOMAIN groups : Len(groups[i].paths) >= 2 /\ IsInjective(groups[i].paths)

\* While no file was taken out, the list shows exactly the classes the matches
\* make: matched files share a group, a file is in one group at most, and no
\* group falls into two parts that no match joins.
Linked(s) ==
    \A half \in SUBSET s : half \notin {{}, s} =>
        \E m \in matchesSeen : {m[1], m[2]} \subseteq s /\ ~(m[1] \in half <=> m[2] \in half)
GroupsAreClasses ==
    ~dirty /\ pruned = {} =>
        /\ \A m \in matchesSeen : \E i \in DOMAIN groups : {m[1], m[2]} \subseteq Range(groups[i].paths)
        /\ \A i, j \in DOMAIN groups : i # j => Range(groups[i].paths) \cap Range(groups[j].paths) = {}
        /\ \A i \in DOMAIN groups : Linked(Range(groups[i].paths))

\* When no fill is under way the open tab shows a row for every group of its
\* kind, once, in the order of the list, however fills, chunks, tabs and
\* rebuilds superseded each other.
PaneComplete ==
    LET index == Indices(groups, tab)
    IN  job = NoFill => [i \in DOMAIN listRows[tab] |-> listRows[tab][i].root]
                        = [n \in DOMAIN index |-> groups[index[n]].root]

\* The rows catch up with what was streamed, unless the user keeps changing
\* the tab, which starts the fill again, or the view is held.
FillEnds == \/ []<>(job = NoFill /\ (dirty => scan = "held"))
            \/ []<><<\E k \in Kinds : ActivateTab(k)>>_viewVars

\* "Any structural change (merge/removal/order change) fails the prefix check
\* and falls back to a full rebuild": a row of the open tab leads to its group.
RowsPointRight ==
    \A i \in DOMAIN listRows[tab] :
        listRows[tab][i].gi \in DOMAIN groups /\ groups[listRows[tab][i].gi].root = listRows[tab][i].root

\* "Checking a group marks every file except the reference image": a group
\* whose box is on keeps a file that is not marked.
ReferenceSpared ==
    \A i \in DOMAIN groups : ~(Range(groups[i].paths) \subseteq marked)

\* "Cancelled, failed, and failure-only scans leave the view consistent with the
\* stored pair set" (docs/build-history/0.9.4.151.en.md:29): what is stored of two
\* videos is listed with the videos, though the scan ends before it streams them.
GroupsKeepTheirTab ==
    scan = "idle" => \A i \in DOMAIN groups : groups[i].kind = KindOf(groups[i].paths[1])

\* The list is the groups the matches make, and the rows are the list.
ListsTrue == GroupsAreClasses /\ PaneComplete
=================================================================================
