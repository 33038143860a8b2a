--------------------------- MODULE TreeArchiveProofs ---------------------------
(* Proofs about TreeArchive, for trees of any shape and size.                *)
EXTENDS TreeArchive, SequenceTheorems, TLAPS

-----------------------------------------------------------------------------
(* Kinds, listings and the shape of trees.                                     *)

LEMMA KindOf ==
    ASSUME NEW n \in Nodes
    PROVE  /\ Kind(n) \in Kinds \ {"none"}
           /\ Kind(n) = "dir" <=> n = Dir
           /\ Kind(n) = "link" <=> n \in Targets
BY NodesAssumption DEF Kind, Kinds, Nodes

LEMMA ListedType ==
    ASSUME NEW S, NEW tree \in [Paths -> Nodes]
    PROVE  /\ Listed(S, tree) \in [Paths -> Kinds]
           /\ \A q \in Paths : Listed(S, tree)[q] =
                 IF q \in S /\ tree[q] # None THEN Kind(tree[q]) ELSE "none"
<1>1. \A q \in Paths : Kind(tree[q]) \in Kinds
  BY KindOf
<1>2. QED
  BY <1>1 DEF Listed, Kinds

LEMMA NoJobType == NoJob \in Job /\ Nothing \in [Paths -> Kinds] /\ NoTree \in [Paths -> Nodes]
<1>1. <<>> \in Seq(Paths)
  OBVIOUS
<1>2. QED
  BY <1>1 DEF NoJob, Job, Nothing, Kinds, NoTree, Nodes

LEMMA VisitedType ==
    ASSUME job \in Job, NEW p \in Paths
    PROVE  /\ Visited(p) \in [Paths -> Kinds]
           /\ Visited(p)[p] = "none"
           /\ \A q \in Paths \ {p} : Visited(p)[q] = job.todo[q]
BY DEF Job, Visited, Kinds

\* A tree: what is in a directory is below one.
IsTree(tree) ==
    \A p \in Paths : tree[p] # None => \A q \in Above[p] \ {p} : tree[q] = Dir

LEMMA DescendType ==
    ASSUME job \in Job, node \in [Paths -> Nodes], NEW p \in Paths
    PROVE  /\ Descend(p) \in [Paths -> Kinds]
           /\ \A q \in Paths : Descend(p)[q] =
                 IF job.todo[p] = "dir" /\ q \in Children(p) /\ node[q] # None THEN Kind(node[q])
                 ELSE Visited(p)[q]
<1>1. \A q \in Paths : Kind(node[q]) \in Kinds \ {"none"}
  BY KindOf
<1>2. \A q \in Paths : Visited(p)[q] \in Kinds
  BY VisitedType
<1>3. Listed(Children(p), node)  \in [Paths -> Kinds]
      /\ \A q \in Paths : Listed(Children(p), node)[q] =
             IF q \in Children(p) /\ node[q] # None THEN Kind(node[q]) ELSE "none"
  BY ListedType
<1>4. CASE job.todo[p] = "dir"
  BY <1>1, <1>2, <1>3, <1>4 DEF Descend
<1>5. CASE job.todo[p] # "dir"
  BY <1>2, <1>5 DEF Descend, Nothing
<1>6. QED
  BY <1>4, <1>5

LEMMA BelowFile ==
    ASSUME NEW tree, IsTree(tree), NEW p \in Paths, tree[p] # Dir, NEW x \in Below(p) \ {p}
    PROVE  tree[x] = None
BY DEF IsTree, Below

LEMMA BelowEmpty ==
    ASSUME IsTree(node), NEW p \in Paths, Empty(p), NEW x \in Below(p) \ {p}
    PROVE  node[x] = None
<1>1. x \in Paths /\ p \in Above[x] /\ p # x
  BY DEF Below
<1>2. PICK c \in Above[x] \ {Root} : Parent[c] = p
  BY <1>1, TreeAssumption
<1>3. c \in Paths /\ node[c] = None
  BY <1>1, <1>2, TreeAssumption DEF Empty, Children
<1>4. QED
  BY <1>1, <1>2, <1>3, NodesAssumption DEF IsTree

LEMMA InDirectory ==
    ASSUME IsTree(node), NEW p \in Paths \ {Root}, node[Parent[p]] = Dir, NEW q \in Above[p] \ {p}
    PROVE  node[q] = Dir
<1>1. q \in Above[Parent[p]] /\ Parent[p] \in Paths
  BY TreeAssumption
<1>2. QED
  BY <1>1, NodesAssumption DEF IsTree

LEMMA NoneBelow ==
    ASSUME NEW p \in Paths, NEW q \in Above[p] \ {p}
    PROVE  q \in Paths /\ p \notin Above[q] /\ Order[q] < Order[p]
<1>1. q \in Paths /\ Order[q] < Order[p]
  BY TreeAssumption, OrderAssumption
<1>2. Order[p] < Order[q] => FALSE
  BY <1>1, OrderAssumption
<1>3. QED
  BY <1>1, <1>2, OrderAssumption

LEMMA SelfBelow ==
    ASSUME NEW p \in Paths
    PROVE  p \in Below(p) /\ p \in Above[p] /\ Above[p] \subseteq Paths
<1>1. p \in Above[p]
  <2>1. CASE p = Root
    BY <2>1, TreeAssumption
  <2>2. CASE p # Root
    <3>1. Above[p] = {p} \cup Above[Parent[p]]
      BY <2>2, TreeAssumption
    <3>2. QED
      BY <3>1
  <2>3. QED
    BY <2>1, <2>2
<1>2. QED
  BY <1>1, TreeAssumption DEF Below

LEMMA FirstIsOne ==
    ASSUME NEW p \in Paths, NEW q \in Paths, First(p), First(q)
    PROVE  p = q
<1>1. Order[p] <= Order[q] /\ Order[q] <= Order[p] /\ Order[p] \in Nat /\ Order[q] \in Nat
  BY OrderAssumption DEF First
<1>2. QED
  BY <1>1, OrderAssumption

LEMMA FirstIsTop ==
    ASSUME NEW p \in Paths, First(p), NEW q \in Above[p] \ {p}
    PROVE  q \notin Left
<1>1. q \in Paths /\ Order[q] < Order[p]
  BY NoneBelow
<1>2. q \in Left => Order[p] <= Order[q]
  BY DEF First
<1>3. QED
  BY <1>1, <1>2, OrderAssumption

-----------------------------------------------------------------------------
(* How a step can happen.                                                      *)

LEMMA StepCases ==
    ASSUME Next
    PROVE  \/ Stop
           \/ PlanDelete \/ ReadLink \/ StatLink \/ WriteLinkFails \/ StatTree \/ OpenTar
           \/ FinishTar \/ TarFails \/ InsertRow \/ InsertFails \/ DiscardEntry
           \/ VerifySource \/ LinkAgrees \/ TreeUnchanged \/ TreeChanged
           \/ RemoveSource \/ RemoveFails
           \/ ResolveRecord \/ DestinationFree \/ DestinationOccupied \/ EntryVerified
           \/ ClearDestination \/ ClearFails \/ RecreateLink \/ OpenEntry
           \/ ExtractFails \/ FinishExtract \/ Rollback \/ ConsumeEntry \/ MarkRestored
           \/ \E p \in Paths :
                 \/ VisitRegular(p) \/ VisitOther(p) \/ CopyMember(p) \/ VisitAgain(p)
                 \/ NextHeader(p) \/ MakeDir(p) \/ DirExists(p) \/ EndDirectory(p)
                 \/ WriteMember(p) \/ WriteFails(p)
           \/ PurgeEntry \/ MarkPurged \/ MarkPurgedFails
           \/ User
<1>1. CASE Delete
  BY <1>1 DEF Delete, SourceVanished, DiscardFails, RefuseRemoval, LinkDiffers, WalkFails
<1>2. CASE Undelete
  BY <1>2 DEF Undelete, RefuseRestore, EntryUnfit, RecreateLinkFails, OpenEntryFails, FinishRollback,
              ConsumeFails, MarkRestoredFails
<1>3. CASE Purge \/ User
  BY <1>3 DEF Purge
<1>4. QED
  BY <1>1, <1>2, <1>3 DEF Next

-----------------------------------------------------------------------------
(* Types: no step leaves a path without its directory, or a job behind.        *)

LEMMA PutTree ==
    ASSUME node \in [Paths -> Nodes], IsTree(node), NEW p \in Paths, NEW n \in Nodes,
           \A q \in Above[p] \ {p} : node[q] = Dir,
           \A x \in Below(p) \ {p} : node[x] = None,
           node' = [node EXCEPT ![p] = n]
    PROVE  node' \in [Paths -> Nodes] /\ IsTree(node')
<1>1. SUFFICES ASSUME NEW x \in Paths, node'[x] # None, NEW q \in Above[x] \ {x} PROVE node'[q] = Dir
  BY DEF IsTree
<1>2. q \in Paths
  BY TreeAssumption
<1>3. CASE x = p
  BY <1>1, <1>2, <1>3
<1>4. CASE x # p
  <2>1. node[x] # None
    BY <1>1, <1>4
  <2>2. q # p
    BY <2>1, <1>1, <1>4 DEF Below
  <2>3. QED
    BY <2>1, <2>2, <1>1, <1>2 DEF IsTree
<1>5. QED
  BY <1>3, <1>4

LEMMA TakeFromTree ==
    ASSUME node \in [Paths -> Nodes], IsTree(node), NEW gone \in SUBSET Paths,
           \A q \in gone : \A x \in Below(q) \ gone : node[x] = None,
           node' = Without(gone)
    PROVE  node' \in [Paths -> Nodes] /\ IsTree(node')
<1>1. node' \in [Paths -> Nodes]
  BY DEF Without, Nodes
<1>2. SUFFICES ASSUME NEW x \in Paths, node'[x] # None, NEW q \in Above[x] \ {x} PROVE node'[q] = Dir
  BY <1>1 DEF IsTree
<1>3. q \in Paths /\ x \notin gone /\ node[x] # None
  BY <1>2, TreeAssumption DEF Without
<1>4. q \notin gone
  BY <1>2, <1>3 DEF Below
<1>5. QED
  BY <1>2, <1>3, <1>4 DEF IsTree, Without

LEMMA TakeSubtree ==
    ASSUME node \in [Paths -> Nodes], IsTree(node), NEW gone \in Partly, node' = Without(gone)
    PROVE  node' \in [Paths -> Nodes] /\ IsTree(node')
<1>1. gone \in SUBSET Paths /\ \A q \in gone : Below(q) \subseteq gone
  BY DEF Partly, Below
<1>2. QED
  BY <1>1, TakeFromTree

LEMMA NoTreeIsTree == NoTree \in [Paths -> Nodes] /\ IsTree(NoTree)
BY DEF NoTree, IsTree, Nodes

LEMMA LastCreated ==
    ASSUME job \in Job, job.created # <<>>
    PROVE  /\ Len(job.created) \in Nat \ {0}
           /\ Newest \in Paths /\ Older \in Seq(Paths)
           /\ Len(Older) = Len(job.created) - 1
           /\ \A i \in 1..Len(Older) : Older[i] = job.created[i]
<1>1. job.created \in Seq(Paths)
  BY DEF Job
<1>2. PICK s \in Seq(Paths) : s = job.created
  BY <1>1
<1>3. Len(s) \in Nat \ {0}
  BY <1>2
<1>4. s[Len(s)] \in Paths
  BY <1>3
<1>5. PICK n \in Nat : n = Len(s) - 1
  BY <1>3
<1>6. \A i \in 1..n : s[i] \in Paths
  BY <1>3, <1>5
<1>7. SubSeq(s, 1, n) \in Seq(Paths) /\ Len(SubSeq(s, 1, n)) = n /\ \A i \in 1..n : SubSeq(s, 1, n)[i] = s[i]
  BY <1>6, SubSeqProperties
<1>8. QED
  BY <1>2, <1>3, <1>4, <1>5, <1>7 DEF Newest, Older

LEMMA NextNodes ==
    ASSUME TypeOK, IsTree(node), Next
    PROVE  node' \in [Paths -> Nodes] /\ IsTree(node')
<1> USE DEF TypeOK
<1>1. CASE Stop \/ PlanDelete \/ ReadLink \/ StatLink \/ WriteLinkFails \/ StatTree \/ OpenTar
  BY <1>1 DEF Stop, PlanDelete, ReadLink, StatLink, WriteLinkFails, StatTree, OpenTar
<1>2. CASE FinishTar \/ TarFails \/ InsertRow \/ InsertFails \/ DiscardEntry
  BY <1>2 DEF FinishTar, TarFails, InsertRow, InsertFails, DiscardEntry, Proceed
<1>3. CASE VerifySource \/ LinkAgrees \/ TreeUnchanged \/ TreeChanged
  BY <1>3 DEF VerifySource, LinkAgrees, TreeUnchanged, TreeChanged, Proceed
<1>4. CASE ResolveRecord \/ DestinationFree \/ DestinationOccupied \/ EntryVerified \/ OpenEntry
  BY <1>4 DEF ResolveRecord, DestinationFree, DestinationOccupied, EntryVerified, OpenEntry, Proceed
<1>5. CASE ExtractFails \/ FinishExtract \/ ConsumeEntry \/ MarkRestored
  BY <1>5 DEF ExtractFails, FinishExtract, ConsumeEntry, MarkRestored, Proceed
<1>6. CASE PurgeEntry \/ MarkPurged \/ MarkPurgedFails
  BY <1>6 DEF PurgeEntry, MarkPurged, MarkPurgedFails
<1>7. CASE RemoveSource \/ ClearDestination
  BY <1>7, NoTreeIsTree DEF RemoveSource, ClearDestination
<1>8. CASE RemoveFails \/ ClearFails
  <2>1. PICK gone \in Partly : node' = Without(gone)
    BY <1>8 DEF RemoveFails, ClearFails, Partly
  <2>2. QED
    BY <2>1, TakeSubtree
<1>9. CASE RecreateLink
  <2>1. node[Root] # Dir /\ held[Root] \in Nodes /\ Root \in Paths /\ Above[Root] = {Root}
    BY <1>9, NodesAssumption, TreeAssumption DEF RecreateLink
  <2>2. \A x \in Below(Root) \ {Root} : node[x] = None
    BY <2>1, BelowFile
  <2>3. QED
    BY <1>9, <2>1, <2>2, PutTree DEF RecreateLink
<1>10. CASE Rollback
  <2>1. Newest \in Paths
    BY <1>10, LastCreated DEF Rollback
  <2>2. CASE node[Newest] # Dir \/ Empty(Newest)
    <3>1. \A x \in Below(Newest) \ {Newest} : node[x] = None
      BY <2>1, <2>2, BelowFile, BelowEmpty
    <3>2. node' = Without({Newest})
      BY <1>10, <2>2 DEF Rollback
    <3>3. QED
      BY <2>1, <3>1, <3>2, TakeFromTree
  <2>3. QED
    BY <1>10, <2>2 DEF Rollback
<1>11. ASSUME NEW p \in Paths,
              VisitRegular(p) \/ VisitOther(p) \/ CopyMember(p) \/ VisitAgain(p)
              \/ NextHeader(p) \/ DirExists(p) \/ EndDirectory(p)
       PROVE  UNCHANGED node
  BY <1>11 DEF VisitRegular, VisitOther, CopyMember, VisitAgain, NextHeader, DirExists, EndDirectory
<1>12. ASSUME NEW p \in Paths, ~Orphaned(p), NEW q \in Above[p] \ {p} PROVE node[q] = Dir
  BY <1>12, InDirectory, TreeAssumption DEF Orphaned
<1>13. ASSUME NEW p \in Paths, MakeDir(p) PROVE node' \in [Paths -> Nodes] /\ IsTree(node')
  <2>1. \A x \in Below(p) \ {p} : node[x] = None
    BY <1>13, BelowFile, NodesAssumption DEF MakeDir
  <2>2. ~Orphaned(p) /\ Dir \in Nodes /\ node' = [node EXCEPT ![p] = Dir]
    BY <1>13 DEF MakeDir, Nodes
  <2>3. QED
    BY <1>12, <2>1, <2>2, PutTree
<1>14. ASSUME NEW p \in Paths, WriteMember(p) \/ WriteFails(p)
       PROVE  node' \in [Paths -> Nodes] /\ IsTree(node')
  <2>1. PICK n \in Nodes : Write(p, n)
    BY <1>14, NodesAssumption DEF WriteMember, WriteFails, Nodes
  <2>2. node[p] # Dir /\ ~Orphaned(p)
    BY <2>1, NodesAssumption DEF Write, Writable
  <2>3. \A x \in Below(p) \ {p} : node[x] = None
    BY <2>2, BelowFile
  <2>4. PICK m \in Nodes : node' = [node EXCEPT ![p] = m]
    BY <2>1 DEF Write
  <2>5. QED
    BY <1>12, <2>2, <2>3, <2>4, PutTree
<1>15. ASSUME NEW p \in Paths, NEW n \in Nodes, Edit(p, n)
       PROVE  node' \in [Paths -> Nodes] /\ IsTree(node')
  <2>1. node' = [Without(Below(p)) EXCEPT ![p] = n] /\ Below(p) \subseteq Paths
    BY <1>15 DEF Edit, Below
  <2>2. \A q \in Above[p] \ {p} : node[q] = Dir
    BY <1>15, InDirectory, TreeAssumption DEF Edit
  <2>3. p \in Below(p)
    BY SelfBelow
  <2>4. node' \in [Paths -> Nodes]
    BY <2>1 DEF Without, Nodes
  <2>5. ASSUME NEW x \in Paths, node'[x] # None, NEW q \in Above[x] \ {x} PROVE node'[q] = Dir
    <3>1. q \in Paths
      BY TreeAssumption
    <3>2. CASE x = p
      <4>1. q \notin Below(p) /\ q # p
        BY <3>1, <3>2, <2>5, NoneBelow DEF Below
      <4>2. QED
        BY <2>1, <2>2, <3>1, <3>2, <4>1, <2>5 DEF Without
    <3>3. CASE x # p
      <4>1. x \notin Below(p) /\ node[x] # None
        BY <2>1, <2>5, <3>3 DEF Without
      <4>2. q \notin Below(p) /\ q # p
        BY <4>1, <2>3, <2>5, TreeAssumption DEF Below
      <4>3. QED
        BY <2>1, <2>5, <3>1, <4>1, <4>2 DEF IsTree, Without
    <3>4. QED
      BY <3>2, <3>3
  <2>6. QED
    BY <2>4, <2>5 DEF IsTree
<1>16. CASE User
  BY <1>15, <1>16 DEF User
<1>17. QED
  BY StepCases, <1>1, <1>2, <1>3, <1>4, <1>5, <1>6, <1>7, <1>8, <1>9, <1>10, <1>11, <1>13, <1>14, <1>16

LEMMA NextHeld ==
    ASSUME TypeOK, Next
    PROVE  held' \in [Paths -> Nodes]
<1> USE DEF TypeOK, arch
<1>1. CASE Stop \/ PlanDelete \/ StatLink \/ WriteLinkFails \/ StatTree
  BY <1>1 DEF Stop, PlanDelete, StatLink, WriteLinkFails, StatTree
<1>2. CASE ReadLink
  BY <1>2, NoTreeIsTree, TreeAssumption DEF ReadLink
<1>3. CASE OpenTar \/ TarFails
  BY <1>3, NoTreeIsTree DEF OpenTar, TarFails
<1>4. CASE FinishTar \/ InsertRow \/ InsertFails \/ DiscardEntry
  BY <1>4 DEF FinishTar, InsertRow, InsertFails, DiscardEntry, Proceed
<1>5. CASE VerifySource \/ LinkAgrees \/ TreeUnchanged \/ TreeChanged \/ RemoveSource \/ RemoveFails
  BY <1>5 DEF VerifySource, LinkAgrees, TreeUnchanged, TreeChanged, RemoveSource, RemoveFails, Proceed
<1>6. CASE ResolveRecord \/ DestinationFree \/ DestinationOccupied \/ EntryVerified \/ OpenEntry
           \/ ClearDestination \/ ClearFails \/ RecreateLink
  BY <1>6 DEF ResolveRecord, DestinationFree, DestinationOccupied, EntryVerified, OpenEntry, Proceed,
              ClearDestination, ClearFails, RecreateLink
<1>7. CASE ExtractFails \/ FinishExtract \/ Rollback \/ ConsumeEntry \/ MarkRestored
  BY <1>7 DEF ExtractFails, FinishExtract, Rollback, ConsumeEntry, MarkRestored, Proceed
<1>8. CASE PurgeEntry \/ MarkPurged \/ MarkPurgedFails \/ User
  BY <1>8 DEF PurgeEntry, MarkPurged, MarkPurgedFails, User, Edit
<1>9. ASSUME NEW p \in Paths,
             VisitRegular(p) \/ VisitAgain(p)
             \/ NextHeader(p) \/ MakeDir(p) \/ DirExists(p) \/ EndDirectory(p)
             \/ WriteMember(p) \/ WriteFails(p)
      PROVE  UNCHANGED held
  BY <1>9 DEF VisitRegular, VisitAgain, NextHeader, MakeDir, DirExists, EndDirectory, WriteMember, WriteFails
<1>10. ASSUME NEW p \in Paths, VisitOther(p) PROVE held' \in [Paths -> Nodes]
  <2>1. PICK n \in Nodes : held' = [held EXCEPT ![p] = n]
    BY <1>10, NodesAssumption DEF VisitOther, Nodes
  <2>2. QED
    BY <2>1
<1>11. ASSUME NEW p \in Paths, CopyMember(p) PROVE held' \in [Paths -> Nodes]
  <2>1. PICK n \in Nodes : held' = [held EXCEPT ![p] = n]
    BY <1>11, NodesAssumption DEF CopyMember, Nodes
  <2>2. QED
    BY <2>1
<1>12. QED
  BY StepCases, <1>1, <1>2, <1>3, <1>4, <1>5, <1>6, <1>7, <1>8, <1>9, <1>10, <1>11

LEMMA AppendCreated ==
    ASSUME job \in Job, NEW p \in Paths
    PROVE  /\ Append(job.created, p) \in Seq(Paths)
           /\ Len(job.created) \in Nat
           /\ Len(Append(job.created, p)) = Len(job.created) + 1
           /\ Append(job.created, p)[Len(job.created) + 1] = p
           /\ \A i \in 1..Len(job.created) : Append(job.created, p)[i] = job.created[i]
<1>1. PICK s \in Seq(Paths) : s = job.created
  BY DEF Job
<1>2. QED
  BY <1>1

LEMMA NextJob ==
    ASSUME TypeOK, Next
    PROVE  job' \in Job /\ (pc' = "idle" => job' = NoJob)
<1> USE DEF TypeOK, Goto, DeletePoints, UndeletePoints
<1>1. CASE Stop \/ WriteLinkFails \/ TarFails \/ DiscardEntry \/ RemoveSource \/ RemoveFails \/ ClearFails
           \/ MarkRestored
  BY <1>1, NoJobType DEF Stop, WriteLinkFails, TarFails, DiscardEntry, RemoveSource, RemoveFails, ClearFails,
          MarkRestored, End
<1>2. CASE ReadLink \/ FinishTar \/ InsertRow \/ InsertFails \/ LinkAgrees \/ TreeUnchanged \/ TreeChanged
  BY <1>2 DEF ReadLink, FinishTar, InsertRow, InsertFails, LinkAgrees, TreeUnchanged, TreeChanged, Proceed
<1>3. CASE ResolveRecord \/ DestinationFree \/ DestinationOccupied \/ EntryVerified \/ ClearDestination
           \/ RecreateLink \/ ExtractFails \/ FinishExtract \/ ConsumeEntry
  BY <1>3 DEF ResolveRecord, DestinationFree, DestinationOccupied, EntryVerified, ClearDestination,
              RecreateLink, ExtractFails, FinishExtract, ConsumeEntry, Proceed
<1>4. CASE PurgeEntry \/ MarkPurged \/ MarkPurgedFails
  BY <1>4 DEF PurgeEntry, MarkPurged, MarkPurgedFails
<1>5. CASE PlanDelete
  BY <1>5 DEF PlanDelete, Job
<1>6. CASE StatLink \/ StatTree
  BY <1>6 DEF StatLink, StatTree, Job
<1>7. CASE OpenTar \/ VerifySource
  <2>1. Listed({Root}, node) \in [Paths -> Kinds]
    BY ListedType
  <2>2. pc' # "idle" /\ job' = [job EXCEPT !.todo = Listed({Root}, node)]
    BY <1>7 DEF OpenTar, VerifySource
  <2>3. QED
    BY <2>1, <2>2 DEF Job
<1>8. CASE OpenEntry
  <2>1. Listed(Paths, held) \in [Paths -> Kinds]
    BY ListedType
  <2>2. QED
    BY <1>8, <2>1 DEF OpenEntry, Job
<1>9. CASE Rollback
  <2>1. Older \in Seq(Paths)
    BY <1>9, LastCreated DEF Rollback
  <2>2. QED
    BY <1>9, <2>1 DEF Rollback, Job
<1>10. ASSUME NEW p \in Paths, VisitRegular(p) PROVE pc' # "idle" /\ job' \in Job
  <2>1. [job.members EXCEPT ![p] = "regular"] \in [Paths -> {"none", "regular", "other"}]
        /\ job.stale \ {p} \in SUBSET Paths
    BY DEF Job
  <2>2. job' = [job EXCEPT !.members = [job.members EXCEPT ![p] = "regular"], !.stale = job.stale \ {p}]
    BY <1>10 DEF VisitRegular, Job
  <2>3. PICK m \in [Paths -> {"none", "regular", "other"}], s \in SUBSET Paths :
            job' = [job EXCEPT !.members = m, !.stale = s]
    BY <2>1, <2>2
  <2>4. job' \in Job
    BY <2>3 DEF Job
  <2>5. QED
    BY <1>10, <2>4 DEF VisitRegular
<1>11. ASSUME NEW p \in Paths, VisitOther(p) PROVE pc' # "idle" /\ job' \in Job
  <2>1. [job.members EXCEPT ![p] = "other"] \in [Paths -> {"none", "regular", "other"}]
        /\ Descend(p) \in [Paths -> Kinds]
    BY DescendType DEF Job
  <2>2. job' = [job EXCEPT !.members = [job.members EXCEPT ![p] = "other"], !.todo = Descend(p)]
    BY <1>11 DEF VisitOther, Job
  <2>3. PICK m \in [Paths -> {"none", "regular", "other"}], t \in [Paths -> Kinds] :
            job' = [job EXCEPT !.members = m, !.todo = t]
    BY <2>1, <2>2
  <2>4. job' \in Job
    BY <2>3 DEF Job
  <2>5. QED
    BY <1>11, <2>4 DEF VisitOther
<1>12. ASSUME NEW p \in Paths, CopyMember(p) \/ EndDirectory(p) PROVE pc' # "idle" /\ job' \in Job
  <2>1. Visited(p) \in [Paths -> Kinds]
    BY VisitedType
  <2>2. pc' # "idle" /\ job' = [job EXCEPT !.todo = Visited(p)]
    BY <1>12 DEF CopyMember, EndDirectory
  <2>3. QED
    BY <2>1, <2>2 DEF Job
<1>13. ASSUME NEW p \in Paths, VisitAgain(p) PROVE pc' # "idle" /\ job' \in Job
  <2>1. Descend(p) \in [Paths -> Kinds]
    BY DescendType
  <2>2. PICK b \in {"no", "yes"} : job' = [job EXCEPT !.todo = Descend(p), !.unarchived = b]
    BY <1>13 DEF VisitAgain, Job
  <2>3. QED
    BY <1>13, <2>1, <2>2 DEF VisitAgain, Job
<1>14. ASSUME NEW p \in Paths, NextHeader(p) \/ DirExists(p) PROVE pc' # "idle" /\ job' \in Job
  <2>1. PICK S \in SUBSET Paths : job' = [job EXCEPT !.pending = S]
    BY <1>14, SelfBelow DEF NextHeader, DirExists, Wanted, Job
  <2>2. QED
    BY <1>14, <2>1 DEF NextHeader, DirExists, Job
<1>15. ASSUME NEW p \in Paths, MakeDir(p) PROVE pc' # "idle" /\ job' \in Job
  <2>1. Append(job.created, p) \in Seq(Paths) /\ job.pending \ {p} \in SUBSET Paths
    BY AppendCreated DEF Job
  <2>2. QED
    BY <1>15, <2>1 DEF MakeDir, Job
<1>16. ASSUME NEW p \in Paths, WriteMember(p) \/ WriteFails(p) PROVE pc' # "idle" /\ job' \in Job
  <2>1. Append(job.created, p) \in Seq(Paths) /\ Visited(p) \in [Paths -> Kinds]
    BY AppendCreated, VisitedType
  <2>2. CASE WriteMember(p)
    BY <2>1, <2>2 DEF WriteMember, Job
  <2>3. CASE WriteFails(p)
    BY <2>1, <2>3 DEF WriteFails, Job
  <2>4. QED
    BY <1>16, <2>2, <2>3
<1>17. ASSUME NEW p \in Paths, NEW n \in Nodes, Edit(p, n)
       PROVE  job' \in Job /\ (pc' = "idle" => job' = NoJob)
  <2> DEFINE changed == {q \in Paths : node'[q] # node[q]}
  <2>1. PICK identity \in {job.identity, "replaced"} :
            /\ job' = [job EXCEPT !.identity = identity,
                           !.stale = @ \cup {q \in changed : job.members[q] = "regular"}]
            /\ pc = "idle" => identity = job.identity
    BY <1>17 DEF Edit
  <2>2. pc' = pc
    BY <1>17 DEF Edit
  <2>3. identity \in {"kept", "replaced"} /\ job.stale \cup {q \in changed : job.members[q] = "regular"} \in SUBSET Paths
    BY <2>1 DEF Job
  <2>4. job' \in Job
    BY <2>1, <2>3 DEF Job
  <2>5. CASE pc = "idle"
    <3>1. job = NoJob /\ identity = job.identity
      BY <2>1, <2>5
    <3>2. {q \in changed : job.members[q] = "regular"} = {}
      BY <3>1 DEF NoJob, Nothing
    <3>3. job' = [job EXCEPT !.identity = job.identity, !.stale = job.stale]
      BY <2>1, <3>1, <3>2 DEF NoJob
    <3>4. job' = NoJob
      BY <3>1, <3>3 DEF NoJob
    <3>5. QED
      BY <2>4, <3>4
  <2>6. QED
    BY <2>2, <2>4, <2>5
<1>18. CASE User
  BY <1>17, <1>18 DEF User
<1>19. QED
  BY StepCases, <1>1, <1>2, <1>3, <1>4, <1>5, <1>6, <1>7, <1>8, <1>9, <1>10, <1>11, <1>12, <1>13, <1>14,
     <1>15, <1>16, <1>18

LEMMA NextOther ==
    ASSUME TypeOK, Next
    PROVE  /\ entry' \in {"none", "partial", "whole"}
           /\ row' \in {"none", "tree", "link"}
           /\ stamps' \subseteq {"restored", "purged"}
           /\ pc' \in {"idle"} \cup DeletePoints \cup UndeletePoints
           /\ purger' \in {"ready", "stamp"}
           /\ given' \in {"no", "yes"}
           /\ late' \subseteq Paths \cup {"entry"}
           /\ found' \in Nodes
           /\ edits' \in Nat
<1> USE NodesAssumption DEF TypeOK, Goto, Proceed, End, DeletePoints, UndeletePoints, arch, db, hist, rest
<1> None \in Nodes
  BY DEF Nodes
<1>1. CASE Stop \/ PlanDelete \/ StatLink \/ WriteLinkFails \/ StatTree
  BY <1>1 DEF Stop, PlanDelete, StatLink, WriteLinkFails, StatTree
<1>2. CASE ReadLink \/ OpenTar \/ TarFails \/ FinishTar \/ InsertFails \/ DiscardEntry
  BY <1>2 DEF ReadLink, OpenTar, TarFails, FinishTar, InsertFails, DiscardEntry
<1>3. CASE InsertRow
  BY <1>3 DEF InsertRow, Job
<1>4. CASE VerifySource \/ LinkAgrees \/ TreeUnchanged \/ TreeChanged \/ RemoveSource \/ RemoveFails
  BY <1>4 DEF VerifySource, LinkAgrees, TreeUnchanged, TreeChanged, RemoveSource, RemoveFails
<1>5. CASE ResolveRecord \/ DestinationFree \/ DestinationOccupied \/ EntryVerified \/ OpenEntry
           \/ ClearDestination \/ ClearFails \/ RecreateLink
  BY <1>5, TreeAssumption DEF ResolveRecord, DestinationFree, DestinationOccupied, EntryVerified, OpenEntry,
              ClearDestination, ClearFails, RecreateLink
<1>6. CASE ExtractFails \/ FinishExtract \/ Rollback \/ ConsumeEntry \/ MarkRestored
  BY <1>6 DEF ExtractFails, FinishExtract, Rollback, ConsumeEntry, MarkRestored
<1>7. CASE PurgeEntry \/ MarkPurged \/ MarkPurgedFails
  BY <1>7 DEF PurgeEntry, MarkPurged, MarkPurgedFails, Behind
<1>8. ASSUME NEW p \in Paths,
             VisitRegular(p) \/ VisitOther(p) \/ CopyMember(p) \/ VisitAgain(p)
             \/ NextHeader(p) \/ MakeDir(p) \/ DirExists(p) \/ EndDirectory(p)
      PROVE  /\ UNCHANGED <<entry, db, purger, given, found, edits>>
             /\ late' \subseteq late
             /\ pc' \in {"tar", "copy", "walk", "make", "extract"}
  BY <1>8 DEF VisitRegular, VisitOther, CopyMember, VisitAgain, NextHeader, MakeDir, DirExists, EndDirectory
<1>9. ASSUME NEW p \in Paths, WriteMember(p) \/ WriteFails(p)
      PROVE  UNCHANGED <<entry, db, purger, given, late, found, edits>> /\ pc' \in {"rollback", "extract"}
  BY <1>9 DEF WriteMember, WriteFails
<1>10. CASE User
  <2>1. PICK p \in Paths, n \in Nodes : Edit(p, n)
    BY <1>10 DEF User
  <2>2. late' \subseteq late \cup Paths
    BY <2>1 DEF Edit, Behind
  <2>3. UNCHANGED <<entry, db, pc, purger, given, found>> /\ edits' = edits + 1
    BY <2>1 DEF Edit
  <2>4. QED
    BY <2>2, <2>3
<1>11. QED
  BY StepCases, <1>1, <1>2, <1>3, <1>4, <1>5, <1>6, <1>7, <1>8, <1>9, <1>10

LEMMA NextTypes == TypeOK /\ [Next]_vars => TypeOK'
<1> SUFFICES ASSUME TypeOK, [Next]_vars PROVE TypeOK'
  OBVIOUS
<1>1. CASE UNCHANGED vars
  BY <1>1 DEF vars, TypeOK
<1>2. CASE Next
  <2>1. IsTree(node)
    BY DEF TypeOK, IsTree
  <2>2. node' \in [Paths -> Nodes] /\ IsTree(node')
    BY <1>2, <2>1, NextNodes
  <2>3. QED
    BY <1>2, <2>2, NextHeld, NextJob, NextOther DEF TypeOK, IsTree
<1>3. QED
  BY <1>1, <1>2

LEMMA InitTypes == Init => TypeOK
<1> SUFFICES ASSUME Init PROVE TypeOK
  OBVIOUS
<1>1. node \in [Paths -> Nodes] /\ held \in [Paths -> Nodes] /\ job \in Job /\ job = NoJob
  BY NoJobType DEF Init
<1>2. entry = "none" /\ row = "none" /\ stamps = {} /\ pc = "idle" /\ purger = "ready"
      /\ given = "no" /\ late = {} /\ found \in Nodes /\ edits \in Nat
  BY DEF Init, Nodes
<1>3. \A p \in Paths : node[p] # None => \A q \in Above[p] \ {p} : node[q] = Dir
  BY DEF Init
<1>4. QED
  BY <1>1, <1>2, <1>3 DEF TypeOK

\* TypeOK: everything keeps its type, a path has its directories and an idle command
\* carries nothing.
THEOREM TypeCorrect == Spec => []TypeOK
BY InitTypes, NextTypes, PTL DEF Spec

-----------------------------------------------------------------------------
(* What a job carries at each program point, and which row it is about.        *)

Extracting == {"extract", "make"}

PointsFit ==
    /\ pc \in {"readlink", "stat", "open", "tar", "copy", "insert"} => row = "none"
    /\ pc \in {"verify", "reread", "walk", "remove"} => row = job.kind
    /\ pc \in UndeletePoints => row # "none"
    /\ pc \in {"readlink", "reread"} => job.kind = "link"
    /\ pc \in {"open", "tar", "copy", "walk"} => job.kind = "tree"
    /\ pc \in {"stat", "insert", "verify"} => job.kind # "none"
    /\ pc \in Extracting \cup {"rollback"} => row = "tree"

JobFits ==
    /\ pc \notin Extracting \cup {"rollback", "consume", "mark"} => job.created = <<>>
    /\ pc \in {"readlink", "stat", "open"} \cup UndeletePoints => job.members = Nothing
    /\ job.kind = "link" => job.members = Nothing
    /\ pc \notin {"make", "rollback"} => job.pending = {}
    /\ pc = "copy" => \E p \in Paths : First(p) /\ job.members[p] = "regular"
    /\ pc \notin {"walk", "remove", "discard"} => job.unarchived = "no"

LEMMA NextPoints == TypeOK /\ PointsFit /\ Next => PointsFit'
<1> SUFFICES ASSUME TypeOK, PointsFit, Next PROVE PointsFit'
  OBVIOUS
<1> USE DEF TypeOK, PointsFit, Goto, Proceed, End, DeletePoints, UndeletePoints, Extracting, arch, db, hist, rest
<1>1. CASE Stop \/ WriteLinkFails \/ TarFails \/ DiscardEntry \/ RemoveSource \/ RemoveFails \/ ClearFails
           \/ MarkRestored
  BY <1>1 DEF Stop, WriteLinkFails, TarFails, DiscardEntry, RemoveSource, RemoveFails, ClearFails,
          MarkRestored
<1>2. CASE PlanDelete
  BY <1>2, NoJobType DEF PlanDelete, Job
<1>3. CASE ReadLink \/ InsertRow \/ InsertFails \/ LinkAgrees \/ TreeUnchanged \/ TreeChanged
  BY <1>3 DEF ReadLink, InsertRow, InsertFails, LinkAgrees, TreeUnchanged, TreeChanged
<1>4. CASE StatLink \/ StatTree \/ OpenTar \/ FinishTar
  BY <1>4 DEF StatLink, StatTree, OpenTar, FinishTar, Job
<1>5. CASE VerifySource
  BY <1>5 DEF VerifySource, Job
<1>6. CASE ResolveRecord \/ DestinationFree \/ DestinationOccupied \/ EntryVerified \/ ClearDestination
           \/ RecreateLink \/ OpenEntry
  BY <1>6 DEF ResolveRecord, DestinationFree, DestinationOccupied, EntryVerified, ClearDestination,
              RecreateLink, OpenEntry
<1>7. CASE ExtractFails \/ FinishExtract \/ Rollback \/ ConsumeEntry
  BY <1>7 DEF ExtractFails, FinishExtract, Rollback, ConsumeEntry, Ready
<1>8. CASE PurgeEntry \/ MarkPurged \/ MarkPurgedFails
  BY <1>8 DEF PurgeEntry, MarkPurged, MarkPurgedFails
<1>9. ASSUME NEW p \in Paths,
             VisitRegular(p) \/ VisitOther(p) \/ CopyMember(p) \/ VisitAgain(p)
      PROVE  PointsFit'
  BY <1>9 DEF VisitRegular, VisitOther, CopyMember, VisitAgain, Job
<1>10. ASSUME NEW p \in Paths,
             NextHeader(p) \/ MakeDir(p) \/ DirExists(p) \/ EndDirectory(p)
             \/ WriteMember(p) \/ WriteFails(p)
      PROVE  PointsFit'
  BY <1>10 DEF NextHeader, MakeDir, DirExists, EndDirectory, WriteMember, WriteFails, Write, Ready
<1>11. CASE User
  <2>1. PICK p \in Paths, n \in Nodes : Edit(p, n)
    BY <1>11 DEF User
  <2>2. UNCHANGED <<pc, row>> /\ job'.kind = job.kind
    BY <2>1 DEF Edit, Job
  <2>3. QED
    BY <2>2
<1>12. QED
  BY StepCases, <1>1, <1>2, <1>3, <1>4, <1>5, <1>6, <1>7, <1>8, <1>9, <1>10, <1>11

\* What a user's edit does to a job.
LEMMA EditJob ==
    ASSUME TypeOK, NEW p \in Paths, NEW n \in Nodes, Edit(p, n)
    PROVE  /\ job'.kind = job.kind /\ job'.todo = job.todo /\ job'.members = job.members
           /\ job'.unarchived = job.unarchived /\ job'.pending = job.pending
           /\ job'.created = job.created
           /\ job'.stale = job.stale \cup {q \in Paths : node'[q] # node[q] /\ job.members[q] = "regular"}
           /\ pc \in Watching => late' = late \cup {q \in Paths : node'[q] # node[q]}
           /\ pc \notin Watching => late' = late
           /\ UNCHANGED <<entry, held, row, stamps, pc, given, found, purger>>
<1>1. job'.kind = job.kind /\ job'.todo = job.todo /\ job'.members = job.members
      /\ job'.unarchived = job.unarchived /\ job'.pending = job.pending
      /\ job'.created = job.created
  BY DEF Edit, TypeOK, Job
<1>2. job'.stale = job.stale \cup {q \in {x \in Paths : node'[x] # node[x]} : job.members[q] = "regular"}
  BY DEF Edit, TypeOK, Job
<1>3. QED
  BY <1>1, <1>2 DEF Edit, Behind, arch, db

LEMMA NextJobFits == TypeOK /\ PointsFit /\ JobFits /\ Next => JobFits'
<1> SUFFICES ASSUME TypeOK, PointsFit, JobFits, Next PROVE JobFits'
  OBVIOUS
<1> USE DEF TypeOK, JobFits, Goto, Proceed, End, DeletePoints, UndeletePoints, Extracting, arch, db, hist, rest
<1>1. CASE Stop \/ WriteLinkFails \/ TarFails \/ DiscardEntry \/ RemoveSource \/ RemoveFails \/ ClearFails
           \/ MarkRestored
  BY <1>1 DEF Stop, WriteLinkFails, TarFails, DiscardEntry, RemoveSource, RemoveFails, ClearFails,
          MarkRestored, NoJob
<1>2. CASE PlanDelete
  BY <1>2 DEF PlanDelete, Job, NoJob
<1>3. CASE ReadLink \/ InsertRow \/ InsertFails \/ LinkAgrees \/ TreeUnchanged \/ TreeChanged
  BY <1>3 DEF ReadLink, InsertRow, InsertFails, LinkAgrees, TreeUnchanged, TreeChanged
<1>4. CASE StatLink \/ StatTree \/ OpenTar \/ FinishTar
  BY <1>4 DEF StatLink, StatTree, OpenTar, FinishTar, Job
<1>5. CASE VerifySource
  BY <1>5 DEF VerifySource, Job
<1>6. CASE ResolveRecord \/ DestinationFree \/ DestinationOccupied \/ EntryVerified \/ ClearDestination
           \/ RecreateLink
  BY <1>6 DEF ResolveRecord, DestinationFree, DestinationOccupied, EntryVerified, ClearDestination,
              RecreateLink, NoJob
<1>7. CASE OpenEntry
  BY <1>7 DEF OpenEntry, Job
<1>8. CASE ExtractFails \/ FinishExtract \/ ConsumeEntry
  BY <1>8 DEF ExtractFails, FinishExtract, ConsumeEntry, Ready
<1>9. CASE Rollback
  BY <1>9 DEF Rollback, Job
<1>10. CASE PurgeEntry \/ MarkPurged \/ MarkPurgedFails
  BY <1>10 DEF PurgeEntry, MarkPurged, MarkPurgedFails, First, Left
<1>11. ASSUME NEW p \in Paths, VisitRegular(p) PROVE JobFits'
  <2>1. First(p)' /\ job'.members[p] = "regular"
    BY <1>11 DEF VisitRegular, First, Left, Job
  <2>2. QED
    BY <1>11, <2>1 DEF VisitRegular, Job, PointsFit
<1>12. ASSUME NEW p \in Paths, VisitOther(p) \/ CopyMember(p) \/ VisitAgain(p) PROVE JobFits'
  <2>1. CASE VisitOther(p)
    BY <2>1 DEF VisitOther, Job, PointsFit
  <2>2. CASE CopyMember(p)
    BY <2>2 DEF CopyMember, Job, PointsFit
  <2>3. CASE VisitAgain(p)
    BY <2>3 DEF VisitAgain, Job, PointsFit
  <2>4. QED
    BY <1>12, <2>1, <2>2, <2>3
<1>13. ASSUME NEW p \in Paths, NextHeader(p) \/ DirExists(p) \/ EndDirectory(p) PROVE JobFits'
  BY <1>13 DEF NextHeader, DirExists, EndDirectory, Ready, Job
<1>14. ASSUME NEW p \in Paths, MakeDir(p) \/ WriteMember(p) \/ WriteFails(p) PROVE JobFits'
  BY <1>14 DEF MakeDir, WriteMember, WriteFails, Write, Ready, Job
<1>15. CASE User
  <2>1. PICK p \in Paths, n \in Nodes : Edit(p, n)
    BY <1>15 DEF User
  <2>2. UNCHANGED pc /\ job'.kind = job.kind /\ job'.todo = job.todo /\ job'.members = job.members
        /\ job'.unarchived = job.unarchived /\ job'.pending = job.pending
        /\ job'.created = job.created
    BY <2>1, EditJob
  <2>3. \A q \in Paths : First(q)' <=> First(q)
    BY <2>2 DEF First, Left
  <2>4. QED
    BY <2>2, <2>3
<1>16. QED
  BY StepCases, <1>1, <1>2, <1>3, <1>4, <1>5, <1>6, <1>7, <1>8, <1>9, <1>10, <1>11, <1>12, <1>13, <1>14, <1>15

-----------------------------------------------------------------------------
(* What the entry holds.                                                       *)

\* A tree, written from the top down; of a link, its target; never nothing.
HeldFits ==
    /\ IsTree(held)
    /\ pc \in {"tar", "copy"} =>
        /\ Root \in Left \/ held[Root] # None
        /\ \A p \in Left : held[p] = None /\ \A q \in Above[p] \ {p} : held[q] = Dir
    /\ row = "link" \/ (pc \in {"stat", "insert"} /\ job.kind = "link") =>
        held[Root] \in Targets /\ \A p \in Paths \ {Root} : held[p] = None
    /\ row = "tree" \/ (pc = "insert" /\ job.kind = "tree") => held[Root] # None

\* A walk writes p and lists what is in it.
LEMMA HoldMember ==
    ASSUME TypeOK, HeldFits, pc \in {"tar", "copy"}, row = "none", NEW p \in Paths, p \in Left,
           NEW n \in Nodes \ {None}, held' = [held EXCEPT ![p] = n],
           pc' = "tar", row' = row,
           Left' \subseteq (Left \ {p}) \cup (IF n = Dir THEN Children(p) ELSE {}),
           Left \ {p} \subseteq Left'
    PROVE  HeldFits'
<1> DEFINE H == held'
<1>1. held[p] = None /\ (\A q \in Above[p] \ {p} : held[q] = Dir) /\ held \in [Paths -> Nodes] /\ IsTree(held)
  BY DEF HeldFits, TypeOK
<1>2. \A x \in Below(p) \ {p} : held[x] = None
  BY <1>1, NodesAssumption, BelowFile
<1>3. ASSUME NEW x \in Paths, held'[x] # None, NEW q \in Above[x] \ {x} PROVE held'[q] = Dir
  <2>1. q \in Paths
    BY SelfBelow
  <2>2. CASE x = p
    BY <1>1, <1>3, <2>1, <2>2
  <2>3. CASE x # p
    <3>1. held[x] # None
      BY <1>1, <1>3, <2>3
    <3>2. q # p
      BY <1>2, <1>3, <2>3, <3>1 DEF Below
    <3>3. QED
      BY <1>1, <1>3, <2>1, <3>1, <3>2 DEF IsTree
  <2>4. QED
    BY <2>2, <2>3
<1>4. IsTree(held')
  BY <1>3 DEF IsTree
<1>5. held'[Root] # None \/ Root \in Left'
  BY <1>1, TreeAssumption DEF HeldFits
<1>6. ASSUME NEW x \in Left'
      PROVE  held'[x] = None /\ \A q \in Above[x] \ {x} : held'[q] = Dir
  <2>1. CASE x \in Left \ {p}
    <3>1. x \in Paths /\ held'[x] = None
      BY <1>1, <2>1 DEF HeldFits, Left
    <3>2. ASSUME NEW q \in Above[x] \ {x} PROVE held'[q] = Dir
      <4>1. q \in Paths /\ held[q] = Dir
        BY <2>1, <3>1, SelfBelow DEF HeldFits
      <4>2. q # p
        BY <1>1, <4>1, NodesAssumption
      <4>3. QED
        BY <1>1, <4>1, <4>2
    <3>3. QED
      BY <3>1, <3>2
  <2>2. CASE x \in Children(p) /\ n = Dir
    <3>1. x \in Paths \ {Root} /\ Parent[x] = p
      BY <2>2 DEF Children
    <3>2. Above[x] = {x} \cup Above[p] /\ x \notin Above[p]
      BY <3>1, TreeAssumption
    <3>3. x # p /\ x \in Below(p)
      BY <3>1, <3>2, SelfBelow DEF Below
    <3>4. held'[x] = None
      BY <1>1, <1>2, <3>1, <3>3
    <3>5. ASSUME NEW q \in Above[x] \ {x} PROVE held'[q] = Dir
      BY <1>1, <2>2, <3>2, SelfBelow
    <3>6. QED
      BY <3>4, <3>5
  <2>3. QED
    BY <2>1, <2>2
<1>7. QED
  BY <1>4, <1>5, <1>6 DEF HeldFits

LEMMA NextHeldFits == TypeOK /\ PointsFit /\ HeldFits /\ Next => HeldFits'
<1> SUFFICES ASSUME TypeOK, PointsFit, HeldFits, Next PROVE HeldFits'
  OBVIOUS
<1> USE DEF Goto, Proceed, End, DeletePoints, UndeletePoints, Extracting, arch, db, hist, rest
<1>1. CASE Stop \/ WriteLinkFails \/ DiscardEntry \/ RemoveSource \/ RemoveFails \/ ClearFails
           \/ MarkRestored
  BY <1>1 DEF Stop, WriteLinkFails, DiscardEntry, RemoveSource, RemoveFails, ClearFails,
          MarkRestored, HeldFits
<1>2. CASE PlanDelete
  BY <1>2, NoJobType DEF PlanDelete, Job, TypeOK, HeldFits
<1>3. CASE ReadLink
  <2>1. held' = [NoTree EXCEPT ![Root] = node[Root]] /\ node[Root] \in Targets /\ pc' = "stat" /\ row' = "none"
        /\ job' = job /\ job.kind = "link"
    BY <1>3 DEF ReadLink, PointsFit
  <2>2. \A p \in Paths : held'[p] = IF p = Root THEN node[Root] ELSE None
    BY <2>1 DEF NoTree
  <2>3. IsTree(held')
    BY <2>2, TreeAssumption DEF IsTree
  <2>4. QED
    BY <2>1, <2>2, <2>3, TreeAssumption DEF HeldFits
<1>4. CASE OpenTar
  <2>1. held' = NoTree /\ pc' = "tar" /\ row' = "none" /\ job'.todo = Listed({Root}, node) /\ node[Root] # None
    BY <1>4 DEF OpenTar, PointsFit, TypeOK, Job
  <2>2. \A q \in Paths : Listed({Root}, node)[q] = IF q = Root THEN Kind(node[Root]) ELSE "none"
    BY <2>1, ListedType DEF TypeOK
  <2>3. Kind(node[Root]) # "none"
    BY KindOf, TreeAssumption DEF TypeOK
  <2>4. Left' = {Root}
    <3>1. \A q \in Paths : job'.todo[q] # "none" <=> q = Root
      BY <2>1, <2>2, <2>3
    <3>2. QED
      BY <3>1, TreeAssumption DEF Left
  <2>5. \A q \in Above[Root] \ {Root} : held'[q] = Dir
    BY TreeAssumption
  <2>6. IsTree(held') /\ held'[Root] = None
    BY <2>1, NoTreeIsTree, TreeAssumption DEF NoTree
  <2>7. QED
    BY <2>1, <2>4, <2>5, <2>6 DEF HeldFits
<1>5. CASE TarFails
  <2>1. held' = NoTree /\ pc' = "idle" /\ row' = "none"
    BY <1>5 DEF TarFails, PointsFit
  <2>2. QED
    BY <2>1, NoTreeIsTree DEF HeldFits
<1>6. CASE StatLink \/ StatTree \/ FinishTar
  BY <1>6 DEF StatLink, StatTree, FinishTar, TypeOK, Job, HeldFits, PointsFit
<1>7. CASE InsertRow
  BY <1>7 DEF InsertRow, TypeOK, Job, HeldFits, PointsFit
<1>8. CASE InsertFails \/ VerifySource \/ LinkAgrees \/ TreeUnchanged \/ TreeChanged
  BY <1>8 DEF InsertFails, VerifySource, LinkAgrees, TreeUnchanged, TreeChanged, HeldFits
<1>9. CASE ResolveRecord \/ DestinationFree \/ DestinationOccupied \/ EntryVerified \/ ClearDestination
           \/ RecreateLink \/ OpenEntry
  BY <1>9 DEF ResolveRecord, DestinationFree, DestinationOccupied, EntryVerified, ClearDestination,
              RecreateLink, OpenEntry, HeldFits
<1>10. CASE ExtractFails \/ FinishExtract \/ Rollback \/ ConsumeEntry
  BY <1>10 DEF ExtractFails, FinishExtract, Rollback, ConsumeEntry, HeldFits, Ready
<1>11. CASE PurgeEntry \/ MarkPurged \/ MarkPurgedFails
  BY <1>11 DEF PurgeEntry, MarkPurged, MarkPurgedFails, HeldFits, Left
<1>12. ASSUME NEW p \in Paths, VisitRegular(p) PROVE HeldFits'
  <2>1. Left' = Left
    BY <1>12 DEF VisitRegular, Left, TypeOK, Job
  <2>2. QED
    BY <1>12, <2>1 DEF VisitRegular, HeldFits
<1>13. ASSUME NEW p \in Paths, VisitOther(p) PROVE HeldFits'
  <2>1. p \in Left /\ pc = "tar" /\ row = "none" /\ pc' = "tar" /\ row' = row
    BY <1>13 DEF VisitOther, First, PointsFit
  <2>2. node[p] \in Nodes \ {None} /\ (Kind(node[p]) = "dir" <=> node[p] = Dir)
    BY <1>13, KindOf DEF TypeOK, VisitOther, Visitable
  <2>3. job.todo[p] = "dir" => node[p] = Dir
    BY <1>13, <2>2 DEF VisitOther, Visitable
  <2>4. PICK n \in Nodes \ {None} : held' = [held EXCEPT ![p] = n] /\ (node[p] = Dir => n = Dir)
    BY <1>13, <2>2, NodesAssumption DEF VisitOther, Nodes
  <2>5. job'.todo = Descend(p)
    BY <1>13 DEF VisitOther, TypeOK, Job
  <2>6. \A q \in Paths : Descend(p)[q] # "none" =>
           \/ q # p /\ job.todo[q] # "none"
           \/ n = Dir /\ q \in Children(p)
    BY <2>3, <2>4, DescendType, VisitedType DEF TypeOK
  <2>7. \A q \in Paths \ {p} : job.todo[q] # "none" => Descend(p)[q] # "none"
    <3>1. \A q \in Paths : Kind(node[q]) # "none"
      BY KindOf DEF TypeOK
    <3>2. QED
      BY <3>1, DescendType, VisitedType DEF TypeOK
  <2>8. Left' \subseteq (Left \ {p}) \cup (IF n = Dir THEN Children(p) ELSE {}) /\ Left \ {p} \subseteq Left'
    BY <2>5, <2>6, <2>7 DEF Left
  <2>9. QED
    BY <2>1, <2>4, <2>8, HoldMember
<1>14. ASSUME NEW p \in Paths, CopyMember(p) PROVE HeldFits'
  <2>1. p \in Left /\ pc = "copy" /\ row = "none" /\ pc' = "tar" /\ row' = row
    BY <1>14 DEF CopyMember, First, PointsFit
  <2>2. PICK n \in Nodes \ {None} : held' = [held EXCEPT ![p] = n]
    BY <1>14, NodesAssumption DEF CopyMember, Nodes
  <2>3. job'.todo = Visited(p)
    BY <1>14 DEF CopyMember, TypeOK, Job
  <2>4. Left' = Left \ {p}
    BY <2>3, VisitedType DEF Left, TypeOK
  <2>5. QED
    BY <2>1, <2>2, <2>4, HoldMember
<1>15. ASSUME NEW p \in Paths, VisitAgain(p) \/ NextHeader(p) \/ MakeDir(p) \/ DirExists(p) \/ EndDirectory(p)
              \/ WriteMember(p) \/ WriteFails(p)
       PROVE  HeldFits'
  BY <1>15 DEF VisitAgain, NextHeader, MakeDir, DirExists, EndDirectory, WriteMember, WriteFails, HeldFits
<1>16. CASE User
  <2>1. PICK p \in Paths, n \in Nodes : Edit(p, n)
    BY <1>16 DEF User
  <2>2. UNCHANGED <<pc, row, held>> /\ job'.kind = job.kind /\ job'.todo = job.todo
    BY <2>1, EditJob
  <2>3. Left' = Left
    BY <2>2 DEF Left
  <2>4. QED
    BY <2>2, <2>3 DEF HeldFits
<1>17. QED
  BY StepCases, <1>1, <1>2, <1>3, <1>4, <1>5, <1>6, <1>7, <1>8, <1>9, <1>10, <1>11, <1>12, <1>13, <1>14,
     <1>15, <1>16

-----------------------------------------------------------------------------
(* An extraction is about what the entry holds and about nothing else.         *)

HeadersFit ==
    /\ pc \in Extracting =>
        /\ \A p \in Left : held[p] # None /\ job.todo[p] = Kind(held[p])
        /\ \A p \in job.pending : held[p] # None
    /\ pc \in Extracting \cup {"rollback"} =>
        \A i \in 1..Len(job.created) : held[job.created[i]] # None

\* Steps that are not an extraction's: they are made elsewhere, or leave it alone.
Elsewhere ==
    \/ pc' \notin Extracting \cup {"rollback"}
    \/ /\ UNCHANGED <<pc, row, held, node>>
       /\ job'.todo = job.todo /\ job'.pending = job.pending /\ job'.created = job.created

LEMMA ExtractionCases ==
    ASSUME TypeOK, Next
    PROVE  \/ Elsewhere \/ OpenEntry \/ ExtractFails \/ Rollback
           \/ \E p \in Paths :
                 NextHeader(p) \/ MakeDir(p) \/ DirExists(p) \/ EndDirectory(p) \/ WriteMember(p) \/ WriteFails(p)
           \/ User
<1> USE DEF Goto, Proceed, End, Extracting, Elsewhere
<1>1. CASE Stop \/ WriteLinkFails \/ DiscardEntry \/ RemoveSource \/ RemoveFails \/ ClearFails
           \/ MarkRestored \/ TarFails
  BY <1>1 DEF Stop, WriteLinkFails, DiscardEntry, RemoveSource, RemoveFails, ClearFails, MarkRestored, TarFails
<1>2. CASE PlanDelete \/ ReadLink \/ OpenTar \/ StatLink \/ StatTree \/ FinishTar \/ InsertRow
  BY <1>2 DEF PlanDelete, ReadLink, OpenTar, StatLink, StatTree, FinishTar, InsertRow
<1>3. CASE InsertFails \/ VerifySource \/ LinkAgrees \/ TreeUnchanged \/ TreeChanged
  BY <1>3 DEF InsertFails, VerifySource, LinkAgrees, TreeUnchanged, TreeChanged
<1>4. CASE ResolveRecord \/ DestinationFree \/ DestinationOccupied \/ EntryVerified \/ ClearDestination
           \/ RecreateLink \/ FinishExtract \/ ConsumeEntry
  BY <1>4 DEF ResolveRecord, DestinationFree, DestinationOccupied, EntryVerified, ClearDestination,
              RecreateLink, FinishExtract, ConsumeEntry
<1>5. CASE PurgeEntry \/ MarkPurged \/ MarkPurgedFails
  BY <1>5 DEF PurgeEntry, MarkPurged, MarkPurgedFails, arch, db
<1>6. ASSUME NEW p \in Paths, VisitRegular(p) \/ VisitOther(p) \/ CopyMember(p) \/ VisitAgain(p)
      PROVE  Elsewhere
  BY <1>6 DEF VisitRegular, VisitOther, CopyMember, VisitAgain
<1>7. QED
  BY StepCases, <1>1, <1>2, <1>3, <1>4, <1>5, <1>6

LEMMA NextHeadersFit ==
    ASSUME TypeOK, PointsFit, JobFits, HeldFits, HeadersFit, Next
    PROVE  HeadersFit'
<1> USE DEF Extracting
<1>1. CASE Elsewhere
  BY <1>1 DEF Elsewhere, HeadersFit, Left
<1>2. CASE OpenEntry
  <2>1. /\ job'.todo = Listed(Paths, held) /\ job'.created = job.created /\ job'.pending = job.pending
        /\ UNCHANGED held /\ job.created = <<>> /\ job.pending = {}
    BY <1>2 DEF OpenEntry, TypeOK, Job, JobFits, arch
  <2>2. held \in [Paths -> Nodes]
    BY DEF TypeOK
  <2>3. \A p \in Paths : Listed(Paths, held)[p] = IF p \in Paths /\ held[p] # None THEN Kind(held[p]) ELSE "none"
    BY <2>2, ListedType
  <2>4. QED
    BY <2>1, <2>3 DEF HeadersFit, Left
<1>3. CASE ExtractFails
  <2>1. pc \in Extracting \/ \E p \in Paths : Ready(p)
    BY <1>3 DEF ExtractFails
  <2>2. QED
    BY <1>3, <2>1 DEF ExtractFails, Ready, HeadersFit, arch
<1>4. CASE Rollback
  <2>1. job' = [job EXCEPT !.created = Older] /\ UNCHANGED <<pc, held>> /\ pc = "rollback" /\ job.created # <<>>
    BY <1>4 DEF Rollback, arch
  <2>2. job'.created = Older
    BY <2>1 DEF TypeOK, Job
  <2>3. \A i \in 1..Len(Older) : Older[i] = job.created[i] /\ i \in 1..Len(job.created)
    BY <2>1, LastCreated DEF TypeOK
  <2>4. QED
    BY <2>1, <2>2, <2>3 DEF HeadersFit
<1>5. ASSUME NEW p \in Paths, NextHeader(p) PROVE HeadersFit'
  <2>1. /\ job'.todo = job.todo /\ job'.created = job.created /\ pc = "extract" /\ pc' = "make" /\ UNCHANGED held
        /\ job'.pending \subseteq Above[p] /\ First(p)
    BY <1>5 DEF NextHeader, Wanted, TypeOK, Job, arch
  <2>2. held[p] # None /\ IsTree(held)
    BY <2>1 DEF HeadersFit, First, HeldFits
  <2>3. \A q \in Above[p] : held[q] # None
    BY <2>2, NodesAssumption DEF IsTree
  <2>4. QED
    BY <2>1, <2>3 DEF HeadersFit, Left
<1>6. ASSUME NEW p \in Paths, DirExists(p) \/ EndDirectory(p) PROVE HeadersFit'
  <2>1. /\ UNCHANGED held /\ pc = "make" /\ pc' \in {"make", "extract"}
        /\ job'.created = job.created /\ job'.pending \subseteq job.pending
    BY <1>6 DEF DirExists, EndDirectory, Ready, TypeOK, Job, arch
  <2>2. job'.todo = job.todo \/ job'.todo = Visited(p)
    BY <1>6 DEF DirExists, EndDirectory, TypeOK, Job
  <2>3. \A q \in Paths : job'.todo[q] # "none" => job'.todo[q] = job.todo[q]
    BY <2>2, VisitedType DEF TypeOK
  <2>4. QED
    BY <2>1, <2>3 DEF HeadersFit, Left
<1>7. ASSUME NEW p \in Paths, held[p] # None, pc = "make", UNCHANGED held, job'.created = Append(job.created, p)
      PROVE  \A i \in 1..Len(job'.created) : held'[job'.created[i]] # None
  BY <1>7, AppendCreated DEF HeadersFit, TypeOK
<1>8. ASSUME NEW p \in Paths, MakeDir(p) PROVE HeadersFit'
  <2>1. /\ UNCHANGED held /\ pc = "make" /\ pc' = "make" /\ job'.todo = job.todo
        /\ job'.pending \subseteq job.pending /\ job'.created = Append(job.created, p) /\ p \in job.pending
    BY <1>8 DEF MakeDir, Topmost, TypeOK, Job, arch
  <2>2. QED
    BY <1>7, <2>1 DEF HeadersFit, Left
<1>9. ASSUME NEW p \in Paths, WriteMember(p) \/ WriteFails(p) PROVE HeadersFit'
  <2>1. /\ UNCHANGED held /\ pc = "make" /\ pc' \in {"extract", "rollback"} /\ job'.pending = job.pending
        /\ p \in Left
    BY <1>9 DEF WriteMember, WriteFails, Write, Ready, First, TypeOK, Job, arch
  <2>2. job'.created = Append(job.created, p)
    BY <1>9 DEF WriteMember, WriteFails, TypeOK, Job
  <2>3. job'.todo = job.todo \/ job'.todo = Visited(p)
    BY <1>9 DEF WriteMember, WriteFails, TypeOK, Job
  <2>4. \A q \in Paths : job'.todo[q] # "none" => job'.todo[q] = job.todo[q]
    BY <2>3, VisitedType DEF TypeOK
  <2>5. held[p] # None
    BY <2>1 DEF HeadersFit
  <2>6. QED
    BY <1>7, <2>1, <2>2, <2>4, <2>5 DEF HeadersFit, Left
<1>10. CASE User
  <2>1. PICK p \in Paths, n \in Nodes : Edit(p, n)
    BY <1>10 DEF User
  <2>2. UNCHANGED <<pc, held>> /\ job'.todo = job.todo /\ job'.pending = job.pending /\ job'.created = job.created
    BY <2>1, EditJob
  <2>3. QED
    BY <2>2 DEF HeadersFit, Left
<1>11. QED
  BY ExtractionCases, <1>1, <1>2, <1>3, <1>4, <1>5, <1>6, <1>8, <1>9, <1>10

LEMMA NextForeign ==
    ASSUME TypeOK, HeadersFit, Next, edits' = edits, pc \in Extracting \cup {"rollback"}, NEW q \in Paths
    PROVE  node[q] = node'[q] \/ held[q] # None
<1> USE DEF Extracting
<1>1. ASSUME NEW p \in Paths,
             \/ PlanDelete \/ ReadLink \/ StatLink \/ WriteLinkFails \/ StatTree \/ OpenTar \/ FinishTar
             \/ TarFails \/ InsertRow \/ InsertFails \/ DiscardEntry \/ VerifySource \/ LinkAgrees
             \/ TreeUnchanged \/ TreeChanged \/ RemoveSource \/ RemoveFails
             \/ VisitRegular(p) \/ VisitOther(p) \/ CopyMember(p) \/ VisitAgain(p)
      PROVE  FALSE
  BY <1>1 DEF PlanDelete, ReadLink, StatLink, WriteLinkFails, StatTree, OpenTar, FinishTar, TarFails,
      InsertRow, InsertFails, DiscardEntry, VerifySource, LinkAgrees, TreeUnchanged, TreeChanged,
      RemoveSource, RemoveFails, VisitRegular, VisitOther, CopyMember, VisitAgain
<1>2. ~(\/ ResolveRecord \/ DestinationFree \/ DestinationOccupied \/ EntryVerified \/ ClearDestination
        \/ ClearFails \/ RecreateLink \/ ConsumeEntry \/ MarkRestored)
  BY DEF ResolveRecord, DestinationFree, DestinationOccupied, EntryVerified, ClearDestination, ClearFails,
         RecreateLink, ConsumeEntry, MarkRestored
<1>3. CASE PurgeEntry \/ MarkPurged \/ MarkPurgedFails
  BY <1>3 DEF PurgeEntry, MarkPurged, MarkPurgedFails
<1>4. CASE Rollback
  <2>1. node' \in {node, Without({Newest})} /\ Newest \in Paths /\ job.created # <<>>
    BY <1>4, LastCreated DEF Rollback, TypeOK
  <2>2. held[Newest] # None
    BY <2>1, LastCreated DEF HeadersFit, TypeOK, Newest
  <2>3. QED
    BY <2>1, <2>2 DEF Without
<1>5. ASSUME NEW p \in Paths, MakeDir(p) \/ WriteMember(p) \/ WriteFails(p)
      PROVE  node[q] = node'[q] \/ held[q] # None
  <2>1. \A x \in Paths \ {p} : node'[x] = node[x]
    BY <1>5 DEF MakeDir, WriteMember, WriteFails, Write, TypeOK
  <2>2. p \in Left \/ p \in job.pending
    BY <1>5 DEF MakeDir, Topmost, WriteMember, WriteFails, Write, Ready, First
  <2>3. pc = "make"
    BY <1>5 DEF MakeDir, WriteMember, WriteFails, Write, Ready
  <2>4. QED
    BY <2>1, <2>2, <2>3 DEF HeadersFit
<1>6. CASE OpenEntry \/ ExtractFails \/ FinishExtract \/ Stop
  BY <1>6 DEF OpenEntry, ExtractFails, FinishExtract, Stop, Proceed
<1>7. ASSUME NEW p \in Paths, NextHeader(p) \/ DirExists(p) \/ EndDirectory(p) PROVE UNCHANGED node
  BY <1>7 DEF NextHeader, DirExists, EndDirectory
<1>8. CASE User
  BY <1>8 DEF User, Edit, TypeOK
<1>9. QED
  BY StepCases, TreeAssumption, <1>1, <1>2, <1>3, <1>4, <1>5, <1>6, <1>7, <1>8

Inv == TypeOK /\ PointsFit /\ JobFits /\ HeldFits /\ HeadersFit

LEMMA InitInv == Init => Inv
<1> SUFFICES ASSUME Init PROVE Inv
  OBVIOUS
<1>1. TypeOK /\ job = NoJob /\ pc = "idle" /\ row = "none" /\ held = NoTree
  BY InitTypes DEF Init
<1>2. PointsFit /\ JobFits /\ HeadersFit
  BY <1>1 DEF PointsFit, JobFits, HeadersFit, NoJob, UndeletePoints, Extracting
<1>3. HeldFits
  BY <1>1, NoTreeIsTree DEF HeldFits
<1>4. QED
  BY <1>1, <1>2, <1>3 DEF Inv

LEMMA NextInv == Inv /\ [Next]_vars => Inv'
<1>1. CASE UNCHANGED vars
  BY <1>1 DEF vars, Inv, TypeOK, PointsFit, JobFits, HeldFits, HeadersFit, First, Left
<1>2. CASE Next
  BY <1>2, NextTypes, NextPoints, NextJobFits, NextHeldFits, NextHeadersFit DEF Inv
<1>3. QED
  BY <1>1, <1>2

\* ForeignSurvives: no extraction and no rollback touches a path the entry does not
\* hold, whatever users put there meanwhile.
THEOREM ForeignPathsSurvive == Spec => ForeignSurvives
<1>1. Init => Inv
  BY InitInv
<1>2. Inv /\ [Next]_vars => Inv'
  BY NextInv
<1>3. Inv /\ [Next]_vars =>
        [edits' = edits /\ pc \in {"extract", "make", "rollback"} =>
            \A p \in Paths : node[p] = node'[p] \/ held[p] # None]_vars
  BY NextForeign DEF Inv, Extracting
<1>4. QED
  BY <1>1, <1>2, <1>3, PTL DEF Spec, ForeignSurvives

-----------------------------------------------------------------------------
(* The removal: what the entry covers of what it destroys.                     *)

EntryFits ==
    /\ pc = "insert" => entry = "whole"
    /\ pc = "verify" => entry \in {"whole", "none"}
    /\ pc \in {"reread", "walk", "remove"} => entry = "whole" \/ "entry" \in late

\* A recorded file that has kept its size and mtime is what the entry holds.
MembersFit ==
    \A p \in Paths :
        job.members[p] = "regular" /\ p \notin job.stale /\ ~(pc = "copy" /\ First(p)) => held[p] = node[p]

Same(p) == node[p] # None /\ job.members[p] # "other" => held[p] = node[p]

\* What the verifying walk has not reached is below a path it has listed; what it
\* has reached has been found covered.
WalkFits ==
    /\ pc = "walk" /\ job.unarchived = "no" =>
        \A p \in Paths \ late : Above[p] \cap Left # {} \/ Same(p)
    /\ pc = "walk" => \A q \in Left : job.todo[q] # "dir" =>
        \A p \in (Below(q) \ {q}) \ late : node[p] = None
    /\ pc = "remove" => \A p \in Paths \ late : Same(p)

LEMMA NextEntryFits ==
    ASSUME TypeOK, PointsFit, EntryFits, Next
    PROVE  EntryFits'
<1> USE DEF TypeOK, EntryFits, Goto, Proceed, End, DeletePoints, UndeletePoints, arch, db, hist, rest
<1>1. CASE Stop \/ WriteLinkFails \/ TarFails \/ DiscardEntry \/ RemoveSource \/ RemoveFails \/ ClearFails
           \/ MarkRestored \/ PlanDelete \/ ReadLink \/ StatTree \/ OpenTar
  BY <1>1 DEF Stop, WriteLinkFails, TarFails, DiscardEntry, RemoveSource, RemoveFails, ClearFails,
          MarkRestored, PlanDelete, ReadLink, StatTree, OpenTar
<1>2. CASE StatLink \/ FinishTar \/ InsertRow \/ InsertFails \/ VerifySource \/ TreeUnchanged \/ TreeChanged
  BY <1>2 DEF StatLink, FinishTar, InsertRow, InsertFails, VerifySource, TreeUnchanged, TreeChanged
<1>3. CASE LinkAgrees
  BY <1>3, TreeAssumption DEF LinkAgrees
<1>4. CASE ResolveRecord \/ DestinationFree \/ DestinationOccupied \/ EntryVerified \/ ClearDestination
           \/ RecreateLink \/ OpenEntry
  BY <1>4 DEF ResolveRecord, DestinationFree, DestinationOccupied, EntryVerified, ClearDestination,
              RecreateLink, OpenEntry
<1>5. CASE ExtractFails \/ FinishExtract \/ Rollback \/ ConsumeEntry
  BY <1>5 DEF ExtractFails, FinishExtract, Rollback, ConsumeEntry
<1>6. CASE PurgeEntry
  BY <1>6 DEF PurgeEntry, Behind, Watching, PointsFit
<1>7. CASE MarkPurged \/ MarkPurgedFails
  BY <1>7 DEF MarkPurged, MarkPurgedFails
<1>8. ASSUME NEW p \in Paths, VisitRegular(p) \/ VisitOther(p) \/ CopyMember(p) PROVE EntryFits'
  BY <1>8 DEF VisitRegular, VisitOther, CopyMember
<1>9. ASSUME NEW p \in Paths, VisitAgain(p) PROVE EntryFits'
  BY <1>9, TreeAssumption DEF VisitAgain
<1>10. ASSUME NEW p \in Paths,
              NextHeader(p) \/ MakeDir(p) \/ DirExists(p) \/ EndDirectory(p) \/ WriteMember(p) \/ WriteFails(p)
       PROVE  EntryFits'
  BY <1>10 DEF NextHeader, MakeDir, DirExists, EndDirectory, WriteMember, WriteFails, Write, Ready
<1>11. CASE User
  <2>1. PICK p \in Paths, n \in Nodes : Edit(p, n)
    BY <1>11 DEF User
  <2>2. UNCHANGED <<pc, entry>> /\ late \subseteq late'
    BY <2>1, EditJob
  <2>3. QED
    BY <2>2
<1>12. QED
  BY StepCases, <1>1, <1>2, <1>3, <1>4, <1>5, <1>6, <1>7, <1>8, <1>9, <1>10, <1>11

LEMMA NextMembersFit ==
    ASSUME TypeOK, PointsFit, JobFits, MembersFit, Next
    PROVE  MembersFit'
<1> USE DEF Goto, Proceed, End, arch, db, hist, rest
<1>1. ASSUME job'.members = Nothing PROVE MembersFit'
  BY <1>1 DEF MembersFit, Nothing
<1>2. ASSUME UNCHANGED <<node, held>>, job'.members = job.members, job'.stale = job.stale,
             pc # "copy", pc' # "copy"
      PROVE  MembersFit'
  BY <1>2 DEF MembersFit
<1>3. CASE Stop \/ WriteLinkFails \/ TarFails \/ DiscardEntry \/ RemoveSource \/ RemoveFails \/ ClearFails
           \/ MarkRestored
  <2>1. job' = NoJob
    BY <1>3 DEF Stop, WriteLinkFails, TarFails, DiscardEntry, RemoveSource, RemoveFails, ClearFails, MarkRestored
  <2>2. QED
    BY <1>1, <2>1 DEF NoJob
<1>4. CASE PlanDelete \/ ReadLink \/ StatLink \/ StatTree \/ OpenTar
  <2>1. job'.members = job.members
    BY <1>4 DEF PlanDelete, ReadLink, StatLink, StatTree, OpenTar, TypeOK, Job
  <2>2. job.members = Nothing
    BY <1>4 DEF PlanDelete, ReadLink, StatLink, StatTree, OpenTar, TypeOK, JobFits, NoJob
  <2>3. QED
    BY <1>1, <2>1, <2>2
<1>5. CASE FinishTar \/ InsertRow \/ InsertFails \/ VerifySource \/ LinkAgrees \/ TreeUnchanged \/ TreeChanged
  <2>1. pc \in {"tar", "insert", "verify", "reread", "walk"} /\ pc' # "copy"
    BY <1>5 DEF FinishTar, InsertRow, InsertFails, VerifySource, LinkAgrees, TreeUnchanged, TreeChanged
  <2>2. UNCHANGED <<node, held>> /\ job'.members = job.members /\ job'.stale = job.stale
    BY <1>5 DEF FinishTar, InsertRow, InsertFails, VerifySource, LinkAgrees, TreeUnchanged, TreeChanged,
                TypeOK, Job
  <2>3. QED
    BY <1>2, <2>1, <2>2
<1>6. ASSUME pc \in {"idle"} \cup UndeletePoints, job'.members = job.members PROVE MembersFit'
  BY <1>1, <1>6 DEF JobFits, TypeOK, NoJob
<1>7. CASE ResolveRecord \/ DestinationFree \/ DestinationOccupied \/ EntryVerified \/ ClearDestination
           \/ RecreateLink \/ OpenEntry \/ FinishExtract \/ Rollback \/ ConsumeEntry
  <2>1. pc \in {"idle"} \cup UndeletePoints
    BY <1>7 DEF UndeletePoints, ResolveRecord, DestinationFree, DestinationOccupied, EntryVerified,
                ClearDestination, RecreateLink, OpenEntry, FinishExtract, Rollback, ConsumeEntry
  <2>2. job'.members = job.members
    BY <1>7 DEF ResolveRecord, DestinationFree, DestinationOccupied, EntryVerified, ClearDestination,
                RecreateLink, OpenEntry, FinishExtract, Rollback, ConsumeEntry, TypeOK, Job
  <2>3. QED
    BY <1>6, <2>1, <2>2
<1>8. CASE ExtractFails
  BY <1>6, <1>8 DEF ExtractFails, UndeletePoints, Ready
<1>9. ASSUME NEW p \in Paths,
              NextHeader(p) \/ MakeDir(p) \/ DirExists(p) \/ EndDirectory(p) \/ WriteMember(p) \/ WriteFails(p)
      PROVE  MembersFit'
  <2>1. pc \in UndeletePoints
    BY <1>9 DEF UndeletePoints, NextHeader, MakeDir, DirExists, EndDirectory, WriteMember, WriteFails, Write, Ready
  <2>2. job'.members = job.members
    BY <1>9 DEF NextHeader, MakeDir, DirExists, EndDirectory, WriteMember, WriteFails, TypeOK, Job
  <2>3. QED
    BY <1>6, <2>1, <2>2
<1>10. CASE PurgeEntry \/ MarkPurged \/ MarkPurgedFails
  BY <1>10 DEF PurgeEntry, MarkPurged, MarkPurgedFails, MembersFit, First, Left
<1>11. ASSUME NEW p \in Paths, VisitRegular(p) PROVE MembersFit'
  <2>1. UNCHANGED <<node, held>> /\ pc = "tar" /\ pc' = "copy"
    BY <1>11 DEF VisitRegular
  <2>2. /\ \A q \in Paths \ {p} : job'.members[q] = job.members[q] /\ (q \in job'.stale <=> q \in job.stale)
        /\ job'.todo = job.todo
    BY <1>11 DEF VisitRegular, TypeOK, Job
  <2>3. First(p)'
    BY <1>11, <2>2 DEF VisitRegular, First, Left
  <2>4. QED
    BY <2>1, <2>2, <2>3 DEF MembersFit
<1>12. ASSUME NEW p \in Paths, VisitOther(p) PROVE MembersFit'
  <2>1. UNCHANGED node /\ pc = "tar" /\ pc' = "tar" /\ job'.stale = job.stale
    BY <1>12 DEF VisitOther, TypeOK, Job
  <2>2. job'.members[p] = "other" /\ \A q \in Paths \ {p} : job'.members[q] = job.members[q] /\ held'[q] = held[q]
    BY <1>12 DEF VisitOther, TypeOK, Job
  <2>3. QED
    BY <2>1, <2>2 DEF MembersFit
<1>13. ASSUME NEW p \in Paths, CopyMember(p) PROVE MembersFit'
  <2>1. UNCHANGED node /\ pc = "copy" /\ pc' = "tar" /\ job'.stale = job.stale /\ job'.members = job.members
    BY <1>13 DEF CopyMember, TypeOK, Job
  <2>2. \A q \in Paths \ {p} : held'[q] = held[q] /\ ~First(q)
    BY <1>13, FirstIsOne DEF CopyMember, TypeOK
  <2>3. p \notin job.stale => held'[p] = node[p]
    BY <1>13 DEF CopyMember, TypeOK
  <2>4. QED
    BY <2>1, <2>2, <2>3 DEF MembersFit
<1>14. ASSUME NEW p \in Paths, VisitAgain(p) PROVE MembersFit'
  <2>1. UNCHANGED <<node, held>> /\ job'.members = job.members /\ job'.stale = job.stale
        /\ pc = "walk" /\ pc' = "walk"
    BY <1>14 DEF VisitAgain, TypeOK, Job
  <2>2. QED
    BY <1>2, <2>1
<1>15. CASE User
  <2>1. PICK p \in Paths, n \in Nodes : Edit(p, n)
    BY <1>15 DEF User
  <2>2. UNCHANGED <<pc, held>> /\ job'.members = job.members /\ job'.todo = job.todo
        /\ job'.stale = job.stale \cup {q \in Paths : node'[q] # node[q] /\ job.members[q] = "regular"}
    BY <2>1, EditJob
  <2>3. \A q \in Paths : First(q)' <=> First(q)
    BY <2>2 DEF First, Left
  <2>4. QED
    BY <2>2, <2>3 DEF MembersFit
<1>16. QED
  BY StepCases, <1>3, <1>4, <1>5, <1>7, <1>8, <1>9, <1>10, <1>11, <1>12, <1>13, <1>14, <1>15

\* One visit of the verifying walk.
LEMMA VisitAgainWalkFits ==
    ASSUME TypeOK, MembersFit, WalkFits, NEW p \in Paths, VisitAgain(p)
    PROVE  WalkFits'
<1>1. /\ UNCHANGED <<node, held>> /\ pc = "walk" /\ pc' = "walk" /\ late' = late \ {p}
      /\ job'.members = job.members /\ job'.todo = Descend(p) /\ First(p) /\ p \in Left
      /\ job'.unarchived = "no" =>
            job.unarchived = "no" /\ job.members[p] # "none" /\ p \notin job.stale
  BY DEF VisitAgain, First, TypeOK, Job, arch
<1>2. \A q \in Paths : Descend(p)[q] =
          IF job.todo[p] = "dir" /\ q \in Children(p) /\ node[q] # None THEN Kind(node[q]) ELSE Visited(p)[q]
  BY DescendType DEF TypeOK
<1>3. \A q \in Left \ {p} : q \in Left'
  <2>1. \A q \in Paths : Kind(node[q]) # "none"
    BY KindOf DEF TypeOK
  <2>2. QED
    BY <1>1, <1>2, <2>1, VisitedType DEF Left, TypeOK
<1>4. IsTree(node)
  BY DEF TypeOK, IsTree
<1>5. ASSUME job'.unarchived = "no", NEW x \in Paths \ late'
      PROVE  Above[x] \cap Left' # {} \/ Same(x)'
  <2>1. Same(x)' <=> Same(x)
    BY <1>1 DEF Same
  <2>2. CASE x = p
    <3>1. job.members[p] \in {"none", "regular", "other"}
      BY DEF TypeOK, Job
    <3>2. Same(x)
      BY <1>1, <1>5, <2>2, <3>1 DEF MembersFit, Same
    <3>3. QED
      BY <2>1, <3>2
  <2>3. CASE x # p /\ Same(x)
    BY <2>1, <2>3
  <2>4. CASE x # p /\ ~Same(x)
    <3>1. x \notin late /\ node[x] # None
      BY <1>1, <1>5, <2>4 DEF Same
    <3>2. PICK q \in Above[x] : q \in Left
      BY <1>1, <1>5, <2>4, <3>1 DEF WalkFits
    <3>3. CASE q # p
      BY <1>3, <3>2, <3>3
    <3>4. CASE q = p
      <4>1. x \in Below(p) \ {p}
        BY <2>4, <3>2, <3>4 DEF Below
      <4>2. job.todo[p] = "dir"
        BY <1>1, <3>1, <4>1 DEF WalkFits
      <4>3. PICK c \in Above[x] \ {Root} : Parent[c] = p
        BY <4>1, TreeAssumption DEF Below
      <4>4. c \in Paths /\ c \in Children(p)
        BY <4>3, SelfBelow DEF Children
      <4>5. node[c] # None
        BY <1>4, <3>1, <4>3, NodesAssumption DEF IsTree
      <4>6. Kind(node[c]) # "none"
        BY <4>4, KindOf DEF TypeOK
      <4>7. c \in Left'
        BY <1>1, <1>2, <4>2, <4>4, <4>5, <4>6 DEF Left
      <4>8. QED
        BY <4>3, <4>7
    <3>5. QED
      BY <3>3, <3>4
  <2>5. QED
    BY <2>2, <2>3, <2>4
<1>6. ASSUME NEW q \in Left', job'.todo[q] # "dir", NEW x \in (Below(q) \ {q}) \ late'
      PROVE  node'[x] = None
  <2>1. q \in Paths /\ x \in Paths
    BY <1>6 DEF Left, Below
  <2>2. CASE job.todo[p] = "dir" /\ q \in Children(p) /\ node[q] # None
    <3>1. Kind(node[q]) # "dir"
      BY <1>1, <1>2, <1>6, <2>1, <2>2
    <3>2. node[q] # Dir
      BY <2>1, <3>1, KindOf DEF TypeOK
    <3>3. QED
      BY <1>1, <1>4, <1>6, <2>1, <3>2, BelowFile
  <2>3. CASE ~(job.todo[p] = "dir" /\ q \in Children(p) /\ node[q] # None)
    <3>1. job'.todo[q] = Visited(p)[q]
      BY <1>1, <1>2, <2>1, <2>3
    <3>2. q # p /\ job.todo[q] = job'.todo[q] /\ q \in Left
      BY <1>6, <2>1, <3>1, VisitedType DEF Left, TypeOK
    <3>3. x # p
      BY <1>1, <1>6, <3>2, FirstIsTop DEF Below
    <3>4. x \notin late
      BY <1>1, <1>6, <3>3
    <3>5. QED
      BY <1>1, <1>6, <3>2, <3>4 DEF WalkFits
  <2>4. QED
    BY <2>2, <2>3
<1>7. QED
  BY <1>1, <1>5, <1>6 DEF WalkFits

LEMMA NextWalkFits ==
    ASSUME TypeOK, PointsFit, HeldFits, MembersFit, WalkFits, Next
    PROVE  WalkFits'
<1> USE DEF Goto, Proceed, End, arch, db, hist, rest
<1>1. ASSUME pc' \notin {"walk", "remove"} PROVE WalkFits'
  BY <1>1 DEF WalkFits
<1>2. IsTree(node) /\ node \in [Paths -> Nodes]
  BY DEF TypeOK, IsTree
<1>3. CASE Stop \/ WriteLinkFails \/ TarFails \/ DiscardEntry \/ RemoveSource \/ RemoveFails \/ ClearFails
           \/ MarkRestored \/ PlanDelete \/ ReadLink \/ StatLink \/ StatTree \/ OpenTar
  BY <1>1, <1>3 DEF Stop, WriteLinkFails, TarFails, DiscardEntry, RemoveSource, RemoveFails, ClearFails,
      MarkRestored, PlanDelete, ReadLink, StatLink, StatTree, OpenTar
<1>4. CASE FinishTar \/ InsertRow \/ InsertFails \/ TreeChanged
  BY <1>1, <1>4 DEF FinishTar, InsertRow, InsertFails, TreeChanged
<1>5. CASE ResolveRecord \/ DestinationFree \/ DestinationOccupied \/ EntryVerified \/ ClearDestination
           \/ RecreateLink \/ OpenEntry \/ FinishExtract \/ Rollback \/ ConsumeEntry \/ ExtractFails
  BY <1>1, <1>5 DEF ResolveRecord, DestinationFree, DestinationOccupied, EntryVerified,
      ClearDestination, RecreateLink, OpenEntry, FinishExtract, Rollback, ConsumeEntry, ExtractFails
<1>6. ASSUME NEW p \in Paths, VisitRegular(p) \/ VisitOther(p) \/ CopyMember(p)
              \/ NextHeader(p) \/ MakeDir(p) \/ DirExists(p) \/ EndDirectory(p) \/ WriteMember(p) \/ WriteFails(p)
      PROVE  WalkFits'
  BY <1>1, <1>6 DEF VisitRegular, VisitOther, CopyMember, NextHeader, MakeDir, DirExists, EndDirectory,
      WriteMember, WriteFails, Write, Ready
<1>7. CASE VerifySource
  <2>1. UNCHANGED node /\ job'.todo = Listed({Root}, node) /\ pc' \in {"walk", "reread"} /\ node[Root] # None
    BY <1>7 DEF VerifySource, SourceStands, TypeOK, Job
  <2>2. \A q \in Paths : Listed({Root}, node)[q] = IF q \in {Root} /\ node[q] # None THEN Kind(node[q]) ELSE "none"
    BY <1>2, ListedType
  <2>3. Root \in Paths /\ Kind(node[Root]) # "none" /\ (Kind(node[Root]) # "dir" => node[Root] # Dir)
    BY <1>2, KindOf, TreeAssumption
  <2>4. Root \in Left' /\ \A q \in Left' : q = Root
    BY <2>1, <2>2, <2>3 DEF Left
  <2>5. \A p \in Paths : Above[p] \cap Left' # {}
    BY <2>4, TreeAssumption
  <2>6. job'.todo[Root] # "dir" => \A p \in Below(Root) \ {Root} : node'[p] = None
    BY <1>2, <2>1, <2>2, <2>3, BelowFile
  <2>7. QED
    BY <2>1, <2>4, <2>5, <2>6 DEF WalkFits
<1>8. CASE LinkAgrees
  <2>1. UNCHANGED <<node, held, job>> /\ pc' = "remove" /\ node[Root] = held[Root] /\ row = "link"
    BY <1>8 DEF LinkAgrees, PointsFit
  <2>2. node[Root] # Dir
    BY <2>1, NodesAssumption DEF HeldFits
  <2>3. \A p \in Below(Root) \ {Root} : node[p] = None
    BY <1>2, <2>2, BelowFile, TreeAssumption
  <2>4. \A p \in Paths : p = Root \/ p \in Below(Root) \ {Root}
    BY TreeAssumption DEF Below
  <2>5. \A p \in Paths : Same(p)'
    BY <2>1, <2>3, <2>4 DEF Same
  <2>6. QED
    BY <2>1, <2>5 DEF WalkFits
<1>9. CASE TreeUnchanged
  <2>1. pc = "walk" /\ Left = {} /\ job.unarchived = "no" /\ pc' = "remove" /\ UNCHANGED <<node, held, job, late>>
    BY <1>9 DEF TreeUnchanged
  <2>2. \A p \in Paths \ late : Same(p)
    BY <2>1 DEF WalkFits
  <2>3. QED
    BY <2>1, <2>2 DEF WalkFits, Same
<1>10. ASSUME NEW p \in Paths, VisitAgain(p) PROVE WalkFits'
  BY <1>10, VisitAgainWalkFits
<1>11. CASE PurgeEntry \/ MarkPurged \/ MarkPurgedFails
  <2>1. UNCHANGED <<node, held, job, pc>> /\ late \subseteq late'
    BY <1>11 DEF PurgeEntry, MarkPurged, MarkPurgedFails, Behind
  <2>2. QED
    BY <2>1 DEF WalkFits, Same, Left
<1>12. CASE User
  <2>1. PICK p \in Paths, n \in Nodes : Edit(p, n)
    BY <1>12 DEF User
  <2>2. UNCHANGED <<pc, held>> /\ job'.members = job.members /\ job'.todo = job.todo
        /\ job'.unarchived = job.unarchived
    BY <2>1, EditJob
  <2>3. CASE pc \in {"walk", "remove"}
    <3>1. late' = late \cup {q \in Paths : node'[q] # node[q]}
      BY <2>1, <2>3, EditJob DEF Watching
    <3>2. \A q \in Paths \ late' : q \notin late /\ node'[q] = node[q]
      BY <3>1
    <3>3. \A q \in Paths \ late' : Same(q)' <=> Same(q)
      BY <2>2, <3>2 DEF Same
    <3>4. Left' = Left
      BY <2>2 DEF Left
    <3>5. \A q \in Left : Below(q) \subseteq Paths
      BY DEF Below
    <3>6. QED
      BY <2>2, <3>2, <3>3, <3>4, <3>5 DEF WalkFits
  <2>4. QED
    BY <1>1, <2>2, <2>3
<1>13. QED
  BY StepCases, <1>3, <1>4, <1>5, <1>6, <1>7, <1>8, <1>9, <1>10, <1>11, <1>12

CoverInv == EntryFits /\ MembersFit /\ WalkFits

LEMMA NextCoverInv == Inv /\ CoverInv /\ [Next]_vars => CoverInv'
<1>1. CASE UNCHANGED vars
  BY <1>1 DEF vars, CoverInv, EntryFits, MembersFit, WalkFits, Same, First, Left
<1>2. CASE Next
  BY <1>2, NextEntryFits, NextMembersFit, NextWalkFits DEF Inv, CoverInv
<1>3. QED
  BY <1>1, <1>2

LEMMA InitCoverInv == Init => CoverInv
<1> SUFFICES ASSUME Init PROVE CoverInv
  OBVIOUS
<1>1. pc = "idle" /\ job.members = Nothing
  BY DEF Init, NoJob
<1>2. QED
  BY <1>1 DEF CoverInv, EntryFits, MembersFit, WalkFits, Nothing

\* FilesCovered: whatever users and a purge do, the removal destroys only what the
\* entry holds a copy of, or what came or changed after the last look at it.
THEOREM FilesAreCovered == Spec => []FilesCovered
<1>1. Init => Inv /\ CoverInv
  BY InitInv, InitCoverInv
<1>2. (Inv /\ CoverInv) /\ [Next]_vars => (Inv /\ CoverInv)'
  BY NextInv, NextCoverInv
<1>3. Inv /\ CoverInv => FilesCovered
  BY DEF CoverInv, EntryFits, WalkFits, FilesCovered, Covered, Same
<1>4. QED
  BY <1>1, <1>2, <1>3, PTL DEF Spec

\* What TreeCovered takes beyond that: a user who, while the delete is under way,
\* makes nothing else of a directory or a link it has archived, other than removing
\* it, and no link of what it has listed as a file.
KindsKept ==
    pc \in DeletePoints => \A p \in Paths :
        /\ job.members[p] = "other" => node'[p] \in {None, node[p]}
        /\ pc \in {"tar", "copy"} /\ job.todo[p] = "file" => node'[p] \notin Targets

OthersFit ==
    /\ \A p \in Paths : job.members[p] = "other" => node[p] \in {None, held[p]}
    /\ pc \in {"tar", "copy"} => \A p \in Paths : job.todo[p] = "file" => node[p] \notin Targets

LEMMA NextOthersFit ==
    ASSUME TypeOK, JobFits, OthersFit, KindsKept, Next
    PROVE  OthersFit'
<1> USE DEF Goto, Proceed, End, arch, db, hist, rest
<1>1. ASSUME job'.members = Nothing, pc' \notin {"tar", "copy"} PROVE OthersFit'
  BY <1>1 DEF OthersFit, Nothing
<1>2. ASSUME UNCHANGED <<node, held>>, job'.members = job.members, pc' \notin {"tar", "copy"} PROVE OthersFit'
  BY <1>2 DEF OthersFit
<1>3. CASE Stop \/ WriteLinkFails \/ TarFails \/ DiscardEntry \/ RemoveSource \/ RemoveFails \/ ClearFails
           \/ MarkRestored
  <2>1. job' = NoJob /\ pc' = "idle"
    BY <1>3 DEF Stop, WriteLinkFails, TarFails, DiscardEntry, RemoveSource, RemoveFails, ClearFails, MarkRestored
  <2>2. QED
    BY <1>1, <2>1 DEF NoJob
<1>4. CASE PlanDelete \/ ReadLink \/ StatLink \/ StatTree
  <2>1. job'.members = job.members /\ pc' \notin {"tar", "copy"}
    BY <1>4 DEF PlanDelete, ReadLink, StatLink, StatTree, TypeOK, Job
  <2>2. job.members = Nothing
    BY <1>4 DEF PlanDelete, ReadLink, StatLink, StatTree, TypeOK, JobFits, NoJob
  <2>3. QED
    BY <1>1, <2>1, <2>2
<1>5. CASE OpenTar
  <2>1. job'.members = Nothing /\ job'.todo = Listed({Root}, node) /\ UNCHANGED node
    BY <1>5 DEF OpenTar, TypeOK, Job, JobFits
  <2>2. \A q \in Paths : job'.todo[q] = "file" => Kind(node[q]) = "file"
    BY <2>1, ListedType DEF TypeOK
  <2>3. \A q \in Paths : job'.todo[q] = "file" => node[q] \notin Targets
    BY <2>2, KindOf DEF TypeOK
  <2>4. QED
    BY <2>1, <2>3 DEF OthersFit, Nothing
<1>6. CASE FinishTar \/ InsertRow \/ InsertFails \/ VerifySource \/ LinkAgrees \/ TreeUnchanged \/ TreeChanged
  <2>1. UNCHANGED <<node, held>> /\ job'.members = job.members /\ pc' \notin {"tar", "copy"}
    BY <1>6 DEF FinishTar, InsertRow, InsertFails, VerifySource, LinkAgrees, TreeUnchanged, TreeChanged,
                TypeOK, Job
  <2>2. QED
    BY <1>2, <2>1
<1>7. ASSUME pc \in {"idle"} \cup UndeletePoints, job'.members = job.members, pc' \notin {"tar", "copy"}
      PROVE  OthersFit'
  BY <1>1, <1>7 DEF JobFits, TypeOK, NoJob
<1>8. CASE ResolveRecord \/ DestinationFree \/ DestinationOccupied \/ EntryVerified \/ ClearDestination
           \/ RecreateLink \/ OpenEntry \/ FinishExtract \/ Rollback \/ ConsumeEntry \/ ExtractFails
  <2>1. pc \in {"idle"} \cup UndeletePoints /\ pc' \notin {"tar", "copy"}
    BY <1>8 DEF UndeletePoints, ResolveRecord, DestinationFree, DestinationOccupied, EntryVerified,
                ClearDestination, RecreateLink, OpenEntry, FinishExtract, Rollback, ConsumeEntry,
                ExtractFails, Ready
  <2>2. job'.members = job.members
    BY <1>8 DEF ResolveRecord, DestinationFree, DestinationOccupied, EntryVerified, ClearDestination,
                RecreateLink, OpenEntry, FinishExtract, Rollback, ConsumeEntry, ExtractFails, TypeOK, Job
  <2>3. QED
    BY <1>7, <2>1, <2>2
<1>9. ASSUME NEW p \in Paths,
             NextHeader(p) \/ MakeDir(p) \/ DirExists(p) \/ EndDirectory(p) \/ WriteMember(p) \/ WriteFails(p)
      PROVE  OthersFit'
  <2>1. pc \in UndeletePoints /\ pc' \notin {"tar", "copy"}
    BY <1>9 DEF UndeletePoints, NextHeader, MakeDir, DirExists, EndDirectory, WriteMember, WriteFails, Write, Ready
  <2>2. job'.members = job.members
    BY <1>9 DEF NextHeader, MakeDir, DirExists, EndDirectory, WriteMember, WriteFails, TypeOK, Job
  <2>3. QED
    BY <1>7, <2>1, <2>2
<1>10. CASE PurgeEntry \/ MarkPurged \/ MarkPurgedFails
  BY <1>10 DEF PurgeEntry, MarkPurged, MarkPurgedFails, OthersFit
<1>11. ASSUME NEW p \in Paths, VisitRegular(p) PROVE OthersFit'
  <2>1. UNCHANGED <<node, held>> /\ pc = "tar" /\ job'.todo = job.todo
        /\ \A q \in Paths : job'.members[q] = "other" => job.members[q] = "other"
    BY <1>11 DEF VisitRegular, TypeOK, Job
  <2>2. QED
    BY <2>1 DEF OthersFit
<1>12. ASSUME NEW p \in Paths, VisitOther(p) PROVE OthersFit'
  <2>1. UNCHANGED node /\ pc = "tar" /\ pc' = "tar" /\ job'.todo = Descend(p) /\ p \in Left
        /\ node[p] \notin Contents \cup {None}
        /\ (job.todo[p] \in {"dir", "link"} => Kind(node[p]) = job.todo[p])
    BY <1>12 DEF VisitOther, First, Visitable, TypeOK, Job
  <2>2. job.todo[p] = "file" => node[p] = Dir
    BY <2>1 DEF OthersFit, TypeOK, Nodes
  <2>3. held'[p] = node[p]
    BY <1>12, <2>2 DEF VisitOther, TypeOK
  <2>4. \A q \in Paths \ {p} : job'.members[q] = job.members[q] /\ held'[q] = held[q]
    BY <1>12 DEF VisitOther, TypeOK, Job
  <2>5. ASSUME NEW q \in Paths, job'.todo[q] = "file" PROVE node[q] \notin Targets
    <3>1. CASE job.todo[p] = "dir" /\ q \in Children(p) /\ node[q] # None
      BY <2>1, <2>5, <3>1, DescendType, KindOf DEF TypeOK
    <3>2. CASE ~(job.todo[p] = "dir" /\ q \in Children(p) /\ node[q] # None)
      <4>1. Visited(p)[q] = "file"
        BY <2>1, <2>5, <3>2, DescendType DEF TypeOK
      <4>2. job.todo[q] = "file"
        BY <4>1, VisitedType DEF TypeOK
      <4>3. QED
        BY <2>1, <4>2 DEF OthersFit
    <3>3. QED
      BY <3>1, <3>2
  <2>6. QED
    BY <2>1, <2>3, <2>4, <2>5 DEF OthersFit
<1>13. ASSUME NEW p \in Paths, CopyMember(p) PROVE OthersFit'
  <2>1. UNCHANGED node /\ pc = "copy" /\ job'.members = job.members /\ job'.todo = Visited(p) /\ First(p)
    BY <1>13 DEF CopyMember, TypeOK, Job
  <2>2. job.members[p] = "regular" /\ \A q \in Paths \ {p} : held'[q] = held[q]
    BY <1>13, <2>1, FirstIsOne DEF JobFits, CopyMember, TypeOK
  <2>3. \A q \in Paths : job'.todo[q] = "file" => job.todo[q] = "file"
    BY <2>1, VisitedType DEF TypeOK
  <2>4. QED
    BY <2>1, <2>2, <2>3 DEF OthersFit
<1>14. ASSUME NEW p \in Paths, VisitAgain(p) PROVE OthersFit'
  BY <1>2, <1>14 DEF VisitAgain, TypeOK, Job
<1>15. CASE User
  <2>1. UNCHANGED <<pc, held>> /\ job'.members = job.members /\ job'.todo = job.todo
    BY <1>15, EditJob DEF User
  <2>2. CASE pc \in DeletePoints
    <3>1. \A p \in Paths : job'.members[p] = "other" => node'[p] \in {None, held'[p]}
      BY <2>1, <2>2 DEF OthersFit, KindsKept
    <3>2. QED
      BY <2>1, <2>2, <3>1 DEF OthersFit, KindsKept
  <2>3. CASE pc \notin DeletePoints
    BY <1>7, <2>1, <2>3 DEF TypeOK, DeletePoints
  <2>4. QED
    BY <2>2, <2>3
<1>16. QED
  BY StepCases, <1>3, <1>4, <1>5, <1>6, <1>8, <1>9, <1>10, <1>11, <1>12, <1>13, <1>14, <1>15

\* TreeCovered, which tree_kinds refutes, is refuted by nothing else: as long as no
\* user makes something else of a directory or a link that is archived already, or a
\* link of a file that is listed, the removal destroys nothing that the entry does
\* not hold, whatever is written, added or removed meanwhile.
THEOREM TreesAreCovered == Spec /\ [][KindsKept]_vars => []TreeCovered
<1>1. Init => Inv /\ CoverInv /\ OthersFit
  BY InitInv, InitCoverInv DEF Init, OthersFit, NoJob, Nothing
<1>2. (Inv /\ CoverInv /\ OthersFit) /\ [Next]_vars /\ [KindsKept]_vars => (Inv /\ CoverInv /\ OthersFit)'
  <2>1. ASSUME OthersFit, UNCHANGED vars PROVE OthersFit'
    BY <2>1 DEF vars, OthersFit
  <2>2. QED
    BY <2>1, NextInv, NextCoverInv, NextOthersFit DEF Inv
<1>3. Inv /\ CoverInv /\ OthersFit => TreeCovered
  BY DEF CoverInv, EntryFits, WalkFits, OthersFit, TreeCovered, Covered, Same
<1>4. QED
  BY <1>1, <1>2, <1>3, PTL DEF Spec

-----------------------------------------------------------------------------
(* The restore: what stands at the destination.                                *)

Goal(p) == IF p = Root /\ row = "tree" THEN Dir ELSE held[p]

\* What a path is to become is there once its header is done, and nothing stands
\* where nothing else belongs: an ancestor of a later header is there already.
Expected(p) ==
    /\ p \in Left => node[p] = None \/ (node[p] = Dir /\ Goal(p) = Dir)
    /\ p \notin Left /\ held[p] # None => node[p] = Goal(p)
    /\ held[p] = None => node[p] = None

DestinationFits ==
    /\ pc = "unpack" =>
        \A p \in Paths \ late : node[p] = None \/ (p = Root /\ row = "tree" /\ node[p] = Dir)
    /\ pc \in Extracting => \A p \in Paths \ late : Expected(p)
    /\ pc = "make" =>
        /\ \A q \in job.pending \ late : First(q) /\ IsDirectoryHeader(q)
        /\ \A p \in Paths \ late : First(p) /\ IsDirectoryHeader(p) /\ p \notin job.pending => node[p] = Dir
    /\ pc = "consume" => \A p \in Paths \ late : node[p] = Goal(p)

\* The goal of a directory's header, and of another's.
LEMMA GoalOfHeader ==
    ASSUME TypeOK, PointsFit, HeadersFit, pc \in Extracting, NEW p \in Left
    PROVE  p \in Paths /\ (IsDirectoryHeader(p) <=> Goal(p) = Dir) /\ (p # Root => Goal(p) = held[p])
<1>1. p \in Paths /\ job.todo[p] = Kind(held[p]) /\ row = "tree"
  BY DEF HeadersFit, Left, PointsFit
<1>2. Kind(held[p]) = "dir" <=> held[p] = Dir
  BY <1>1, KindOf DEF TypeOK
<1>3. QED
  BY <1>1, <1>2 DEF IsDirectoryHeader, Goal

LEMMA NextHeaderFits ==
    ASSUME TypeOK, PointsFit, HeldFits, HeadersFit, DestinationFits, NEW p \in Paths, NextHeader(p)
    PROVE  DestinationFits'
<1>1. /\ UNCHANGED <<node, held, row, late>> /\ pc = "extract" /\ pc' = "make" /\ First(p) /\ p \in Left
      /\ job'.todo = job.todo /\ job'.pending = {q \in Wanted(p) : node[q] = None} /\ ~Blocked(p)
  BY DEF NextHeader, First, TypeOK, Job, arch, db, hist
<1>2. Left' = Left /\ (\A q \in Paths : First(q)' <=> First(q)) /\ (\A q : IsDirectoryHeader(q)' <=> IsDirectoryHeader(q))
  BY <1>1 DEF Left, First, IsDirectoryHeader
<1>3. \A q \in Paths \ late : Expected(q)
  BY <1>1 DEF DestinationFits, Extracting
<1>4. \A q \in Paths : Expected(q)' <=> Expected(q)
  BY <1>1, <1>2 DEF Expected, Goal
<1>5. ASSUME NEW q \in job'.pending \ late PROVE q \in Paths /\ First(q) /\ IsDirectoryHeader(q)
  <2>1. q \in Wanted(p) /\ q \in Above[p] /\ q \in Paths /\ node[q] = None
    BY <1>1, <1>5, SelfBelow DEF Wanted
  <2>2. q = p
    <3>1. SUFFICES ASSUME q # p PROVE FALSE
      OBVIOUS
    <3>2. q \notin Left /\ held[q] = Dir
      BY <1>1, <2>1, <3>1, FirstIsTop DEF HeadersFit, Extracting, HeldFits, IsTree
    <3>3. Goal(q) = Dir
      BY <3>2 DEF Goal
    <3>4. QED
      BY <1>3, <1>5, <2>1, <3>2, <3>3, NodesAssumption DEF Expected
  <2>3. IsDirectoryHeader(p)
    BY <2>1, <2>2 DEF Wanted
  <2>4. QED
    BY <1>1, <2>1, <2>2, <2>3
<1>6. ASSUME NEW q \in Paths \ late, First(q), IsDirectoryHeader(q), q \notin job'.pending PROVE node[q] = Dir
  <2>1. q = p
    BY <1>1, <1>6, FirstIsOne
  <2>2. p \in Wanted(p)
    BY <1>6, <2>1, SelfBelow DEF Wanted
  <2>3. QED
    BY <1>1, <1>6, <2>1, <2>2 DEF Blocked
<1>7. QED
  BY <1>1, <1>2, <1>3, <1>4, <1>5, <1>6 DEF DestinationFits, Extracting

LEMMA MakeDirFits ==
    ASSUME TypeOK, PointsFit, HeadersFit, DestinationFits, NEW q \in Paths, MakeDir(q) \/ DirExists(q)
    PROVE  DestinationFits'
<1>1. /\ UNCHANGED <<held, row, late>> /\ pc = "make" /\ pc' = "make" /\ q \in job.pending
      /\ job'.todo = job.todo /\ job'.pending = job.pending \ {q}
  BY DEF MakeDir, DirExists, Topmost, TypeOK, Job, arch, db, hist
<1>2. Left' = Left /\ (\A p \in Paths : First(p)' <=> First(p)) /\ (\A p : IsDirectoryHeader(p)' <=> IsDirectoryHeader(p))
  BY <1>1 DEF Left, First, IsDirectoryHeader
<1>3. \A p \in Paths \ {q} : node'[p] = node[p]
  BY DEF MakeDir, DirExists, TypeOK
<1>4. \A p \in Paths \ late : Expected(p)
  BY <1>1 DEF DestinationFits, Extracting
<1>5. ASSUME q \notin late PROVE node'[q] = Dir /\ q \in Left /\ Goal(q) = Dir
  <2>1. First(q) /\ IsDirectoryHeader(q) /\ q \in Left
    BY <1>1, <1>5 DEF DestinationFits, First
  <2>2. Goal(q) = Dir
    BY <1>1, <2>1, GoalOfHeader DEF Extracting
  <2>3. CASE MakeDir(q)
    BY <2>1, <2>2, <2>3 DEF MakeDir, TypeOK
  <2>4. CASE DirExists(q)
    BY <1>4, <1>5, <2>1, <2>2, <2>4 DEF DirExists, Expected
  <2>5. QED
    BY <2>3, <2>4
<1>6. ASSUME NEW p \in Paths \ late PROVE Expected(p)'
  <2>1. CASE p = q
    <3>1. held[q] # None
      BY <1>1 DEF HeadersFit, Extracting
    <3>2. QED
      BY <1>1, <1>2, <1>5, <1>6, <2>1, <3>1 DEF Expected, Goal
  <2>2. CASE p # q
    BY <1>1, <1>2, <1>3, <1>4, <1>6, <2>2 DEF Expected, Goal
  <2>3. QED
    BY <2>1, <2>2
<1>7. \A p \in job'.pending \ late : First(p)' /\ IsDirectoryHeader(p)'
  <2>1. job.pending \subseteq Paths
    BY DEF TypeOK, Job
  <2>2. QED
    BY <1>1, <1>2, <2>1 DEF DestinationFits
<1>8. ASSUME NEW p \in Paths \ late, First(p), IsDirectoryHeader(p), p \notin job'.pending PROVE node'[p] = Dir
  <2>1. CASE p = q
    BY <1>5, <1>8, <2>1
  <2>2. CASE p # q
    BY <1>1, <1>3, <1>8, <2>2 DEF DestinationFits
  <2>3. QED
    BY <2>1, <2>2
<1>9. QED
  BY <1>1, <1>2, <1>6, <1>7, <1>8 DEF DestinationFits, Extracting

LEMMA EndHeaderFits ==
    ASSUME TypeOK, PointsFit, HeadersFit, DestinationFits, NEW p \in Paths, EndDirectory(p) \/ WriteMember(p)
    PROVE  DestinationFits'
<1>1. /\ UNCHANGED <<held, row, late>> /\ pc = "make" /\ pc' = "extract" /\ job.pending = {} /\ First(p)
      /\ p \in Left /\ job'.todo = Visited(p)
  BY DEF EndDirectory, WriteMember, Write, Ready, First, TypeOK, Job, arch, db, hist
<1>2. Left' = Left \ {p}
  BY <1>1, VisitedType DEF Left, TypeOK
<1>3. \A x \in Paths \ {p} : node'[x] = node[x]
  BY DEF EndDirectory, WriteMember, Write, TypeOK
<1>4. \A x \in Paths \ late : Expected(x)
  BY <1>1 DEF DestinationFits, Extracting
<1>5. (IsDirectoryHeader(p) <=> Goal(p) = Dir) /\ (p # Root => Goal(p) = held[p]) /\ held[p] # None
  BY <1>1, GoalOfHeader DEF Extracting, HeadersFit
<1>6. ASSUME p \notin late PROVE node'[p] = Goal(p)
  <2>1. CASE EndDirectory(p)
    BY <1>1, <1>5, <1>6, <2>1 DEF EndDirectory, DestinationFits
  <2>2. CASE WriteMember(p)
    <3>1. ~IsDirectoryHeader(p) /\ Goal(p) # Dir /\ Goal(p) = held[p]
      BY <1>5, <2>2 DEF WriteMember, Write, IsDirectoryHeader
    <3>2. node[p] = None
      BY <1>1, <1>4, <1>6, <3>1 DEF Expected
    <3>3. node'[p] = held[p]
      BY <2>2, <3>2, NodesAssumption DEF WriteMember, Write, TypeOK
    <3>4. QED
      BY <3>1, <3>3
  <2>3. QED
    BY <2>1, <2>2
<1>7. ASSUME NEW x \in Paths \ late PROVE Expected(x)'
  <2>1. CASE x = p
    BY <1>1, <1>2, <1>5, <1>6, <1>7, <2>1 DEF Expected, Goal
  <2>2. CASE x # p
    BY <1>1, <1>2, <1>3, <1>4, <1>7, <2>2 DEF Expected, Goal
  <2>3. QED
    BY <2>1, <2>2
<1>8. QED
  BY <1>1, <1>7 DEF DestinationFits, Extracting

LEMMA NextDestinationFits ==
    ASSUME TypeOK, PointsFit, HeldFits, HeadersFit, DestinationFits, Next
    PROVE  DestinationFits'
<1> USE DEF Goto, Proceed, End, arch, db, hist, rest
<1>1. ASSUME pc' \notin {"unpack", "extract", "make", "consume"} PROVE DestinationFits'
  BY <1>1 DEF DestinationFits, Extracting
<1>2. IsTree(node) /\ node \in [Paths -> Nodes]
  BY DEF TypeOK, IsTree
<1>3. CASE Stop \/ WriteLinkFails \/ TarFails \/ DiscardEntry \/ RemoveSource \/ RemoveFails \/ ClearFails
           \/ MarkRestored \/ PlanDelete \/ ReadLink \/ StatLink \/ StatTree \/ OpenTar
  BY <1>1, <1>3 DEF Stop, WriteLinkFails, TarFails, DiscardEntry, RemoveSource, RemoveFails, ClearFails,
      MarkRestored, PlanDelete, ReadLink, StatLink, StatTree, OpenTar
<1>4. CASE FinishTar \/ InsertRow \/ InsertFails \/ VerifySource \/ LinkAgrees \/ TreeUnchanged \/ TreeChanged
  BY <1>1, <1>4 DEF FinishTar, InsertRow, InsertFails, VerifySource, LinkAgrees, TreeUnchanged, TreeChanged
<1>5. CASE ResolveRecord \/ DestinationOccupied \/ EntryVerified \/ Rollback \/ ConsumeEntry \/ ExtractFails
  BY <1>1, <1>5 DEF ResolveRecord, DestinationOccupied, EntryVerified, Rollback, ConsumeEntry, ExtractFails
<1>6. ASSUME NEW p \in Paths, VisitRegular(p) \/ VisitOther(p) \/ CopyMember(p) \/ VisitAgain(p) \/ WriteFails(p)
      PROVE  DestinationFits'
  BY <1>1, <1>6 DEF VisitRegular, VisitOther, CopyMember, VisitAgain, WriteFails
<1>7. CASE DestinationFree
  <2>1. UNCHANGED <<node, row>> /\ pc' = "unpack" /\ ~Occupied
    BY <1>7 DEF DestinationFree
  <2>2. \A p \in Below(Root) \ {Root} : node[p] = None
    BY <1>2, <2>1, BelowFile, BelowEmpty, TreeAssumption, NodesAssumption DEF Occupied
  <2>3. \A p \in Paths : p = Root \/ p \in Below(Root) \ {Root}
    BY TreeAssumption DEF Below
  <2>4. node[Root] = None \/ (row = "tree" /\ node[Root] = Dir)
    BY <2>1 DEF Occupied
  <2>5. QED
    BY <2>1, <2>2, <2>3, <2>4 DEF DestinationFits, Extracting
<1>8. CASE ClearDestination
  BY <1>8 DEF ClearDestination, DestinationFits, Extracting, NoTree
<1>9. CASE RecreateLink
  <2>1. pc' = "consume" /\ row = "link" /\ node[Root] = None /\ node' = [node EXCEPT ![Root] = held[Root]]
        /\ UNCHANGED <<held, row>>
    BY <1>9 DEF RecreateLink
  <2>2. \A p \in Below(Root) \ {Root} : node[p] = None
    BY <1>2, <2>1, BelowFile, TreeAssumption, NodesAssumption
  <2>3. \A p \in Paths : p = Root \/ p \in Below(Root) \ {Root}
    BY TreeAssumption DEF Below
  <2>4. \A p \in Paths : node'[p] = held[p]
    BY <1>2, <2>1, <2>2, <2>3, TreeAssumption DEF HeldFits
  <2>5. QED
    BY <2>1, <2>4 DEF DestinationFits, Extracting, Goal
<1>10. CASE OpenEntry
  <2>1. /\ pc = "unpack" /\ pc' = "extract" /\ row = "tree" /\ UNCHANGED <<node, held, row, late>>
        /\ job'.todo = Listed(Paths, held)
    BY <1>10 DEF OpenEntry, TypeOK, Job
  <2>2. held \in [Paths -> Nodes]
    BY DEF TypeOK
  <2>3. \A p \in Paths : Listed(Paths, held)[p] = IF p \in Paths /\ held[p] # None THEN Kind(held[p]) ELSE "none"
    BY <2>2, ListedType
  <2>4. \A p \in Paths : Kind(held[p]) # "none"
    BY <2>2, KindOf
  <2>5. \A p \in Paths : p \in Left' <=> held[p] # None
    BY <2>1, <2>3, <2>4 DEF Left
  <2>6. held[Root] # None
    BY <2>1 DEF HeldFits
  <2>7. \A p \in Paths \ late : node[p] = None \/ (p = Root /\ node[p] = Dir)
    BY <2>1 DEF DestinationFits
  <2>8. \A p \in Paths \ late : Expected(p)'
    BY <2>1, <2>5, <2>6, <2>7 DEF Expected, Goal
  <2>9. QED
    BY <2>1, <2>8 DEF DestinationFits, Extracting
<1>11. CASE FinishExtract
  <2>1. pc = "extract" /\ pc' = "consume" /\ Left = {} /\ UNCHANGED <<node, held, row, late>> /\ row = "tree"
    BY <1>11 DEF FinishExtract, PointsFit, Extracting
  <2>2. held[Root] # None
    BY <2>1 DEF HeldFits
  <2>3. \A p \in Paths \ late : node[p] = Goal(p)
    BY <2>1, <2>2 DEF DestinationFits, Extracting, Expected, Goal
  <2>4. QED
    BY <2>1, <2>3 DEF DestinationFits, Extracting, Goal
<1>12. ASSUME NEW p \in Paths,
              NextHeader(p) \/ MakeDir(p) \/ DirExists(p) \/ EndDirectory(p) \/ WriteMember(p)
       PROVE  DestinationFits'
  BY <1>12, NextHeaderFits, MakeDirFits, EndHeaderFits
<1>13. CASE PurgeEntry \/ MarkPurged \/ MarkPurgedFails
  <2>1. UNCHANGED <<node, held, row, job, pc>> /\ late \subseteq late'
    BY <1>13 DEF PurgeEntry, MarkPurged, MarkPurgedFails, Behind
  <2>2. Left' = Left /\ (\A p \in Paths : First(p)' <=> First(p)) /\ (\A p : IsDirectoryHeader(p)' <=> IsDirectoryHeader(p))
        /\ (\A p : Goal(p)' = Goal(p))
    BY <2>1 DEF Left, First, IsDirectoryHeader, Goal
  <2>3. \A p : Expected(p)' <=> Expected(p)
    BY <2>1, <2>2 DEF Expected
  <2>4. job.pending \subseteq Paths
    BY DEF TypeOK, Job
  <2>5. QED
    BY <2>1, <2>2, <2>3, <2>4 DEF DestinationFits
<1>14. CASE User
  <2>1. PICK p \in Paths, n \in Nodes : Edit(p, n)
    BY <1>14 DEF User
  <2>2. UNCHANGED <<pc, held, row>> /\ job'.pending = job.pending /\ job'.todo = job.todo
    BY <2>1, EditJob
  <2>3. CASE pc \in {"unpack", "extract", "make", "consume"}
    <3>1. late' = late \cup {q \in Paths : node'[q] # node[q]}
      BY <2>1, <2>3, EditJob DEF Watching
    <3>2. \A q \in Paths \ late' : q \notin late /\ node'[q] = node[q]
      BY <3>1
    <3>3. Left' = Left /\ (\A q \in Paths : First(q)' <=> First(q)) /\ (\A q : IsDirectoryHeader(q)' <=> IsDirectoryHeader(q))
          /\ (\A q : Goal(q)' = Goal(q))
      BY <2>2 DEF Left, First, IsDirectoryHeader, Goal
    <3>4. \A q \in Paths \ late' : Expected(q)' <=> Expected(q)
      BY <2>2, <3>2, <3>3 DEF Expected
    <3>5. job.pending \subseteq Paths
      BY DEF TypeOK, Job
    <3>6. QED
      BY <2>2, <3>2, <3>3, <3>4, <3>5 DEF DestinationFits
  <2>4. QED
    BY <1>1, <2>2, <2>3
<1>15. QED
  BY StepCases, <1>3, <1>4, <1>5, <1>6, <1>7, <1>8, <1>9, <1>10, <1>11, <1>12, <1>13, <1>14

LEMMA NextRestoreInv == Inv /\ DestinationFits /\ [Next]_vars => DestinationFits'
<1>1. CASE UNCHANGED vars
  BY <1>1 DEF vars, DestinationFits, Expected, Goal, IsDirectoryHeader, First, Left
<1>2. CASE Next
  BY <1>2, NextDestinationFits DEF Inv
<1>3. QED
  BY <1>1, <1>2

\* RestoredIsWhole: when an undelete goes on to consume the entry, the destination is
\* what the entry holds, except what others changed there meanwhile.
THEOREM RestoresAreWhole == Spec => []RestoredIsWhole
<1>1. Init => Inv /\ DestinationFits
  BY InitInv DEF Init, DestinationFits, Extracting
<1>2. (Inv /\ DestinationFits) /\ [Next]_vars => (Inv /\ DestinationFits)'
  BY NextInv, NextRestoreInv
<1>3. Inv /\ DestinationFits => RestoredIsWhole
  BY DEF DestinationFits, RestoredIsWhole, Goal
<1>4. QED
  BY <1>1, <1>2, <1>3, PTL DEF Spec

-----------------------------------------------------------------------------
(* The rollback: what a failed extraction leaves.                              *)

InCreated(p) == \E i \in 1..Len(job.created) : job.created[i] = p

Base(p) == IF p = Root THEN found ELSE None

\* What is not in the created list is as the extraction found it; what is was made
\* where nothing stood, and after the directories it is in.
CreatedFits ==
    /\ pc \in Extracting =>
        \A p \in Paths \ late : IF InCreated(p) THEN node[p] # None ELSE node[p] = Base(p)
    /\ pc = "rollback" =>
        \A p \in Paths \ late :
            InCreated(p) \/ node[p] = Base(p) \/ (node[p] = Dir /\ Below(p) \cap late # {})
    /\ pc \in Extracting \cup {"rollback"} =>
        /\ \A p \in Paths \ late : InCreated(p) => Base(p) = None
        /\ \A i, j \in 1..Len(job.created) :
              i < j /\ job.created[i] \in Below(job.created[j]) \ {job.created[j]} =>
                  {job.created[i], job.created[j]} \cap late # {}

LEMMA CreateFits ==
    ASSUME TypeOK, CreatedFits, pc = "make", pc' \in {"make", "extract", "rollback"}, NEW p \in Paths,
           node[p] = None \/ (node[p] # Dir /\ p # Root),
           node'[p] # None, \A x \in Paths \ {p} : node'[x] = node[x],
           job'.created = Append(job.created, p), UNCHANGED <<late, found>>
    PROVE  CreatedFits'
<1>1. /\ Len(job'.created) = Len(job.created) + 1 /\ Len(job.created) \in Nat
      /\ job'.created[Len(job.created) + 1] = p
      /\ \A i \in 1..Len(job.created) : job'.created[i] = job.created[i] /\ job.created[i] \in Paths
  <2>1. \A i \in 1..Len(job.created) : job.created[i] \in Paths
    BY DEF TypeOK, Job
  <2>2. QED
    BY <2>1, AppendCreated DEF TypeOK
<1>2. \A x \in Paths : InCreated(x)' <=> InCreated(x) \/ x = p
  <2>1. ASSUME NEW x \in Paths, InCreated(x)' PROVE InCreated(x) \/ x = p
    <3>1. PICK i \in 1..(Len(job.created) + 1) : job'.created[i] = x
      BY <1>1, <2>1 DEF InCreated
    <3>2. CASE i \in 1..Len(job.created)
      BY <1>1, <3>1, <3>2 DEF InCreated
    <3>3. CASE i = Len(job.created) + 1
      BY <1>1, <3>1, <3>3
    <3>4. QED
      BY <1>1, <3>1, <3>2, <3>3
  <2>2. ASSUME NEW x \in Paths, InCreated(x) PROVE InCreated(x)'
    <3>1. PICK i \in 1..Len(job.created) : job.created[i] = x
      BY <2>2 DEF InCreated
    <3>2. i \in 1..Len(job'.created) /\ job'.created[i] = x
      BY <1>1, <3>1
    <3>3. QED
      BY <3>2 DEF InCreated
  <2>3. InCreated(p)'
    <3>1. Len(job.created) + 1 \in 1..Len(job'.created)
      BY <1>1
    <3>2. QED
      BY <1>1, <3>1 DEF InCreated
  <2>4. QED
    BY <2>1, <2>2, <2>3
<1>3. IsTree(node) /\ \A x \in Paths : Base(x)' = Base(x)
  BY DEF TypeOK, IsTree, Base
<1>4. \A x \in Below(p) \ {p} : node[x] = None
  BY <1>3, BelowFile, NodesAssumption
<1>5. \A x \in Paths \ late : IF InCreated(x) THEN node[x] # None ELSE node[x] = Base(x)
  BY DEF CreatedFits, Extracting
<1>6. \A x \in Paths \ late : IF InCreated(x)' THEN node'[x] # None ELSE node'[x] = Base(x)'
  BY <1>2, <1>3, <1>5
<1>7. \A x \in Paths \ late : InCreated(x)' => Base(x)' = None
  <2>1. p \notin late /\ ~InCreated(p) => Base(p) = None
    BY <1>5 DEF Base
  <2>2. QED
    BY <1>2, <1>3, <2>1 DEF CreatedFits, Extracting
<1>8. ASSUME NEW i \in 1..Len(job'.created), NEW j \in 1..Len(job'.created), i < j,
             job'.created[i] \in Below(job'.created[j]) \ {job'.created[j]}
      PROVE  {job'.created[i], job'.created[j]} \cap late # {}
  <2>1. i \in 1..Len(job.created)
    BY <1>1, <1>8
  <2>2. CASE j \in 1..Len(job.created)
    BY <1>1, <1>8, <2>1, <2>2 DEF CreatedFits, Extracting
  <2>3. CASE j = Len(job.created) + 1
    <3>1. job.created[i] \in Below(p) \ {p} /\ job.created[i] \in Paths
      BY <1>1, <1>8, <2>1, <2>3
    <3>2. node[job.created[i]] = None /\ InCreated(job.created[i])
      BY <1>4, <2>1, <3>1 DEF InCreated
    <3>3. job.created[i] \in late
      BY <1>5, <3>1, <3>2
    <3>4. QED
      BY <1>1, <2>1, <3>3
  <2>4. QED
    BY <1>1, <1>8, <2>2, <2>3
<1>9. CASE pc' = "rollback"
  BY <1>6, <1>7, <1>8, <1>9 DEF CreatedFits, Extracting
<1>10. CASE pc' # "rollback"
  BY <1>6, <1>7, <1>8, <1>10 DEF CreatedFits, Extracting
<1>11. QED
  BY <1>9, <1>10

LEMMA RollbackFits ==
    ASSUME TypeOK, CreatedFits, Rollback
    PROVE  CreatedFits'
<1>0. PICK top \in Paths : top = Newest /\ top = job.created[Len(job.created)]
  BY LastCreated DEF Rollback, TypeOK, Newest
<1>1. /\ pc = "rollback" /\ pc' = "rollback" /\ UNCHANGED <<late, found>> /\ job.created # <<>>
      /\ job'.created = Older
      /\ node' = IF node[top] = Dir /\ ~Empty(top) THEN node ELSE Without({top})
  BY <1>0 DEF Rollback, TypeOK, Job, hist
<1>2. /\ Len(job.created) \in Nat \ {0} /\ top \in Paths
      /\ Len(job'.created) = Len(job.created) - 1
      /\ \A i \in 1..Len(job'.created) : job'.created[i] = job.created[i] /\ i \in 1..Len(job.created)
      /\ job.created[Len(job.created)] = top
  <2>1. /\ Len(job.created) \in Nat \ {0} /\ top \in Paths
        /\ Len(job'.created) = Len(job.created) - 1
        /\ \A i \in 1..Len(job'.created) : job'.created[i] = job.created[i]
    BY <1>0, <1>1, LastCreated DEF TypeOK
  <2>2. QED
    BY <1>0, <2>1
<1>3. \A x \in Paths : InCreated(x)' => InCreated(x)
  <2>1. SUFFICES ASSUME NEW x \in Paths, InCreated(x)' PROVE InCreated(x)
    OBVIOUS
  <2>2. PICK i \in 1..Len(job'.created) : job'.created[i] = x
    BY <2>1 DEF InCreated
  <2>3. QED
    BY <1>2, <2>2 DEF InCreated
<1>4. \A x \in Paths : InCreated(x) => InCreated(x)' \/ x = top
  <2>1. SUFFICES ASSUME NEW x \in Paths, InCreated(x), x # top PROVE InCreated(x)'
    OBVIOUS
  <2>2. PICK i \in 1..Len(job.created) : job.created[i] = x
    BY <2>1 DEF InCreated
  <2>3. i # Len(job.created)
    BY <1>2, <2>1, <2>2
  <2>4. i \in 1..Len(job'.created) /\ job'.created[i] = x
    BY <1>2, <2>2, <2>3
  <2>5. QED
    BY <2>4 DEF InCreated
<1>5. InCreated(top)
  BY <1>2 DEF InCreated
<1>6. \A x \in Paths : Base(x)' = Base(x)
  BY <1>1 DEF Base
<1>7. \A x \in Paths \ {top} : node'[x] = node[x]
  BY <1>1, <1>2 DEF Without, TypeOK
<1>8. ASSUME top \notin late, ~InCreated(top)'
      PROVE  node'[top] = Base(top) \/ (node'[top] = Dir /\ Below(top) \cap late # {})
  <2>1. CASE ~(node[top] = Dir /\ ~Empty(top))
    <3>1. node'[top] = None
      BY <1>1, <1>2, <2>1 DEF Without
    <3>2. Base(top) = None
      BY <1>1, <1>2, <1>5, <1>8 DEF CreatedFits
    <3>3. QED
      BY <3>1, <3>2
  <2>2. CASE node[top] = Dir /\ ~Empty(top)
    <3>1. PICK c \in Children(top) : node[c] # None
      BY <2>2 DEF Empty
    <3>2. c \in Paths \ {Root} /\ Parent[c] = top
      BY <3>1 DEF Children
    <3>3. Above[c] = {c} \cup Above[top] /\ c \notin Above[top]
      BY <3>2, TreeAssumption
    <3>4. c \in Below(top) \ {top}
      BY <1>2, <3>2, <3>3, SelfBelow DEF Below
    <3>5. Below(c) \subseteq Below(top)
      BY <3>2, <3>4, TreeAssumption DEF Below
    <3>6. CASE c \in late
      BY <1>1, <2>2, <3>4, <3>6
    <3>7. CASE c \notin late /\ InCreated(c)
      <4>1. PICK i \in 1..Len(job.created) : job.created[i] = c
        BY <3>7 DEF InCreated
      <4>2. i < Len(job.created)
        BY <1>2, <3>4, <4>1
      <4>3. {job.created[i], job.created[Len(job.created)]} \cap late # {}
        <5>1. Len(job.created) \in 1..Len(job.created)
          BY <1>2
        <5>2. job.created[i] \in Below(job.created[Len(job.created)]) \ {job.created[Len(job.created)]}
          BY <1>2, <3>4, <4>1
        <5>3. QED
          BY <1>1, <4>2, <5>1, <5>2 DEF CreatedFits
      <4>4. QED
        BY <1>2, <1>8, <3>7, <4>1, <4>3
    <3>8. CASE c \notin late /\ ~InCreated(c)
      <4>1. node[c] = Base(c) \/ (node[c] = Dir /\ Below(c) \cap late # {})
        BY <1>1, <3>2, <3>8 DEF CreatedFits
      <4>2. Below(c) \cap late # {}
        BY <3>1, <3>2, <4>1 DEF Base
      <4>3. QED
        BY <1>1, <2>2, <3>5, <4>2
    <3>9. QED
      BY <3>6, <3>7, <3>8
  <2>3. QED
    BY <2>1, <2>2
<1>9. \A x \in Paths \ late :
          InCreated(x)' \/ node'[x] = Base(x)' \/ (node'[x] = Dir /\ Below(x) \cap late # {})
  <2>1. SUFFICES ASSUME NEW x \in Paths \ late, ~InCreated(x)'
                 PROVE  node'[x] = Base(x) \/ (node'[x] = Dir /\ Below(x) \cap late # {})
    BY <1>6
  <2>2. CASE x = top
    BY <1>8, <2>1, <2>2
  <2>3. CASE x # top
    BY <1>1, <1>4, <1>7, <2>1, <2>3 DEF CreatedFits
  <2>4. QED
    BY <2>2, <2>3
<1>10. \A x \in Paths \ late : InCreated(x)' => Base(x)' = None
  BY <1>1, <1>3, <1>6 DEF CreatedFits
<1>11. \A i, j \in 1..Len(job'.created) :
           i < j /\ job'.created[i] \in Below(job'.created[j]) \ {job'.created[j]} =>
               {job'.created[i], job'.created[j]} \cap late # {}
  BY <1>1, <1>2 DEF CreatedFits
<1>12. QED
  BY <1>1, <1>9, <1>10, <1>11 DEF CreatedFits, Extracting

LEMMA NextCreatedFits ==
    ASSUME TypeOK, PointsFit, JobFits, HeadersFit, DestinationFits, CreatedFits, Next
    PROVE  CreatedFits'
<1> USE DEF Extracting
<1>1. ASSUME UNCHANGED <<node, found>>, late \subseteq late', job'.created = job.created,
             pc' = pc \/ (pc \in Extracting /\ pc' \in Extracting \cup {"rollback"})
      PROVE  CreatedFits'
  <2>1. \A x \in Paths : (InCreated(x)' <=> InCreated(x)) /\ Base(x)' = Base(x)
    BY <1>1 DEF InCreated, Base
  <2>2. QED
    BY <1>1, <2>1 DEF CreatedFits
<1>2. CASE Stop \/ FinishExtract
  BY <1>2 DEF Stop, End, FinishExtract, Proceed, Goto, CreatedFits
<1>3. CASE ExtractFails
  <2>1. pc \in Extracting /\ pc' = "rollback" /\ UNCHANGED <<node, found, late, job>>
    BY <1>3 DEF ExtractFails, Ready, hist
  <2>2. QED
    BY <1>1, <2>1
<1>4. CASE Rollback
  BY <1>4, RollbackFits
<1>5. ASSUME NEW p \in Paths, NextHeader(p) \/ DirExists(p) \/ EndDirectory(p) PROVE CreatedFits'
  <2>1. pc \in Extracting /\ pc' \in Extracting /\ UNCHANGED <<node, found, late>> /\ job'.created = job.created
    BY <1>5 DEF NextHeader, DirExists, EndDirectory, Ready, TypeOK, Job, hist
  <2>2. QED
    BY <1>1, <2>1
<1>6. ASSUME NEW p \in Paths, MakeDir(p) PROVE CreatedFits'
  <2>1. /\ pc = "make" /\ pc' = "make" /\ node[p] = None /\ node'[p] = Dir /\ UNCHANGED <<late, found>>
        /\ \A x \in Paths \ {p} : node'[x] = node[x]
        /\ job'.created = Append(job.created, p)
    BY <1>6 DEF MakeDir, TypeOK, Job, hist
  <2>2. QED
    BY <2>1, CreateFits, NodesAssumption
<1>7. ASSUME NEW p \in Paths, WriteMember(p) \/ WriteFails(p) PROVE CreatedFits'
  <2>1. PICK n \in Nodes \ {None} : Write(p, n)
    <3>1. CASE WriteFails(p)
      BY <3>1, NodesAssumption DEF WriteFails, Nodes
    <3>2. CASE WriteMember(p)
      BY <3>2 DEF WriteMember, Write, Ready, First, HeadersFit, TypeOK
    <3>3. QED
      BY <1>7, <3>1, <3>2
  <2>2. p # Root /\ pc = "make" /\ pc' \in {"extract", "rollback"} /\ UNCHANGED <<late, found>>
    BY <1>7 DEF WriteMember, WriteFails, Write, Ready, IsDirectoryHeader, hist
  <2>3. node[p] # Dir
    BY <2>1, NodesAssumption DEF Write, Writable
  <2>4. job'.created = Append(job.created, p)
    BY <1>7 DEF WriteMember, WriteFails, TypeOK, Job
  <2>5. node'[p] # None /\ \A x \in Paths \ {p} : node'[x] = node[x]
    BY <2>1, NodesAssumption DEF Write, TypeOK
  <2>6. QED
    BY <2>2, <2>3, <2>4, <2>5, CreateFits
<1>8. CASE OpenEntry
  <2>1. /\ pc = "unpack" /\ pc' = "extract" /\ found' = node[Root] /\ UNCHANGED <<node, late>>
        /\ job'.created = <<>>
    BY <1>8 DEF OpenEntry, TypeOK, Job, JobFits
  <2>2. \A x \in Paths : ~InCreated(x)'
    BY <2>1 DEF InCreated
  <2>3. \A x \in Paths \ late : node'[x] = Base(x)'
    BY <2>1 DEF DestinationFits, Base
  <2>4. \A i \in 1..Len(job'.created) : FALSE
    BY <2>1
  <2>5. QED
    BY <2>1, <2>2, <2>3, <2>4 DEF CreatedFits
<1>9. CASE User
  <2>1. PICK p \in Paths, n \in Nodes : Edit(p, n)
    BY <1>9 DEF User
  <2>2. UNCHANGED <<pc, found>> /\ job'.created = job.created
    BY <2>1, EditJob
  <2>3. \A x \in Paths : (InCreated(x)' <=> InCreated(x)) /\ Base(x)' = Base(x)
    BY <2>2 DEF InCreated, Base
  <2>4. CASE pc \in Extracting \cup {"rollback"}
    <3>1. late' = late \cup {q \in Paths : node'[q] # node[q]}
      BY <2>1, <2>4, EditJob DEF Watching
    <3>2. late \subseteq late' /\ \A q \in Paths \ late' : q \notin late /\ node'[q] = node[q]
      BY <3>1
    <3>3. QED
      BY <2>2, <2>3, <3>2 DEF CreatedFits
  <2>5. QED
    BY <2>2, <2>4 DEF CreatedFits
<1>10. CASE PurgeEntry \/ MarkPurged \/ MarkPurgedFails
  <2>1. UNCHANGED <<node, found, job, pc>> /\ late \subseteq late'
    BY <1>10 DEF PurgeEntry, MarkPurged, MarkPurgedFails, Behind, hist
  <2>2. QED
    BY <1>1, <2>1
<1>11. ASSUME pc' \notin Extracting \cup {"rollback"} PROVE CreatedFits'
  BY <1>11 DEF CreatedFits
<1>12. CASE WriteLinkFails \/ TarFails \/ DiscardEntry \/ RemoveSource \/ RemoveFails \/ ClearFails
           \/ MarkRestored \/ PlanDelete \/ ReadLink \/ StatLink \/ StatTree \/ OpenTar
  BY <1>11, <1>12 DEF WriteLinkFails, TarFails, DiscardEntry, RemoveSource, RemoveFails, ClearFails, End,
      MarkRestored, PlanDelete, ReadLink, StatLink, StatTree, OpenTar, Goto
<1>13. CASE FinishTar \/ InsertRow \/ InsertFails \/ VerifySource \/ LinkAgrees \/ TreeUnchanged \/ TreeChanged
  BY <1>11, <1>13 DEF FinishTar, InsertRow, InsertFails, VerifySource, LinkAgrees, TreeUnchanged, TreeChanged,
      Goto, Proceed
<1>14. CASE ResolveRecord \/ DestinationFree \/ DestinationOccupied \/ EntryVerified \/ ClearDestination
           \/ RecreateLink \/ ConsumeEntry
  BY <1>11, <1>14 DEF ResolveRecord, DestinationFree, DestinationOccupied, EntryVerified, ClearDestination,
      RecreateLink, ConsumeEntry, Goto, Proceed
<1>15. ASSUME NEW p \in Paths, VisitRegular(p) \/ VisitOther(p) \/ CopyMember(p) \/ VisitAgain(p)
       PROVE  CreatedFits'
  BY <1>11, <1>15 DEF VisitRegular, VisitOther, CopyMember, VisitAgain
<1>16. QED
  BY StepCases, <1>2, <1>3, <1>4, <1>5, <1>6, <1>7, <1>8, <1>9, <1>10, <1>12, <1>13, <1>14, <1>15

LEMMA NextRollbackInv == Inv /\ DestinationFits /\ CreatedFits /\ [Next]_vars => CreatedFits'
<1>1. CASE UNCHANGED vars
  BY <1>1 DEF vars, CreatedFits, InCreated, Base
<1>2. CASE Next
  BY <1>2, NextCreatedFits DEF Inv
<1>3. QED
  BY <1>1, <1>2

\* Only an empty created list ends a rollback.
LEMMA RollbackEnds ==
    ASSUME TypeOK, Next, pc = "rollback", pc' = "idle"
    PROVE  job.created = <<>>
<1>1. CASE Delete
  BY <1>1 DEF Delete, PlanDelete, ReadLink, SourceVanished, StatLink, WriteLinkFails, StatTree, OpenTar, FinishTar,
      TarFails, VisitRegular, VisitOther, CopyMember, VisitAgain, InsertRow, InsertFails, DiscardEntry, DiscardFails,
      RefuseRemoval, VerifySource, LinkAgrees, LinkDiffers, WalkFails, TreeUnchanged, TreeChanged, RemoveSource,
      RemoveFails
<1>2. CASE Undelete
  BY <1>2 DEF Undelete, ResolveRecord, RefuseRestore, DestinationFree, DestinationOccupied, EntryVerified, EntryUnfit,
      ClearDestination, ClearFails, RecreateLink, RecreateLinkFails, OpenEntry, OpenEntryFails, NextHeader, MakeDir,
      DirExists, EndDirectory, WriteMember, WriteFails, ExtractFails, FinishExtract, Rollback, FinishRollback,
      ConsumeEntry, ConsumeFails, MarkRestored, MarkRestoredFails
<1>3. CASE Purge \/ User
  BY <1>3 DEF Purge, PurgeEntry, MarkPurged, MarkPurgedFails, User, Edit
<1>4. QED
  BY <1>1, <1>2, <1>3 DEF Next

\* RollbackIsExact: a failed extraction leaves the destination as it found it, except
\* what others changed there and the directories that lead to it.
THEOREM RollbacksAreExact == Spec => RollbackIsExact
<1> DEFINE I == Inv /\ DestinationFits /\ CreatedFits
<1>1. Init => I
  BY InitInv DEF Init, DestinationFits, CreatedFits, Extracting
<1>2. I /\ [Next]_vars => I'
  BY NextInv, NextRestoreInv, NextRollbackInv
<1>3. I /\ [Next]_vars =>
        [pc = "rollback" /\ pc' = "idle" =>
            \A p \in Paths \ late :
                \/ node[p] = IF p = Root THEN found ELSE None
                \/ node[p] = Dir /\ Below(p) \cap late # {}]_vars
  <2> SUFFICES ASSUME I, Next, pc = "rollback", pc' = "idle", NEW p \in Paths \ late
               PROVE  \/ node[p] = IF p = Root THEN found ELSE None
                      \/ node[p] = Dir /\ Below(p) \cap late # {}
    OBVIOUS
  <2>1. ~InCreated(p)
    BY RollbackEnds DEF Inv, InCreated
  <2>2. QED
    BY <2>1 DEF CreatedFits, Base
<1>4. QED
  BY <1>1, <1>2, <1>3, PTL DEF Spec, RollbackIsExact

-----------------------------------------------------------------------------
(* Trees and links implement the abstract record.                              *)

\* fx.Remove takes an entry away.
RemovalsWork == "purge" \notin Faults

RecordFits ==
    /\ given = "yes" => row # "none" /\ entry = "none"
    /\ "restored" \in stamps => given = "yes"
    /\ "purged" \in stamps => row # "none" /\ entry = "none"
    /\ purger = "stamp" => row # "none" /\ entry = "none"
    /\ pc = "mark" => given = "yes"

\* Steps that no record shows: nothing is done to a row, or to an entry under one.
Unrecorded ==
    /\ UNCHANGED <<row, stamps, given>>
    /\ entry' = entry \/ row = "none"
    /\ pc' # "mark" \/ pc = "mark"

LEMMA RecordCases ==
    ASSUME TypeOK, PointsFit, Next
    PROVE  \/ Unrecorded /\ purger' = purger
           \/ InsertRow \/ DiscardEntry \/ ConsumeEntry \/ MarkRestored
           \/ PurgeEntry \/ MarkPurged \/ MarkPurgedFails
<1> USE DEF PointsFit, Unrecorded, Goto, Proceed, End, arch, db, hist, rest
<1>1. CASE Stop \/ RemoveSource \/ RemoveFails \/ ClearFails \/ PlanDelete \/ ReadLink
  BY <1>1 DEF Stop, RemoveSource, RemoveFails, ClearFails, PlanDelete, ReadLink
<1>2. CASE StatLink \/ WriteLinkFails \/ StatTree \/ OpenTar \/ FinishTar \/ TarFails
  BY <1>2 DEF StatLink, WriteLinkFails, StatTree, OpenTar, FinishTar, TarFails
<1>3. CASE InsertFails \/ VerifySource \/ LinkAgrees \/ TreeUnchanged \/ TreeChanged
  BY <1>3 DEF InsertFails, VerifySource, LinkAgrees, TreeUnchanged, TreeChanged
<1>4. CASE ResolveRecord \/ DestinationFree \/ DestinationOccupied \/ EntryVerified \/ ClearDestination
           \/ RecreateLink \/ OpenEntry
  BY <1>4 DEF ResolveRecord, DestinationFree, DestinationOccupied, EntryVerified, ClearDestination,
              RecreateLink, OpenEntry
<1>5. CASE ExtractFails \/ FinishExtract \/ Rollback
  BY <1>5 DEF ExtractFails, FinishExtract, Rollback
<1>6. ASSUME NEW p \in Paths, VisitRegular(p) \/ VisitOther(p) \/ CopyMember(p) \/ VisitAgain(p)
      PROVE  Unrecorded /\ purger' = purger
  BY <1>6 DEF VisitRegular, VisitOther, CopyMember, VisitAgain
<1>7. ASSUME NEW p \in Paths,
             NextHeader(p) \/ MakeDir(p) \/ DirExists(p) \/ EndDirectory(p) \/ WriteMember(p) \/ WriteFails(p)
      PROVE  Unrecorded /\ purger' = purger
  BY <1>7 DEF NextHeader, MakeDir, DirExists, EndDirectory, WriteMember, WriteFails
<1>8. CASE User
  BY <1>8 DEF User, Edit
<1>9. QED
  BY StepCases, <1>1, <1>2, <1>3, <1>4, <1>5, <1>6, <1>7, <1>8

LEMMA NextRecordFits ==
    ASSUME TypeOK, PointsFit, RecordFits, RemovalsWork, Next
    PROVE  RecordFits'
<1> USE DEF RecordFits, PointsFit, Goto, Proceed, End, arch, db, hist, rest
<1>1. CASE Unrecorded /\ purger' = purger
  BY <1>1 DEF Unrecorded
<1>2. CASE InsertRow
  BY <1>2 DEF InsertRow
<1>3. CASE DiscardEntry
  BY <1>3 DEF DiscardEntry
<1>4. CASE ConsumeEntry
  BY <1>4 DEF ConsumeEntry, UndeletePoints
<1>5. CASE MarkRestored
  BY <1>5 DEF MarkRestored
<1>6. CASE PurgeEntry
  BY <1>6 DEF PurgeEntry, RemovalsWork, Fault
<1>7. CASE MarkPurged \/ MarkPurgedFails
  BY <1>7 DEF MarkPurged, MarkPurgedFails
<1>8. QED
  BY RecordCases, <1>1, <1>2, <1>3, <1>4, <1>5, <1>6, <1>7

LEMMA NextImplements ==
    ASSUME TypeOK, PointsFit, EntryFits, RecordFits, RemovalsWork, [Next]_vars
    PROVE  [Record!Next]_(Record!vars)
<1> USE DEF One, Goto, Proceed, End, arch, db, hist, rest
<1>1. CASE Unrecorded \/ UNCHANGED vars
  <2>1. UNCHANGED <<row, stamps, given>> /\ (entry' = entry \/ row = "none")
    BY <1>1 DEF Unrecorded, vars
  <2>2. QED
    BY <2>1 DEF Record!vars
<1>2. CASE InsertRow
  <2>1. row = "none" /\ row' # "none" /\ entry' # "none" /\ UNCHANGED <<stamps, given>>
    BY <1>2 DEF InsertRow, PointsFit, EntryFits
  <2>2. Record!Record("record")
    BY <2>1 DEF Record!Record
  <2>3. QED
    BY <2>2 DEF Record!Next
<1>3. ASSUME UNCHANGED <<row, stamps, given>>, entry' = "none"
      PROVE  [Record!Next]_(Record!vars)
  <2>1. CASE row = "none" \/ entry = "none"
    BY <1>3, <2>1 DEF Record!vars
  <2>2. CASE row # "none" /\ entry # "none"
    <3>1. Record!Drop("record")
      BY <1>3, <2>2 DEF Record!Drop
    <3>2. QED
      BY <3>1 DEF Record!Next
  <2>3. QED
    BY <2>1, <2>2
<1>4. CASE DiscardEntry
  BY <1>3, <1>4 DEF DiscardEntry
<1>5. CASE PurgeEntry
  BY <1>3, <1>5 DEF PurgeEntry, RemovalsWork, Fault
<1>6. CASE ConsumeEntry
  <2>1. row # "none" /\ entry # "none" /\ entry' = "none" /\ given' = "yes" /\ UNCHANGED <<row, stamps>>
    BY <1>6 DEF ConsumeEntry, PointsFit, UndeletePoints
  <2>2. given \in {"yes", "no"}
    BY DEF TypeOK
  <2>3. Record!GiveBack("record")
    BY <2>1, <2>2 DEF Record!GiveBack
  <2>4. QED
    BY <2>3 DEF Record!Next
<1>7. CASE MarkRestored
  <2>1. given = "yes" /\ stamps' = stamps \cup {"restored"} /\ UNCHANGED <<row, entry, given>>
    BY <1>7 DEF MarkRestored, RecordFits
  <2>2. Record!StampRestored("record")
    BY <2>1 DEF Record!StampRestored
  <2>3. QED
    BY <2>2 DEF Record!Next
<1>8. CASE MarkPurged
  <2>1. row # "none" /\ entry = "none" /\ stamps' = stamps \cup {"purged"} /\ UNCHANGED <<row, entry, given>>
    BY <1>8 DEF MarkPurged, RecordFits
  <2>2. Record!StampPurged("record")
    BY <2>1 DEF Record!StampPurged
  <2>3. QED
    BY <2>2 DEF Record!Next
<1>9. CASE MarkPurgedFails
  BY <1>9 DEF MarkPurgedFails, Record!vars
<1>10. QED
  BY RecordCases, <1>1, <1>2, <1>4, <1>5, <1>6, <1>7, <1>8, <1>9

\* KeepsRecord: the archival and restore of a tree or a link, beside a purge and
\* users, implements the abstract record: custody is taken once, given up once, and
\* stamped with the truth.
THEOREM ImplementsRecord ==
    ASSUME RemovalsWork
    PROVE  Spec => KeepsRecord
<1> DEFINE I == Inv /\ EntryFits /\ RecordFits
<1>1. Init => I /\ Record!Init
  <2>1. Init => EntryFits /\ RecordFits /\ Record!Init
    BY DEF Init, EntryFits, RecordFits, Record!Init, One
  <2>2. QED
    BY <2>1, InitInv
<1>2. I /\ [Next]_vars => I'
  <2>1. CASE UNCHANGED vars
    BY <2>1, NextInv DEF vars, EntryFits, RecordFits
  <2>2. CASE Next
    BY <2>2, NextInv, NextEntryFits, NextRecordFits DEF Inv
  <2>3. QED
    BY <2>1, <2>2
<1>3. I /\ [Next]_vars => [Record!Next]_(Record!vars)
  BY NextImplements DEF Inv
<1>4. QED
  BY <1>1, <1>2, <1>3, PTL DEF KeepsRecord, Spec, Record!Spec
=============================================================================
