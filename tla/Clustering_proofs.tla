------------------------- MODULE Clustering_proofs --------------------------
(***************************************************************************)
(* Proofs about Clustering for every set of items, workers and manual      *)
(* headlines, every distance, overlap and threshold.                       *)
(*                                                                         *)
(* OneStoryPerItem is not inductive: a job links items it listed earlier.  *)
(* The strengthening says why that is safe - the lock excludes every other *)
(* job (LockInv), an idle worker remembers nothing (IdleInv), so what a    *)
(* job has still to place is still unplaced (TodoInv), and the story it is *)
(* about to join still exists (TargetInv).                                 *)
(*                                                                         *)
(* NothingIsOverMerged carries a reason from the match to the link: what a *)
(* worker chose as target is a story the item has reason to join, and no   *)
(* step of anybody takes a link, a headline or an embedding back           *)
(* (MergeInv).                                                             *)
(***************************************************************************)
EXTENDS Clustering, TLAPS

(* A worker inside its job holds the advisory lock.                        *)
LockInv == \A w \in Worker : pc[w] # "idle" => lock = w

(* A worker outside its job has no locals.                                 *)
IdleInv == \A w \in Worker : pc[w] = "idle" => todo[w] = {}

(* What a job has still to place is in the table and in no story.          *)
TodoInv == \A w \in Worker : todo[w] \subseteq Arrived \ Linked

(* The headlines a job loaded and the story it chose belong to stories.    *)
TargetInv ==
    \A w \in Worker : /\ seen[w] \subseteq Story
                      /\ target[w] \in Story \cup {NoStory}

IInv ==
    /\ TypeOK
    /\ LockInv
    /\ IdleInv
    /\ TodoInv
    /\ TargetInv
    /\ OneStoryPerItem
    /\ NoEmptyStory

-----------------------------------------------------------------------------
(* Appending a row to the log keeps every earlier row where it is.         *)
LEMMA AppendKeepsRows ==
    ASSUME NEW r \in Birth, born \in Seq(Birth), born' = Append(born, r)
    PROVE  /\ born' \in Seq(Birth)
           /\ Len(born') = Len(born) + 1
           /\ \A n \in DOMAIN born : n \in DOMAIN born' /\ born'[n] = born[n]
           /\ DOMAIN born' = DOMAIN born \cup {Len(born) + 1}
           /\ Len(born) + 1 \notin DOMAIN born
           /\ born'[Len(born) + 1] = r
    OBVIOUS

(* The stories after a row is appended.                                    *)
LEMMA StoriesAfterAppend ==
    ASSUME NEW r \in Birth, born \in Seq(Birth), born' = Append(born, r)
    PROVE  /\ Story' = Story \cup (IF r.kind = "story" THEN {Len(born) + 1} ELSE {})
           /\ Arrived \subseteq Arrived'
           /\ Story \subseteq Nat \ {NoStory}
           /\ Len(born) + 1 \notin Story
    BY AppendKeepsRows DEF Story, Arrived, NoStory

(* The rows the program inserts are rows.                                  *)
LEMMA RowsAreBirths ==
    /\ \A i \in Item : ItemRow(i) \in Birth /\ ItemRow(i).kind = "item" /\ ItemRow(i).of = i
    /\ \A h \in Headline : StoryRow(h) \in Birth /\ StoryRow(h).kind = "story" /\ StoryRow(h).of = h
    BY DEF ItemRow, StoryRow, Birth, Headline

(* The job only ever decides for a story that exists, or for a new one.    *)
LEMMA TargetsExist ==
    ASSUME TypeOK, TargetInv, NEW w \in Worker, NEW i \in Item
    PROVE  Targets(w, i) \subseteq Story \cup {NoStory}
    <1>1. ClosestStories(i) \subseteq Story
        BY DEF ClosestStories, Hits, TypeOK
    <1>2. KeywordMatches(i, seen[w]) \subseteq seen[w] \cup {NoStory}
        BY DEF KeywordMatches
    <1>3. QED
        BY <1>1, <1>2 DEF Targets, TargetInv

-----------------------------------------------------------------------------
(* The empty tables satisfy the inductive invariant.                       *)
LEMMA InitEstablishes == Init => IInv
    BY ClusteringAssumption
    DEF Init, IInv, TypeOK, LockInv, IdleInv, TodoInv, TargetInv, OneStoryPerItem,
        NoEmptyStory, Story, NoStory, Birth

(* Steps of the feeds: a row is appended that links nothing and that no    *)
(* item founded.                                                           *)
LEMMA AppendRowPreserves ==
    ASSUME IInv, NEW r \in Birth, born' = Append(born, r),
           r.kind = "item" \/ r.of \notin Item,
           UNCHANGED <<horizon, embedded, links, lock, pc, jobVars, deaths>>
    PROVE  IInv'
    <1> USE StoriesAfterAppend, AppendKeepsRows DEF IInv
    <1>0. born \in Seq(Birth)
        BY DEF TypeOK
    <1>1. TypeOK'
        <2>1. links' \in SUBSET (Story' \X Item)
            BY <1>0 DEF TypeOK
        <2>2. horizon' \in 0..Len(born')
            BY <1>0 DEF TypeOK
        <2>3. QED
            BY <1>0, <2>1, <2>2 DEF TypeOK, jobVars
    <1>2. LockInv' /\ IdleInv'
        BY DEF LockInv, IdleInv, jobVars
    <1>3. Linked' = Linked
        BY <1>0 DEF Linked, TypeOK
    <1>4. TodoInv'
        BY <1>0, <1>3 DEF TodoInv, jobVars
    <1>5. TargetInv'
        BY <1>0 DEF TargetInv, jobVars
    <1>6. OneStoryPerItem'
        BY DEF OneStoryPerItem
    <1>7. NoEmptyStory'
        BY <1>0 DEF NoEmptyStory, Story
    <1>8. QED
        BY <1>1, <1>2, <1>4, <1>5, <1>6, <1>7

(* A new raw item row adds an unplaced item and nothing else.              *)
LEMMA IngestPreserves == ASSUME IInv, NEW i \in Item, Ingest(i) PROVE IInv'
    BY RowsAreBirths, AppendRowPreserves DEF Ingest

(* A manual story has no founder, so it owes nobody a link.                *)
LEMMA AddManualStoryPreserves == ASSUME IInv, NEW h \in Topic, AddManualStory(h) PROVE IInv'
    BY RowsAreBirths, AppendRowPreserves, ClusteringAssumption DEF AddManualStory, Headline

(* Steps that leave rows, links and jobs alone.                            *)
LEMMA RowsAndJobsUntouched ==
    ASSUME IInv, UNCHANGED <<born, links, lock, pc, jobVars, deaths>>,
           embedded' \in SUBSET Item, horizon' \in 0..Len(born)
    PROVE  IInv'
    <1> USE DEF IInv, jobVars
    <1>1. Story' = Story /\ Arrived' = Arrived /\ Linked' = Linked
        BY DEF Story, Arrived, Linked
    <1>2. TypeOK'
        BY <1>1 DEF TypeOK
    <1>3. LockInv' /\ IdleInv' /\ TodoInv' /\ TargetInv'
        BY <1>1 DEF LockInv, IdleInv, TodoInv, TargetInv
    <1>4. OneStoryPerItem' /\ NoEmptyStory'
        BY <1>1 DEF OneStoryPerItem, NoEmptyStory
    <1>5. QED
        BY <1>2, <1>3, <1>4

(* An embedding stored later touches no row, link or job.                  *)
LEMMA StoreEmbeddingPreserves == ASSUME IInv, NEW i \in Item, StoreEmbedding(i) PROVE IInv'
    BY RowsAndJobsUntouched DEF StoreEmbedding, IInv, TypeOK

(* Time passing touches no row, link or job.                               *)
LEMMA AgePreserves == ASSUME IInv, Age PROVE IInv'
    <1>1. horizon' \in 0..Len(born) /\ embedded' \in SUBSET Item
        BY DEF Age, IInv, TypeOK
    <1>2. QED
        BY <1>1, RowsAndJobsUntouched DEF Age

(* A worker takes the free lock: nobody else has a job under way.          *)
LEMMA AcquirePreserves == ASSUME IInv, NEW w \in Worker, Acquire(w) PROVE IInv'
    <1> USE DEF IInv, Acquire, Goto, tables, jobVars
    <1>1. Story' = Story /\ Arrived' = Arrived /\ Linked' = Linked
        BY DEF Story, Arrived, Linked
    <1>2. TypeOK'
        BY <1>1 DEF TypeOK
    <1>3. \A v \in Worker : pc[v] = "idle"
        BY ClusteringAssumption DEF LockInv
    <1>4. LockInv' /\ IdleInv' /\ TodoInv'
        BY <1>1, <1>3 DEF LockInv, IdleInv, TodoInv, TypeOK
    <1>5. TargetInv'
        BY <1>1 DEF TargetInv
    <1>6. OneStoryPerItem' /\ NoEmptyStory'
        BY <1>1 DEF OneStoryPerItem, NoEmptyStory
    <1>7. QED
        BY <1>2, <1>4, <1>5, <1>6

(* What the listing returns is unplaced at that moment.                    *)
LEMMA ListUnassignedPreserves == ASSUME IInv, NEW w \in Worker, ListUnassigned(w) PROVE IInv'
    <1> USE DEF IInv, ListUnassigned, Goto, tables
    <1>1. Story' = Story /\ Arrived' = Arrived /\ Linked' = Linked
        BY DEF Story, Arrived, Linked
    <1>2. RecentItem \subseteq Arrived
        BY DEF RecentItem, Arrived
    <1>3. TypeOK'
        BY <1>1 DEF TypeOK, RecentItem
    <1>4. LockInv' /\ IdleInv'
        BY DEF LockInv, IdleInv, TypeOK
    <1>5. TodoInv'
        BY <1>1, <1>2 DEF TodoInv, TypeOK
    <1>6. TargetInv'
        BY <1>1 DEF TargetInv
    <1>7. OneStoryPerItem' /\ NoEmptyStory'
        BY <1>1 DEF OneStoryPerItem, NoEmptyStory
    <1>8. QED
        BY <1>3, <1>4, <1>5, <1>6, <1>7

(* The headlines loaded are of stories that exist.                         *)
LEMMA LoadHeadlinesPreserves == ASSUME IInv, NEW w \in Worker, LoadHeadlines(w) PROVE IInv'
    <1> USE DEF IInv, LoadHeadlines, Goto, tables
    <1>1. Story' = Story /\ Arrived' = Arrived /\ Linked' = Linked
        BY DEF Story, Arrived, Linked
    <1>2. RecentStory \subseteq Story /\ Story \subseteq Nat
        BY DEF RecentStory, Story, TypeOK
    <1>3. TypeOK'
        BY <1>1, <1>2 DEF TypeOK
    <1>4. LockInv' /\ IdleInv' /\ TodoInv'
        BY <1>1 DEF LockInv, IdleInv, TodoInv, TypeOK
    <1>5. TargetInv'
        BY <1>1, <1>2 DEF TargetInv, TypeOK
    <1>6. OneStoryPerItem' /\ NoEmptyStory'
        BY <1>1 DEF OneStoryPerItem, NoEmptyStory
    <1>7. QED
        BY <1>3, <1>4, <1>5, <1>6

(* The match picks an existing story or decides for a new one.             *)
LEMMA MatchPreserves == ASSUME IInv, NEW w \in Worker, Match(w) PROVE IInv'
    <1> USE DEF IInv, Match, Goto, tables
    <1>1. Story' = Story /\ Arrived' = Arrived /\ Linked' = Linked
        BY DEF Story, Arrived, Linked
    <1>2. PICK i \in todo[w] : \E s \in Targets(w, i) : target' = [target EXCEPT ![w] = s]
        OBVIOUS
    <1>3. PICK s \in Story \cup {NoStory} : target' = [target EXCEPT ![w] = s]
        BY <1>2, TargetsExist DEF TypeOK
    <1>4. Story \subseteq Nat /\ NoStory \in Nat
        BY DEF Story, TypeOK, NoStory
    <1>5. TypeOK'
        BY <1>1, <1>3, <1>4 DEF TypeOK
    <1>6. LockInv' /\ IdleInv' /\ TodoInv'
        BY <1>1 DEF LockInv, IdleInv, TodoInv, TypeOK
    <1>7. TargetInv'
        BY <1>1, <1>3 DEF TargetInv, TypeOK
    <1>8. OneStoryPerItem' /\ NoEmptyStory'
        BY <1>1 DEF OneStoryPerItem, NoEmptyStory
    <1>9. QED
        BY <1>5, <1>6, <1>7, <1>8

(* The end of a job, by whatever way, gives up the lock and the locals.    *)
LEMMA JobEndPreserves ==
    ASSUME IInv, NEW w \in Worker, pc[w] # "idle", JobEnds(w), lock' = NoWorker,
           UNCHANGED tables, deaths' \in 0..MaxDeaths
    PROVE  IInv'
    <1> USE DEF IInv, JobEnds, tables
    <1>1. Story' = Story /\ Arrived' = Arrived /\ Linked' = Linked
        BY DEF Story, Arrived, Linked
    <1>2. TypeOK'
        BY <1>1 DEF TypeOK, NoStory
    <1>3. LockInv'
        BY DEF LockInv, TypeOK
    <1>4. IdleInv' /\ TodoInv'
        BY <1>1 DEF IdleInv, TodoInv, TypeOK
    <1>5. TargetInv'
        BY <1>1 DEF TargetInv, TypeOK
    <1>6. OneStoryPerItem' /\ NoEmptyStory'
        BY <1>1 DEF OneStoryPerItem, NoEmptyStory
    <1>7. QED
        BY <1>2, <1>3, <1>4, <1>5, <1>6

-----------------------------------------------------------------------------
(* The linking transaction.                                                *)

(* Only the worker that holds the lock is in its job, so nobody else plans *)
(* to place the item it places.                                            *)
LEMMA LinkIsExclusive ==
    ASSUME IInv, NEW w \in Worker, pc[w] = "link"
    PROVE  \A v \in Worker \ {w} : pc[v] = "idle" /\ todo[v] = {}
    BY DEF IInv, LockInv, IdleInv

(* The links after an unplaced item got its one new link.                  *)
LEMMA OneMoreLink ==
    ASSUME IInv, NEW i \in Item \ Linked, NEW s, links' = links \cup {<<s, i>>}
    PROVE  OneStoryPerItem'
    <1>1. ASSUME NEW l \in links, l[2] = i
          PROVE  FALSE
        <2>1. l[1] \in Story /\ <<l[1], i>> = l
            BY <1>1 DEF IInv, TypeOK
        <2>2. QED
            BY <2>1 DEF Linked
    <1>2. QED
        BY <1>1 DEF IInv, OneStoryPerItem

(* A new story is opened with its founder in it.                           *)
LEMMA FoundPreserves ==
    ASSUME IInv, NEW w \in Worker, NEW i \in todo[w], pc[w] = "link",
           born' = Append(born, StoryRow(i)),
           links' = links \cup {<<Len(born) + 1, i>>},
           RowDone(w, i), Goto(w, "match"),
           UNCHANGED <<horizon, embedded, lock, seen, deaths>>
    PROVE  IInv'
    <1> USE DEF IInv
    <1>1. i \in Item \ Linked /\ i \in Arrived
        BY DEF TodoInv, Arrived
    <1>2. born \in Seq(Birth) /\ StoryRow(i) \in Birth /\ StoryRow(i).kind = "story" /\ StoryRow(i).of = i
        BY <1>1, RowsAreBirths DEF TypeOK, Headline
    <1>3. Story' = Story \cup {Len(born) + 1} /\ Arrived \subseteq Arrived'
          /\ Story \subseteq Nat /\ Len(born) + 1 \notin Story /\ Len(born) + 1 \in Nat
        BY <1>2, StoriesAfterAppend, AppendKeepsRows
    <1>4. Linked' = Linked \cup {i}
        <2>1. \A j \in Item, s \in Story : <<s, j>> \in links' <=> <<s, j>> \in links
            BY <1>3
        <2>2. \A j \in Item : <<Len(born) + 1, j>> \in links' <=> j = i
            BY <1>3 DEF TypeOK
        <2>3. QED
            BY <1>1, <1>3, <2>1, <2>2 DEF Linked
    <1>5. TypeOK'
        <2>1. links' \in SUBSET (Story' \X Item)
            BY <1>1, <1>3 DEF TypeOK
        <2>2. born' \in Seq(Birth) /\ horizon' \in 0..Len(born')
            BY <1>2, AppendKeepsRows DEF TypeOK
        <2>3. QED
            BY <2>1, <2>2 DEF TypeOK, RowDone, Goto, NoStory
    <1>6. LockInv' /\ IdleInv'
        BY LinkIsExclusive DEF LockInv, IdleInv, RowDone, Goto, TypeOK
    <1>7. TodoInv'
        BY <1>3, <1>4, LinkIsExclusive DEF TodoInv, RowDone, TypeOK
    <1>8. TargetInv'
        BY <1>3 DEF TargetInv, RowDone, TypeOK
    <1>9. OneStoryPerItem'
        BY <1>1, OneMoreLink
    <1>10. NoEmptyStory'
        BY <1>2, <1>3, AppendKeepsRows DEF NoEmptyStory, Story
    <1>11. QED
        BY <1>5, <1>6, <1>7, <1>8, <1>9, <1>10

(* A story that exists gets one more item.                                 *)
LEMMA JoinPreserves ==
    ASSUME IInv, NEW w \in Worker, NEW i \in todo[w], pc[w] = "link",
           target[w] # NoStory,
           links' = links \cup {<<target[w], i>>},
           RowDone(w, i), Goto(w, "match"),
           UNCHANGED <<born, horizon, embedded, lock, seen, deaths>>
    PROVE  IInv'
    <1> USE DEF IInv
    <1>1. i \in Item \ Linked /\ i \in Arrived /\ target[w] \in Story
        BY DEF TodoInv, Arrived, TargetInv
    <1>2. Story' = Story /\ Arrived' = Arrived
        BY DEF Story, Arrived
    <1>3. Linked' = Linked \cup {i}
        BY <1>1, <1>2 DEF Linked
    <1>4. TypeOK'
        BY <1>1, <1>2 DEF TypeOK, RowDone, Goto, NoStory
    <1>5. LockInv' /\ IdleInv'
        BY LinkIsExclusive DEF LockInv, IdleInv, RowDone, Goto, TypeOK
    <1>6. TodoInv'
        BY <1>2, <1>3, LinkIsExclusive DEF TodoInv, RowDone, TypeOK
    <1>7. TargetInv'
        BY <1>2 DEF TargetInv, RowDone, TypeOK
    <1>8. OneStoryPerItem'
        BY <1>1, OneMoreLink
    <1>9. NoEmptyStory'
        BY <1>2 DEF NoEmptyStory
    <1>10. QED
        BY <1>4, <1>5, <1>6, <1>7, <1>8, <1>9

(* The linking transaction, whichever of its two branches it takes.        *)
LEMMA LinkPreserves == ASSUME IInv, NEW w \in Worker, Link(w) PROVE IInv'
    <1>1. CASE target[w] = NoStory
        BY <1>1, FoundPreserves DEF Link
    <1>2. CASE target[w] # NoStory
        BY <1>2, JoinPreserves DEF Link
    <1>3. QED
        BY <1>1, <1>2

-----------------------------------------------------------------------------
(* Every step of the specification preserves the invariant.                *)
LEMMA NextPreserves == IInv /\ [Next]_vars => IInv'
    <1> SUFFICES ASSUME IInv, [Next]_vars
                 PROVE  IInv'
        OBVIOUS
    <1>1. ASSUME NEW i \in Item, Ingest(i) \/ StoreEmbedding(i)
          PROVE  IInv'
        BY <1>1, IngestPreserves, StoreEmbeddingPreserves
    <1>2. ASSUME NEW h \in Topic, AddManualStory(h)
          PROVE  IInv'
        BY <1>2, AddManualStoryPreserves
    <1>3. CASE Age
        BY <1>3, AgePreserves
    <1>4. ASSUME NEW w \in Worker, JobStep(w)
          PROVE  IInv'
        <2>1. CASE Finish(w)
            BY <2>1, JobEndPreserves DEF Finish, IInv, TypeOK
        <2>2. QED
            BY <1>4, <2>1, AcquirePreserves, ListUnassignedPreserves, LoadHeadlinesPreserves,
               MatchPreserves, LinkPreserves DEF JobStep
    <1>5. ASSUME NEW w \in Worker, Die(w)
          PROVE  IInv'
        <2>1. deaths' \in 0..MaxDeaths
            BY <1>5, ClusteringAssumption DEF Die, IInv, TypeOK
        <2>2. QED
            BY <1>5, <2>1, JobEndPreserves DEF Die
    <1>6. CASE UNCHANGED vars
        BY <1>6, RowsAndJobsUntouched DEF vars, jobVars, IInv, TypeOK
    <1>7. QED
        BY <1>1, <1>2, <1>3, <1>4, <1>5, <1>6 DEF Next

(* The inductive invariant holds in every reachable state.                 *)
THEOREM Inductive == Spec => []IInv
    BY InitEstablishes, NextPreserves, PTL DEF Spec

(* Type correctness, foreign keys included.                                *)
THEOREM TypeCorrect == Spec => []TypeOK
    <1>1. IInv => TypeOK
        BY DEF IInv
    <1>2. QED
        BY <1>1, Inductive, PTL

(* However many workers overlap and die, no item is linked to two stories. *)
THEOREM ItemsAreInOneStory == Spec => []OneStoryPerItem
    <1>1. IInv => OneStoryPerItem
        BY DEF IInv
    <1>2. QED
        BY <1>1, Inductive, PTL

(* However the linking transaction ends, no founded story is empty.        *)
THEOREM StoriesHoldTheirFounder == Spec => []NoEmptyStory
    <1>1. IInv => NoEmptyStory
        BY DEF IInv
    <1>2. QED
        BY <1>1, Inductive, PTL

-----------------------------------------------------------------------------
(* Refinement: every step of Clustering is a step of StoryLinking, or      *)
(* changes nothing StoryLinking talks about.                               *)

(* The items that have arrived after a row is appended.                    *)
LEMMA ArrivedAfterAppend ==
    ASSUME NEW r \in Birth, born \in Seq(Birth), born' = Append(born, r)
    PROVE  Arrived' = Arrived \cup {i \in Item : r = ItemRow(i)}
    BY AppendKeepsRows DEF Arrived

(* With one story per item, the function agrees with the table.            *)
LEMMA StoryOfIsTheLink ==
    ASSUME TypeOK, OneStoryPerItem, NEW i \in Item, NEW s, <<s, i>> \in links
    PROVE  StoryOf[i] = s
    <1>1. s \in Story /\ i \in Linked
        BY DEF TypeOK, Linked
    <1>2. \A t \in Story : <<t, i>> \in links => t = s
        BY DEF OneStoryPerItem
    <1>3. QED
        BY <1>1, <1>2 DEF StoryOf

(* An item without a link is in no story.                                  *)
LEMMA UnlinkedHasNoStory ==
    ASSUME NEW i \in Item \ Linked
    PROVE  StoryOf[i] = NoStory
    BY DEF StoryOf

(* The function changes with the links only.                               *)
LEMMA StoryOfUnchanged ==
    ASSUME TypeOK, TypeOK', OneStoryPerItem, OneStoryPerItem', links' = links
    PROVE  StoryOf' = StoryOf
    <1>1. Linked' = Linked
        <2>1. \A i \in Item : \A s : <<s, i>> \in links => s \in Story /\ s \in Story'
            BY DEF TypeOK
        <2>2. QED
            BY <2>1 DEF Linked
    <1>2. ASSUME NEW i \in Item
          PROVE  StoryOf'[i] = StoryOf[i]
        <2>1. CASE i \in Linked
            <3>1. PICK s \in Story : <<s, i>> \in links
                BY <2>1 DEF Linked
            <3>2. StoryOf[i] = s
                BY <3>1, StoryOfIsTheLink
            <3>3. s \in Story' /\ \A t \in Story' : <<t, i>> \in links' => t = s
                BY <3>1 DEF TypeOK, OneStoryPerItem
            <3>4. StoryOf'[i] = s
                BY <1>1, <2>1, <3>1, <3>3 DEF StoryOf
            <3>5. QED
                BY <3>2, <3>4
        <2>2. CASE i \notin Linked
            BY <1>1, <2>2 DEF StoryOf
        <2>3. QED
            BY <2>1, <2>2
    <1>3. QED
        BY <1>2 DEF StoryOf

(* A step that links one unplaced item changes the function there only.    *)
LEMMA StoryOfAfterLink ==
    ASSUME IInv, IInv', NEW i \in Item \ Linked, NEW s, links' = links \cup {<<s, i>>}
    PROVE  StoryOf' = [StoryOf EXCEPT ![i] = s]
    <1> USE DEF IInv
    <1>1. StoryOf'[i] = s
        <2>1. s \in Story' /\ <<s, i>> \in links'
            BY DEF TypeOK
        <2>2. i \in Linked' /\ \A t \in Story' : <<t, i>> \in links' => t = s
            BY <2>1 DEF Linked, OneStoryPerItem
        <2>3. QED
            BY <2>1, <2>2 DEF StoryOf
    <1>2. ASSUME NEW j \in Item \ {i}
          PROVE  StoryOf'[j] = StoryOf[j]
        <2>1. \A t : <<t, j>> \in links' <=> <<t, j>> \in links
            OBVIOUS
        <2>2. CASE j \in Linked
            <3>1. PICK t \in Story : <<t, j>> \in links
                BY <2>2 DEF Linked
            <3>2. StoryOf[j] = t
                BY <3>1, StoryOfIsTheLink
            <3>3. t \in Story' /\ <<t, j>> \in links' /\ \A u \in Story' : <<u, j>> \in links' => u = t
                BY <2>1, <3>1 DEF TypeOK, OneStoryPerItem
            <3>4. j \in Linked'
                BY <3>3 DEF Linked
            <3>5. StoryOf'[j] = t
                BY <3>3, <3>4 DEF StoryOf
            <3>6. QED
                BY <3>2, <3>5
        <2>3. CASE j \notin Linked
            <3>1. j \notin Linked'
                BY <2>1, <2>3 DEF Linked, TypeOK
            <3>2. QED
                BY <2>3, <3>1 DEF StoryOf
        <2>4. QED
            BY <2>2, <2>3
    <1>3. QED
        BY <1>1, <1>2 DEF StoryOf

(* The initial state is an initial state of StoryLinking.                  *)
LEMMA InitRefines == Init => Linking!LinkInit
    BY DEF Init, Linking!LinkInit, Arrived, Story, StoryOf, Linked, NoStory

(* Ingesting an item is an arrival in StoryLinking.                        *)
LEMMA IngestRefines ==
    ASSUME IInv, IInv', NEW i \in Item, Ingest(i)
    PROVE  Linking!Arrive(i)
    <1>1. born \in Seq(Birth) /\ ItemRow(i) \in Birth /\ ItemRow(i).kind = "item"
        BY RowsAreBirths DEF IInv, TypeOK
    <1>2. Arrived' = Arrived \cup {i}
        BY <1>1, ArrivedAfterAppend DEF Ingest, ItemRow
    <1>3. Story' = Story
        BY <1>1, StoriesAfterAppend DEF Ingest
    <1>4. StoryOf' = StoryOf
        BY StoryOfUnchanged DEF Ingest, IInv
    <1>5. QED
        BY <1>2, <1>3, <1>4 DEF Linking!Arrive, Ingest

(* A manual story is a story opened with no founder in StoryLinking.       *)
LEMMA AddManualStoryRefines ==
    ASSUME IInv, IInv', NEW h \in Topic, AddManualStory(h)
    PROVE  \E s \in Story' : Linking!OpenManual(s)
    <1>1. born \in Seq(Birth) /\ StoryRow(h) \in Birth /\ StoryRow(h).kind = "story"
        BY RowsAreBirths DEF IInv, TypeOK, Headline
    <1>2. Arrived' = Arrived
        BY <1>1, ArrivedAfterAppend DEF AddManualStory, ItemRow, StoryRow
    <1>3. Story' = Story \cup {Len(born) + 1} /\ Len(born) + 1 \notin Story
          /\ Len(born) + 1 \in Nat /\ Len(born) + 1 # NoStory
        BY <1>1, StoriesAfterAppend DEF AddManualStory, NoStory
    <1>4. StoryOf' = StoryOf
        BY StoryOfUnchanged DEF AddManualStory, IInv
    <1>5. QED
        BY <1>2, <1>3, <1>4 DEF Linking!OpenManual

(* Linking an item is founding or joining in StoryLinking.                 *)
LEMMA LinkRefines ==
    ASSUME IInv, IInv', NEW w \in Worker, Link(w)
    PROVE  \E i \in Item : \E s \in Story' : Linking!Found(i, s) \/ Linking!Join(i, s)
    <1>1. PICK i \in todo[w] :
              /\ IF target[w] = NoStory
                 THEN born' = Append(born, StoryRow(i)) /\ links' = links \cup {<<Len(born) + 1, i>>}
                 ELSE links' = links \cup {<<target[w], i>>} /\ UNCHANGED born
        BY DEF Link
    <1>2. i \in Item \ Linked /\ i \in Arrived /\ target[w] \in Story \cup {NoStory}
        BY DEF IInv, TodoInv, TargetInv, Arrived
    <1>3. StoryOf[i] = NoStory
        BY <1>2, UnlinkedHasNoStory
    <1>4. CASE target[w] = NoStory
        <2>1. born \in Seq(Birth) /\ StoryRow(i) \in Birth /\ StoryRow(i).kind = "story"
            BY <1>2, RowsAreBirths DEF IInv, TypeOK, Headline
        <2>2. Story' = Story \cup {Len(born) + 1} /\ Len(born) + 1 \notin Story
              /\ Len(born) + 1 \in Nat /\ Len(born) + 1 # NoStory
            BY <1>1, <1>4, <2>1, StoriesAfterAppend DEF NoStory
        <2>3. Arrived' = Arrived
            BY <1>1, <1>2, <1>4, <2>1, ArrivedAfterAppend, RowsAreBirths DEF ItemRow, StoryRow
        <2>4. StoryOf' = [StoryOf EXCEPT ![i] = Len(born) + 1]
            BY <1>1, <1>2, <1>4, StoryOfAfterLink
        <2>5. Linking!Found(i, Len(born) + 1)
            BY <1>2, <1>3, <2>2, <2>3, <2>4 DEF Linking!Found
        <2>6. QED
            BY <1>2, <2>2, <2>5
    <1>5. CASE target[w] # NoStory
        <2>1. Story' = Story /\ Arrived' = Arrived
            BY <1>1, <1>5 DEF Story, Arrived
        <2>2. StoryOf' = [StoryOf EXCEPT ![i] = target[w]]
            BY <1>1, <1>2, <1>5, StoryOfAfterLink
        <2>3. Linking!Join(i, target[w])
            BY <1>2, <1>3, <1>5, <2>1, <2>2 DEF Linking!Join
        <2>4. QED
            BY <1>2, <1>5, <2>1, <2>3
    <1>6. QED
        BY <1>4, <1>5

(* Everything else is invisible to StoryLinking.                           *)
LEMMA OtherStepsStutter ==
    ASSUME IInv, IInv', UNCHANGED <<born, links>>
    PROVE  UNCHANGED Linking!linkVars
    <1>1. Story' = Story /\ Arrived' = Arrived
        BY DEF Story, Arrived
    <1>2. StoryOf' = StoryOf
        BY StoryOfUnchanged DEF IInv
    <1>3. QED
        BY <1>1, <1>2 DEF Linking!linkVars

(* Every step of the job is a step of StoryLinking or a stutter.           *)
LEMMA StepRefines == IInv /\ IInv' /\ [Next]_vars => [Linking!LinkNext]_(Linking!linkVars)
    <1> SUFFICES ASSUME IInv, IInv', [Next]_vars
                 PROVE  Linking!LinkNext \/ UNCHANGED Linking!linkVars
        OBVIOUS
    <1> USE DEF Linking!LinkNext
    <1>1. ASSUME NEW i \in Item, Ingest(i)
          PROVE  Linking!LinkNext
        BY <1>1, IngestRefines
    <1>2. ASSUME NEW h \in Topic, AddManualStory(h)
          PROVE  Linking!LinkNext
        BY <1>2, AddManualStoryRefines
    <1>3. ASSUME NEW w \in Worker, Link(w)
          PROVE  Linking!LinkNext
        BY <1>3, LinkRefines
    <1>4. ASSUME NEW i \in Item, StoreEmbedding(i)
          PROVE  UNCHANGED <<born, links>>
        BY <1>4 DEF StoreEmbedding
    <1>5. CASE Age
        BY <1>5, OtherStepsStutter DEF Age
    <1>6. ASSUME NEW w \in Worker,
                 Acquire(w) \/ ListUnassigned(w) \/ LoadHeadlines(w) \/ Match(w) \/ Finish(w) \/ Die(w)
          PROVE  UNCHANGED <<born, links>>
        BY <1>6 DEF Acquire, ListUnassigned, LoadHeadlines, Match, Finish, Die, tables
    <1>7. CASE UNCHANGED vars
        BY <1>7, OtherStepsStutter DEF vars
    <1>8. QED
        BY <1>1, <1>2, <1>3, <1>4, <1>5, <1>6, <1>7, OtherStepsStutter DEF Next, JobStep

(* Clustering keeps the promise of StoryLinking.                           *)
THEOREM Refinement == Spec => ImplementsStoryLinking
    <1>1. Init => Linking!LinkInit
        BY InitRefines
    <1>2. IInv /\ IInv' /\ [Next]_vars => [Linking!LinkNext]_(Linking!linkVars)
        BY StepRefines
    <1>3. QED
        BY <1>1, <1>2, Inductive, PTL DEF Spec, ImplementsStoryLinking, Linking!LinkSpec

-----------------------------------------------------------------------------
(* The over-merge guard.  Between the match and the link the tables move   *)
(* on, but what a job saw stays true: rows, links and embeddings are never *)
(* taken back, and the item that is linked is the one that was matched,    *)
(* for it is still the oldest of those the job has to place.               *)

(* Why an item may join a story it did not found.                          *)
Reason(s, i) ==
    \/ Overlap[i][born[s].of] >= MinTokens
    \/ \E k \in links : /\ k[1] = s /\ k[2] # i
                        /\ {k[2], i} \subseteq embedded
                        /\ Dist[i][k[2]] <= MaxDist

(* A row that came with an embedding has one for good.                     *)
VecsInv == \A w \in Worker : vecs[w] \subseteq embedded

(* The story chosen was chosen with reason, for the item next in turn.     *)
ReasonOf(w) ==
    pc[w] = "link" =>
        \E i \in todo[w] : /\ Oldest(i, todo[w])
                           /\ target[w] # NoStory => Reason(target[w], i)

MergeInv ==
    /\ IInv
    /\ VecsInv
    /\ \A w \in Worker : ReasonOf(w)
    /\ JoinedForAReason

(* Nothing is ever taken back.                                             *)
Grows ==
    /\ links \subseteq links' /\ embedded \subseteq embedded'
    /\ \A n \in DOMAIN born : n \in DOMAIN born' /\ born'[n] = born[n]

LEMMA ReasonStays ==
    ASSUME Grows, NEW s \in Story, NEW i, Reason(s, i)
    PROVE  Reason(s, i)'
    <1>1. born'[s] = born[s]
        BY DEF Grows, Story
    <1>2. CASE Overlap[i][born[s].of] >= MinTokens
        BY <1>1, <1>2 DEF Reason
    <1>3. CASE \E k \in links : /\ k[1] = s /\ k[2] # i
                                /\ {k[2], i} \subseteq embedded
                                /\ Dist[i][k[2]] <= MaxDist
        BY <1>3 DEF Reason, Grows
    <1>4. QED
        BY <1>2, <1>3 DEF Reason

LEMMA OldestStays ==
    ASSUME TypeOK, Grows, NEW i, NEW S, Oldest(i, S)
    PROVE  Oldest(i, S)'
    <1>1. PICK n \in DOMAIN born :
              born[n] = ItemRow(i) /\ \A m \in 1..(n - 1) : \A j \in S : born[m] # ItemRow(j)
        BY DEF Oldest
    <1>2. \A m \in 1..(n - 1) : m \in DOMAIN born
        BY <1>1 DEF TypeOK
    <1>3. n \in DOMAIN born' /\ born'[n] = ItemRow(i)
        BY <1>1 DEF Grows
    <1>4. \A m \in 1..(n - 1) : born'[m] = born[m]
        BY <1>2 DEF Grows
    <1>5. ItemRow(i)' = ItemRow(i)
        BY DEF ItemRow
    <1>6. QED
        BY <1>1, <1>3, <1>4 DEF Oldest, ItemRow

(* No two items are the oldest.                                            *)
LEMMA OldestIsOne ==
    ASSUME TypeOK, NEW S, NEW i \in S, NEW j \in S, Oldest(i, S), Oldest(j, S)
    PROVE  i = j
    <1>1. PICK n \in DOMAIN born :
              born[n] = ItemRow(i) /\ \A m \in 1..(n - 1) : born[m] # ItemRow(j)
        BY DEF Oldest
    <1>2. PICK p \in DOMAIN born :
              born[p] = ItemRow(j) /\ \A m \in 1..(p - 1) : born[m] # ItemRow(i)
        BY DEF Oldest
    <1>3. n \in Nat \ {0} /\ p \in Nat \ {0}
        BY DEF TypeOK
    <1>4. n \notin 1..(p - 1) /\ p \notin 1..(n - 1)
        BY <1>1, <1>2
    <1>5. n = p
        BY <1>3, <1>4
    <1>6. QED
        BY <1>1, <1>2, <1>5 DEF ItemRow

LEMMA ReasonOfStays ==
    ASSUME MergeInv, Grows, NEW w \in Worker,
           pc'[w] = "link" =>
               pc[w] = "link" /\ todo'[w] = todo[w] /\ target'[w] = target[w]
    PROVE  ReasonOf(w)'
    <1> SUFFICES ASSUME pc'[w] = "link"
                 PROVE  \E i \in todo'[w] : /\ Oldest(i, todo[w])'
                                            /\ target'[w] # NoStory => Reason(target[w], i)'
        BY DEF ReasonOf, NoStory
    <1>1. PICK i \in todo[w] : /\ Oldest(i, todo[w])
                               /\ target[w] # NoStory => Reason(target[w], i)
        BY DEF MergeInv, ReasonOf
    <1> PICK S, s : S = todo[w] /\ s = target[w]
        OBVIOUS
    <1>2. todo'[w] = S /\ target'[w] = s
        OBVIOUS
    <1>3. Oldest(i, S)'
        BY <1>1, OldestStays DEF MergeInv, IInv
    <1>4. s # NoStory => s \in Story /\ Reason(s, i)'
        BY <1>1, ReasonStays DEF MergeInv, IInv, TargetInv
    <1>5. QED
        BY <1>1, <1>2, <1>3, <1>4

(* The links there were keep their reasons.                                *)
LEMMA LinksKeepReasons ==
    ASSUME MergeInv, Grows, NEW l \in links
    PROVE  born'[l[1]].of = l[2] \/ Reason(l[1], l[2])'
    <1> PICK s, i : s = l[1] /\ i = l[2]
        OBVIOUS
    <1>1. s \in Story
        BY DEF MergeInv, IInv, TypeOK
    <1>2. born'[s] = born[s]
        BY <1>1 DEF Grows, Story
    <1>3. born[s].of = i \/ Reason(s, i)
        BY DEF MergeInv, JoinedForAReason, Reason
    <1>4. born'[s].of = i \/ Reason(s, i)'
        BY <1>1, <1>2, <1>3, ReasonStays
    <1>5. QED
        BY <1>4 DEF Reason

(* A step that links nothing and chooses no story.                         *)
LEMMA MergeQuietly ==
    ASSUME MergeInv, IInv', Grows, links' = links,
           \A w \in Worker : vecs'[w] \subseteq embedded',
           \A w \in Worker : pc'[w] = "link" =>
               pc[w] = "link" /\ todo'[w] = todo[w] /\ target'[w] = target[w]
    PROVE  MergeInv'
    <1>1. \A w \in Worker : ReasonOf(w)'
        BY ReasonOfStays
    <1>2. \A l \in links' : born'[l[1]].of = l[2] \/ Reason(l[1], l[2])'
        BY LinksKeepReasons
    <1>3. JoinedForAReason'
        BY <1>2 DEF Reason, JoinedForAReason
    <1>4. QED
        BY <1>1, <1>3 DEF MergeInv, VecsInv

(* The match: a neighbour is another item, embedded and in the story; a    *)
(* headline shares its tokens.                                             *)
LEMMA TargetsHaveReasons ==
    ASSUME MergeInv, NEW w \in Worker, NEW i \in todo[w], NEW s \in Targets(w, i), s # NoStory
    PROVE  Reason(s, i)
    <1>1. CASE i \in vecs[w] /\ Hits(i) # {}
        <2>1. PICK l \in Hits(i) : s = l[1]
            BY <1>1 DEF Targets, ClosestStories
        <2>2. l \in links /\ l[2] \in embedded /\ Dist[i][l[2]] <= MaxDist
            BY <2>1 DEF Hits
        <2>3. i \in embedded
            BY <1>1 DEF MergeInv, VecsInv
        <2>4. l[2] # i
            <3>1. l[2] \in Linked
                <4>1. l \in Story \X Item
                    BY <2>2 DEF MergeInv, IInv, TypeOK
                <4>2. l[1] \in Story /\ l[2] \in Item /\ <<l[1], l[2]>> \in links
                    BY <2>2, <4>1
                <4>3. QED
                    BY <4>2 DEF Linked
            <3>2. i \notin Linked
                BY DEF MergeInv, IInv, TodoInv
            <3>3. QED
                BY <3>1, <3>2
        <2>5. QED
            BY <2>1, <2>2, <2>3, <2>4 DEF Reason
    <1>2. CASE ~(i \in vecs[w] /\ Hits(i) # {})
        <2>1. s \in KeywordMatches(i, seen[w])
            BY <1>2 DEF Targets
        <2>2. Overlap[i][born[s].of] >= MinTokens
            BY <2>1 DEF KeywordMatches
        <2>3. QED
            BY <2>2 DEF Reason
    <1>3. QED
        BY <1>1, <1>2

LEMMA MatchMerges == ASSUME MergeInv, NEW w \in Worker, Match(w) PROVE MergeInv'
    <1>1. IInv'
        BY MatchPreserves DEF MergeInv
    <1>2. UNCHANGED <<born, horizon, embedded, links, todo, vecs>>
        BY DEF Match, tables
    <1>3. Grows
        BY <1>2 DEF Grows
    <1>4. PICK i \in todo[w] : /\ Oldest(i, todo[w])
                               /\ \E s \in Targets(w, i) : target' = [target EXCEPT ![w] = s]
        BY DEF Match
    <1>5. PICK s \in Targets(w, i) : target' = [target EXCEPT ![w] = s]
        BY <1>4
    <1>6. ReasonOf(w)'
        <2>1. target'[w] = s
            BY <1>5 DEF MergeInv, IInv, TypeOK
        <2>2. s # NoStory => Reason(s, i)
            BY TargetsHaveReasons
        <2>3. s # NoStory => Reason(s, i)'
            BY <1>2, <2>2 DEF Reason
        <2>4. s # NoStory => Reason(target[w], i)'
            BY <2>1, <2>3 DEF Reason
        <2>5. Oldest(i, todo[w])'
            BY <1>2, <1>4 DEF Oldest
        <2>6. QED
            BY <1>2, <2>1, <2>4, <2>5 DEF ReasonOf, NoStory
    <1>7. ASSUME NEW v \in Worker PROVE ReasonOf(v)'
        <2>1. CASE v = w
            BY <1>6, <2>1
        <2>2. CASE v # w
            <3>1. pc'[v] = pc[v] /\ todo'[v] = todo[v] /\ target'[v] = target[v]
                BY <1>2, <1>5, <2>2 DEF Match, Goto, MergeInv, IInv, TypeOK
            <3>2. QED
                BY <1>3, <3>1, ReasonOfStays
        <2>3. QED
            BY <2>1, <2>2
    <1>8. \A l \in links' : born'[l[1]].of = l[2] \/ Reason(l[1], l[2])'
        BY <1>2, <1>3, LinksKeepReasons
    <1>9. JoinedForAReason'
        BY <1>8 DEF Reason, JoinedForAReason
    <1>10. QED
        BY <1>1, <1>2, <1>7, <1>9 DEF MergeInv, VecsInv

LEMMA LinkMerges == ASSUME MergeInv, NEW w \in Worker, Link(w) PROVE MergeInv'
    <1>1. IInv /\ IInv' /\ TypeOK
        BY LinkPreserves DEF MergeInv, IInv
    <1>2. PICK i \in todo[w] :
              /\ Oldest(i, todo[w])
              /\ IF target[w] = NoStory
                 THEN /\ born' = Append(born, StoryRow(i))
                      /\ links' = links \cup {<<Len(born) + 1, i>>}
                 ELSE /\ links' = links \cup {<<target[w], i>>}
                      /\ UNCHANGED born
              /\ RowDone(w, i)
        BY DEF Link
    <1>3. pc[w] = "link" /\ Goto(w, "match") /\ UNCHANGED <<embedded, seen>>
        BY DEF Link
    <1>4. i \in Item /\ born \in Seq(Birth) /\ StoryRow(i) \in Birth /\ StoryRow(i).of = i
        BY <1>1, RowsAreBirths DEF TypeOK, Headline
    <1>5. Grows
        BY <1>1, <1>2, <1>3, <1>4, AppendKeepsRows DEF Grows
    <1>6. target[w] # NoStory => Reason(target[w], i)
        <2>1. PICK j \in todo[w] : /\ Oldest(j, todo[w])
                                   /\ target[w] # NoStory => Reason(target[w], j)
            BY <1>3 DEF MergeInv, ReasonOf
        <2>2. i = j
            BY <1>1, <1>2, <2>1, OldestIsOne
        <2>3. QED
            BY <2>1, <2>2
    <1>7. ASSUME NEW l \in links' PROVE born'[l[1]].of = l[2] \/ Reason(l[1], l[2])'
        <2>1. CASE l \in links
            BY <1>5, <2>1, LinksKeepReasons
        <2>2. CASE l \notin links /\ target[w] = NoStory
            <3>1. l = <<Len(born) + 1, i>> /\ born' = Append(born, StoryRow(i))
                BY <1>2, <2>2
            <3>2. born'[Len(born) + 1] = StoryRow(i)
                BY <1>4, <3>1, AppendKeepsRows
            <3>3. QED
                BY <1>4, <3>1, <3>2
        <2>3. CASE l \notin links /\ target[w] # NoStory
            <3> PICK s : s = target[w]
                OBVIOUS
            <3>1. l = <<s, i>> /\ s \in Story /\ Reason(s, i)
                BY <1>1, <1>2, <1>6, <2>3 DEF IInv, TargetInv
            <3>2. Reason(s, i)'
                BY <1>5, <3>1, ReasonStays
            <3>3. Reason(l[1], l[2])'
                BY <3>1, <3>2
            <3>4. QED
                BY <3>3
        <2>4. QED
            BY <2>1, <2>2, <2>3
    <1>8. JoinedForAReason'
        BY <1>7 DEF Reason, JoinedForAReason
    <1>9. ASSUME NEW v \in Worker PROVE ReasonOf(v)'
        <2>1. pc'[v] # "link"
            BY <1>1, <1>3, LinkIsExclusive DEF Goto, TypeOK
        <2>2. QED
            BY <2>1 DEF ReasonOf
    <1>10. VecsInv'
        BY <1>1, <1>2, <1>3 DEF MergeInv, VecsInv, RowDone, TypeOK
    <1>11. QED
        BY <1>1, <1>8, <1>9, <1>10 DEF MergeInv

LEMMA MergeNext == MergeInv /\ [Next]_vars => MergeInv'
    <1> SUFFICES ASSUME MergeInv, [Next]_vars
                 PROVE  MergeInv'
        OBVIOUS
    <1>0. IInv /\ IInv' /\ TypeOK
        BY NextPreserves DEF MergeInv, IInv
    <1>1. ASSUME NEW r \in Birth, born' = Append(born, r),
                 UNCHANGED <<embedded, links, pc, jobVars>>
          PROVE  MergeInv'
        <2>1. Grows
            BY <1>0, <1>1, AppendKeepsRows DEF Grows, TypeOK
        <2>2. QED
            BY <1>0, <1>1, <2>1, MergeQuietly DEF jobVars, MergeInv, VecsInv
    <1>2. ASSUME NEW i \in Item, Ingest(i)
          PROVE  MergeInv'
        BY <1>1, <1>2, RowsAreBirths DEF Ingest
    <1>3. ASSUME NEW h \in Topic, AddManualStory(h)
          PROVE  MergeInv'
        BY <1>1, <1>3, RowsAreBirths DEF AddManualStory, Headline
    <1>4. ASSUME UNCHANGED <<born, links, pc, jobVars>>, embedded \subseteq embedded'
          PROVE  MergeInv'
        <2>1. Grows
            BY <1>4 DEF Grows
        <2>2. \A w \in Worker : vecs'[w] \subseteq embedded'
            BY <1>4 DEF jobVars, MergeInv, VecsInv
        <2>3. QED
            BY <1>0, <1>4, <2>1, <2>2, MergeQuietly DEF jobVars
    <1>5. ASSUME NEW i \in Item, StoreEmbedding(i)
          PROVE  MergeInv'
        <2>1. UNCHANGED <<born, links, pc, jobVars>> /\ embedded \subseteq embedded'
            BY <1>5 DEF StoreEmbedding
        <2>2. QED
            BY <1>4, <2>1
    <1>6. CASE Age \/ UNCHANGED vars
        <2>1. UNCHANGED <<born, links, pc, jobVars>> /\ embedded \subseteq embedded'
            BY <1>6 DEF Age, vars, jobVars
        <2>2. QED
            BY <1>4, <2>1
    <1>7. ASSUME NEW w \in Worker, UNCHANGED tables,
                 Acquire(w) \/ ListUnassigned(w) \/ LoadHeadlines(w) \/ JobEnds(w)
          PROVE  MergeInv'
        <2>1. Grows
            BY <1>7 DEF Grows, tables
        <2>2. ASSUME NEW v \in Worker
              PROVE  /\ vecs'[v] \subseteq embedded'
                     /\ pc'[v] = "link" =>
                            pc[v] = "link" /\ todo'[v] = todo[v] /\ target'[v] = target[v]
            <3>1. vecs[v] \subseteq embedded
                BY DEF MergeInv, VecsInv
            <3>2. CASE Acquire(w) \/ LoadHeadlines(w)
                BY <1>0, <1>7, <3>1, <3>2 DEF Acquire, LoadHeadlines, Goto, tables, jobVars, TypeOK
            <3>3. CASE ListUnassigned(w)
                BY <1>0, <1>7, <3>1, <3>3 DEF ListUnassigned, Goto, tables, TypeOK
            <3>4. CASE JobEnds(w)
                BY <1>0, <1>7, <3>1, <3>4 DEF JobEnds, tables, TypeOK
            <3>5. QED
                BY <1>7, <3>2, <3>3, <3>4
        <2>3. QED
            BY <1>0, <1>7, <2>1, <2>2, MergeQuietly DEF tables
    <1>8. ASSUME NEW w \in Worker, JobStep(w) \/ Die(w)
          PROVE  MergeInv'
        <2>1. CASE Acquire(w) \/ ListUnassigned(w) \/ LoadHeadlines(w)
            <3>1. UNCHANGED tables
                BY <2>1 DEF Acquire, ListUnassigned, LoadHeadlines
            <3>2. QED
                BY <1>7, <2>1, <3>1
        <2>2. CASE Finish(w) \/ Die(w)
            <3>1. JobEnds(w) /\ UNCHANGED tables
                BY <2>2 DEF Finish, Die
            <3>2. QED
                BY <1>7, <3>1
        <2>3. QED
            BY <1>8, <2>1, <2>2, MatchMerges, LinkMerges DEF JobStep
    <1>9. QED
        BY <1>2, <1>3, <1>5, <1>6, <1>8 DEF Next

LEMMA InitMerges == Init => MergeInv
    BY InitEstablishes DEF Init, MergeInv, VecsInv, ReasonOf, JoinedForAReason

(* The over-merge guard holds of every item ever linked, whatever changed  *)
(* in the tables between the match and the link: who joins a story shares  *)
(* MinTokens of its headline's tokens or is within the threshold of        *)
(* another member (_keyword_fallback_match, vector_search).                *)
THEOREM NothingIsOverMerged == Spec => []JoinedForAReason
    <1>1. Spec => []MergeInv
        BY InitMerges, MergeNext, PTL DEF Spec
    <1>2. MergeInv => JoinedForAReason
        BY DEF MergeInv
    <1>3. QED
        BY <1>1, <1>2, PTL
=============================================================================
