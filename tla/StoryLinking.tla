---------------------------- MODULE StoryLinking ----------------------------
(***************************************************************************)
(* What clustering promises, without how: an item that has arrived is      *)
(* placed in at most one story, once and for all; a story founded by an    *)
(* item holds that item from the moment it exists; a manual story exists   *)
(* without items.                                                          *)
(*                                                                         *)
(* The promise is the "stability rule" and the "orphan prevention" of      *)
(* worker/app/cluster.py (module docstring) and of create_or_join_story.   *)
(* Clustering.tla is shown to implement it.                                *)
(***************************************************************************)
EXTENDS Naturals

CONSTANTS
    Item,        \* items the feeds can deliver
    NoStory      \* the value of storyOf for an item in no story

VARIABLES
    arrived,     \* items that are in the items table
    opened,      \* ids of the stories that exist
    storyOf      \* the story each item is in, or NoStory

linkVars == <<arrived, opened, storyOf>>

LinkInit ==
    /\ arrived = {}
    /\ opened = {}
    /\ storyOf = [i \in Item |-> NoStory]

\* A feed delivers an item nobody has seen.
Arrive(i) ==
    /\ i \notin arrived
    /\ arrived' = arrived \cup {i}
    /\ UNCHANGED <<opened, storyOf>>

\* Somebody writes a story by hand.
OpenManual(s) ==
    /\ s \in Nat \ (opened \cup {NoStory})
    /\ opened' = opened \cup {s}
    /\ UNCHANGED <<arrived, storyOf>>

\* An unplaced item founds a story; story and membership appear together.
Found(i, s) ==
    /\ i \in arrived
    /\ storyOf[i] = NoStory
    /\ s \in Nat \ (opened \cup {NoStory})
    /\ opened' = opened \cup {s}
    /\ storyOf' = [storyOf EXCEPT ![i] = s]
    /\ UNCHANGED arrived

\* An unplaced item joins a story that exists.
Join(i, s) ==
    /\ i \in arrived
    /\ storyOf[i] = NoStory
    /\ s \in opened
    /\ storyOf' = [storyOf EXCEPT ![i] = s]
    /\ UNCHANGED <<arrived, opened>>

\* A story that is opened or joined exists afterwards: it is one of opened'.
LinkNext ==
    \/ \E i \in Item : Arrive(i)
    \/ \E s \in opened' : OpenManual(s)
    \/ \E i \in Item : \E s \in opened' : Found(i, s) \/ Join(i, s)

LinkSpec == LinkInit /\ [][LinkNext]_linkVars
=============================================================================
