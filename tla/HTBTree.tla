------------------------------- MODULE HTBTree --------------------------------
(***************************************************************************)
(* The sorted binary tree of directory listings (HTBTree.c): an element    *)
(* is added at its place, the depths above it are put right, and the tree  *)
(* is balanced by single rotations, at most seven of them.                 *)
(*                                                                         *)
(* One action for a turn of each loop of HTBTree_add; the elements are     *)
(* numbered in the order they are added, and Null is 0: a null pointer     *)
(* followed is a function applied outside its domain, which TLC reports.   *)
(***************************************************************************)
EXTENDS Integers, Sequences

CONSTANTS Keys,         \* what the objects are compared by
          MaxElements   \* elements of a tree

ASSUME BTreeAssumption == Keys \subseteq Int /\ MaxElements \in Nat

VARIABLES key,          \* the objects, in the order they are added
          node,         \* the elements
          top,
          pc,           \* the loop of HTBTree_add
          father,       \* father_of_element
          added,        \* added_element, the one that comes up in a correction
          child,        \* the element whose father gets a new depth ...
          from,         \* ... and the one it is computed from
          corrections

treeVars == <<key, node, top, pc, father, added, child, from, corrections>>

Null == 0
MaxCorrections == 7

Element(up) == [up |-> up, left |-> Null, left_depth |-> 0, right |-> Null, right_depth |-> 0]

TreeInit ==
    /\ key = <<>> /\ node = <<>> /\ top = Null
    /\ pc = "idle" /\ father = Null /\ added = Null /\ child = Null /\ from = Null /\ corrections = 0

Larger(a, b) == IF a > b THEN a ELSE b
Depth(n) == 1 + Larger(node[n].left_depth, node[n].right_depth)

(***************************************************************************)
(* 1/ Adding of the element to the binary tree.                            *)
(***************************************************************************)
New == Len(key)

Add(k) ==
    /\ pc = "idle" /\ Len(key) < MaxElements
    /\ key' = Append(key, k)
    /\ IF top = Null
       THEN /\ node' = Append(node, Element(Null))
            /\ top' = 1
            /\ UNCHANGED <<pc, father>>
       ELSE /\ pc' = "find" /\ father' = top
            /\ UNCHANGED <<node, top>>
    /\ UNCHANGED <<added, child, from, corrections>>

\* A turn that has gone down to the left looks at the right of the element it has
\* come to in the same turn.
Reached == IF key[New] < key[father] /\ node[father].left # Null
           THEN node[father].left ELSE father

Attach(side, n) ==
    /\ node' = Append([node EXCEPT ![n][side] = New], Element(n))
    /\ pc' = "depths" /\ father' = n /\ child' = New /\ from' = New
    /\ UNCHANGED <<key, top, added, corrections>>

GoTo(n) ==
    /\ father' = n
    /\ UNCHANGED <<key, node, top, pc, added, child, from, corrections>>

Find ==
    /\ pc = "find"
    /\ CASE key[New] < key[Reached] /\ Reached # father      -> GoTo(Reached)
         [] key[New] < key[Reached] /\ Reached = father      -> Attach("left", father)
         [] key[New] >= key[Reached] /\ node[Reached].right # Null -> GoTo(node[Reached].right)
         [] OTHER                                            -> Attach("right", Reached)

(***************************************************************************)
(* Changing of all depths that need to be changed, above a new element or  *)
(* above the place of a rotation.                                          *)
(***************************************************************************)
Lift(next) ==
    LET above == node[child].up
        side  == IF node[above].left = child THEN "left_depth" ELSE "right_depth"
    IN  /\ node' = [node EXCEPT ![above][side] = Depth(from)]
        /\ IF node[above][side] = Depth(from) \/ node[above].up = Null
           THEN pc' = next /\ UNCHANGED <<child, from>>
           ELSE child' = above /\ from' = above /\ UNCHANGED pc
        /\ UNCHANGED <<key, top, father, added>>

NewDepths ==
    /\ pc = "depths"
    /\ Lift("balance")
    /\ corrections' = 0

(***************************************************************************)
(* 2/ Balancing the binary tree, if necessary.                             *)
(***************************************************************************)
Skew == node[father].left_depth - node[father].right_depth
Balanced == Skew \in {-1, 0, 1}

\* "Avoid these two exceptions": a chain of two that turns to the other side.
Zigzag(near, far) ==
    LET f == node[father] IN
    /\ f[near] = Null
    /\ node[f[far]][far] = Null
    /\ LET g == node[node[f[far]][near]] IN g.left = Null /\ g.right = Null

GoUp ==
    /\ pc = "balance" /\ corrections < MaxCorrections /\ Balanced
    /\ node[father].up # Null
    /\ GoTo(node[father].up)

\* Mutant: the new depth is computed before the father has lost his child.
CorrectBefore(heavy, heavyDepth, light, lightDepth) ==
    LET up == node[father][heavy]
    IN  /\ node' = [node EXCEPT
                      ![father][heavyDepth] = node[up][lightDepth],
                      ![up][lightDepth] = 1 + Larger(node[father][heavyDepth], node[father][lightDepth])]
        /\ added' = up /\ child' = father /\ from' = up
        /\ pc' = IF node[father].up = Null THEN "turn" ELSE "lift"

\* The heavier child comes up; its inner subtree goes to the father.
Correct(heavy, heavyDepth, light, lightDepth) ==
    LET up == node[father][heavy]
        d  == node[up][lightDepth]
    IN  /\ node' = [node EXCEPT
                      ![father][heavyDepth] = d,
                      ![up][lightDepth] = 1 + Larger(d, node[father][lightDepth])]
        /\ added' = up /\ child' = father /\ from' = up
        /\ pc' = IF node[father].up = Null THEN "turn" ELSE "lift"

StartCorrection ==
    /\ pc = "balance" /\ corrections < MaxCorrections /\ ~Balanced
    /\ corrections' = IF Zigzag("left", "right") \/ Zigzag("right", "left")
                      THEN MaxCorrections ELSE corrections + 1
    /\ IF Skew > 0 THEN Correct("left", "left_depth", "right", "right_depth")
                   ELSE Correct("right", "right_depth", "left", "left_depth")
    /\ UNCHANGED <<key, top, father>>

LiftedDepths ==
    /\ pc = "lift"
    /\ Lift("turn")
    /\ UNCHANGED corrections

\* Mutant: The inner subtree is left with its old father above it.
TurnedBelow(n, heavy, light) ==
    LET above == node[father].up
        hung  == [node EXCEPT ![father][heavy] = node[n][light], ![father].up = n,
                              ![n][light] = father, ![n].up = above]
    IN  IF above = Null THEN hung
        ELSE [hung EXCEPT ![above].left  = IF @ = father THEN n ELSE @,
                          ![above].right = IF @ = father THEN n ELSE @]

Turned(n, heavy, light) ==
    LET above == node[father].up
        inner == node[n][light]
        hung  == [node EXCEPT ![father][heavy] = inner, ![father].up = n,
                              ![n][light] = father, ![n].up = above]
        below == IF above = Null THEN hung
                 ELSE [hung EXCEPT ![above].left  = IF @ = father THEN n ELSE @,
                                   ![above].right = IF @ = father THEN n ELSE @]
    IN  IF inner = Null THEN below ELSE [below EXCEPT ![inner].up = father]

Side(n) == IF node[father].left = n THEN "left" ELSE "right"

Turn ==
    /\ pc = "turn"
    /\ node' = IF Side(added) = "left" THEN Turned(added, "left", "right")
                                       ELSE Turned(added, "right", "left")
    /\ pc' = "balance"
    /\ UNCHANGED <<key, top, father, added, child, from, corrections>>

Climb ==
    /\ pc = "balance" /\ (corrections >= MaxCorrections \/ (Balanced /\ node[father].up = Null))
    /\ IF node[father].up # Null
       THEN father' = node[father].up /\ UNCHANGED <<top, pc>>
       ELSE top' = father /\ pc' = "idle" /\ UNCHANGED father
    /\ UNCHANGED <<key, node, added, child, from, corrections>>

TreeNext ==
    \/ \E k \in Keys : Add(k)
    \/ Find \/ NewDepths
    \/ GoUp \/ StartCorrection \/ LiftedDepths \/ Turn \/ Climb

TreeSpec == TreeInit /\ [][TreeNext]_treeVars

(***************************************************************************)
(* HTBTree_next.                                                           *)
(***************************************************************************)
Leftmost[n \in DOMAIN node] == IF node[n].left = Null THEN n ELSE Leftmost[node[n].left]

\* Up as long as one comes from the right.
Above[n \in DOMAIN node] ==
    LET up == node[n].up
    IN  IF up # Null /\ node[up].right = n THEN Above[up] ELSE up

Successor(n) ==
    CASE n = Null                         -> IF top = Null THEN Null ELSE Leftmost[top]
      [] n # Null /\ node[n].right # Null -> Leftmost[node[n].right]
      [] OTHER                            -> Above[n]

\* The elements in the order in which they are met.
Walk[i \in 1..Len(key)] == Successor(IF i = 1 THEN Null ELSE Walk[i - 1])

(***************************************************************************)
(* Properties.                                                             *)
(***************************************************************************)
\* A walk with HTBTree_next meets every element once, in the order of the objects, and
\* equal objects in the order in which they were added.
WalkIsSorted ==
    pc = "idle" =>
        /\ \A i \in 1..Len(key) : Walk[i] # Null
        /\ \A i, j \in 1..Len(key) : i < j =>
               \/ key[Walk[i]] < key[Walk[j]]
               \/ key[Walk[i]] = key[Walk[j]] /\ Walk[i] < Walk[j]
        /\ Len(key) > 0 => Successor(Walk[Len(key)]) = Null

\* The depths the tree is balanced by are the ones of the subtrees.
Height[n \in {Null} \cup DOMAIN node] ==
    IF n = Null THEN 0 ELSE 1 + Larger(Height[node[n].left], Height[node[n].right])
DepthsAreHeights ==
    pc = "idle" => \A n \in DOMAIN node : /\ node[n].left_depth = Height[node[n].left]
                                         /\ node[n].right_depth = Height[node[n].right]
==============================================================================
