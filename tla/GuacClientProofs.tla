-------------------------- MODULE GuacClientProofs --------------------------
(***************************************************************************)
(* "All users are always on exactly one of these lists", for any number of *)
(* users and of invocations of the timer; nobody is on the list of users   *)
(* before it has the state of the display; one promotion at a time.        *)
(*                                                                         *)
(* OnOneList is not inductive.  The lists change in several steps under    *)
(* the lock of the pending users, so the lock has to be tied to where the  *)
(* threads stand, and guac_client_free, which empties the lists while the  *)
(* user threads still run, has to be kept away from them.  What is proved  *)
(* of the lists themselves, that unlinking, prepending and joining do to   *)
(* their users what they should, holds for any links; a list is the least  *)
(* set that has its head and follows its links.                            *)
(***************************************************************************)
EXTENDS GuacClient, FiniteSetTheorems, TLAPS

(* Who holds the lock of the pending users across a step.                  *)
Holders ==
    {u \in Users : upc[u] = "unlink"}
    \cup {t \in Timers : tpc[t] \in {"handler", "splice", "release"}}
    \cup (IF fpc \in {"locked", "removing"} THEN {"free"} ELSE {})

Unheld == [flag |-> "none", count |-> 0]
Held == [flag |-> "write", count |-> 1]

(* The locks are where the threads say they are, and nobody shares them.   *)
PendingHeld ==
    /\ \A t \in Threads : pendingLock[t] = IF t \in Holders THEN Held ELSE Unheld
    /\ \A s, t \in Holders : s = t

UsersHeld ==
    \A t \in Threads :
        usersLock[t] = IF t = "free" /\ fpc = "removing" THEN Held ELSE Unheld

(* The state of the timer is what keeps a second promotion from starting.  *)
TimerInv == OnePromotion /\ \A t \in Timers : tpc[t] # "idle" => timer = "triggered"

(* OnOneList in two parts: the lists are sound to the end, and they have   *)
(* the users that are present until guac_client_free removes them.         *)
ListsSound ==
    /\ WellLinked(users) /\ WellLinked(pending)
    /\ Reach(users) \cap Reach(pending) = {}

ListsPresent ==
    fpc \in {"idle", "locked"} =>
        /\ Reach(users) \cup Reach(pending) = Present
        /\ connected = Cardinality(Present)

FreedLast == fpc = "done" => state = "freed"

(* A promotion under way has somebody to promote, and has brought it up to *)
(* date before it joins the lists.                                         *)
PromotionInv ==
    /\ \A t \in Timers : tpc[t] \in {"handler", "splice"} => pending # NULL
    /\ \A t \in Timers : tpc[t] = "splice" => Reach(pending) \subseteq synced
    /\ PromotedSynced

IInv ==
    /\ TypeOK /\ PendingHeld /\ UsersHeld /\ TimerInv
    /\ ListsSound /\ ListsPresent /\ FreedLast /\ PromotionInv

-----------------------------------------------------------------------------
(* Lists, for any links.                                                   *)

Links == [Users -> Users \cup {NULL}]

(* WellLinked, of links forth and back.                                    *)
Linked(forth, back, head) ==
    /\ head # NULL => back[head] = NULL
    /\ \A u \in ReachBy(forth, head) : forth[u] # NULL => back[forth[u]] = u

(* A list has its head and follows its links.                              *)
LEMMA ReachIs ==
    ASSUME NEW forth \in Links, NEW head \in Users \cup {NULL}
    PROVE  /\ ReachBy(forth, head) \subseteq Users
           /\ HeadAndLinks(forth, head, ReachBy(forth, head))
<1> DEFINE R == ReachBy(forth, head)
<1>1. R \subseteq Users
  BY DEF ReachBy
<1>2. head \in R \cup {NULL}
  BY DEF ReachBy, HeadAndLinks
<1>3. ASSUME NEW u \in R  PROVE forth[u] \in R \cup {NULL}
  <2>1. forth[u] \in Users \cup {NULL}
    BY <1>1, <1>3 DEF Links
  <2>2. ASSUME NEW S \in SUBSET Users, HeadAndLinks(forth, head, S), forth[u] # NULL
        PROVE  forth[u] \in S
    <3>1. u \in S
      BY <1>3, <2>2 DEF ReachBy
    <3> QED  BY <3>1, <2>2 DEF HeadAndLinks
  <2> QED  BY <2>1, <2>2 DEF ReachBy
<1> QED  BY <1>1, <1>2, <1>3 DEF HeadAndLinks

(* Whatever has the head and follows the links has the list.               *)
LEMMA ReachLeast ==
    ASSUME NEW forth, NEW head, NEW S \in SUBSET Users, HeadAndLinks(forth, head, S)
    PROVE  ReachBy(forth, head) \subseteq S
BY DEF ReachBy

(* A list without a head is empty.                                         *)
LEMMA ReachNothing == ASSUME NEW forth PROVE ReachBy(forth, NULL) = {}
<1>1. HeadAndLinks(forth, NULL, {})
  BY DEF HeadAndLinks
<1> QED  BY <1>1, {} \in SUBSET Users, ReachLeast

(* Links that agree on a list make the same list.                          *)
LEMMA ReachSame ==
    ASSUME NEW forth \in Links, NEW other \in Links, NEW head \in Users \cup {NULL},
           \A u \in ReachBy(forth, head) : other[u] = forth[u]
    PROVE  ReachBy(other, head) = ReachBy(forth, head)
<1> DEFINE R == ReachBy(forth, head)  O == ReachBy(other, head)
<1>1. /\ R \subseteq Users /\ HeadAndLinks(forth, head, R)
      /\ O \subseteq Users /\ HeadAndLinks(other, head, O)
  BY ReachIs
<1> HIDE DEF R, O
<1>2. HeadAndLinks(other, head, R)
  BY <1>1 DEF HeadAndLinks, R
<1>3. HeadAndLinks(forth, head, R \cap O)
  BY <1>1 DEF HeadAndLinks, R
<1>4. O \subseteq R
  BY <1>1, <1>2, ReachLeast DEF O
<1>5. R \subseteq R \cap O
  BY <1>1, <1>3, R \cap O \in SUBSET Users, ReachLeast DEF R
<1> QED  BY <1>4, <1>5 DEF R, O

(* All but the head are where the link of their predecessor leads.         *)
LEMMA Predecessor ==
    ASSUME NEW forth \in Links, NEW back \in Links, NEW head \in Users \cup {NULL},
           Linked(forth, back, head),
           NEW u \in ReachBy(forth, head), u # head
    PROVE  back[u] \in ReachBy(forth, head) /\ forth[back[u]] = u
<1> DEFINE R == ReachBy(forth, head)
           C == {v \in R : v = head \/ (back[v] \in R /\ forth[back[v]] = v)}
<1>1. R \subseteq Users /\ HeadAndLinks(forth, head, R)
  BY ReachIs
<1>2. HeadAndLinks(forth, head, C)
  <2>1. ASSUME NEW v \in C  PROVE forth[v] \in C \cup {NULL}
    <3>1. v \in R /\ forth[v] \in R \cup {NULL}
      BY <1>1, <2>1 DEF HeadAndLinks
    <3>2. CASE forth[v] # NULL
      <4>1. back[forth[v]] = v
        BY <3>1, <3>2 DEF Linked
      <4> QED  BY <3>1, <3>2, <4>1
    <3> QED  BY <3>2
  <2> QED  BY <1>1, <2>1 DEF HeadAndLinks
<1>3. R \subseteq C
  BY <1>1, <1>2, ReachLeast
<1> QED  BY <1>3

(* guac_client_remove_user tells the head by its having no predecessor.    *)
LEMMA HeadOnly ==
    ASSUME NEW forth \in Links, NEW back \in Links, NEW head \in Users \cup {NULL},
           Linked(forth, back, head), NEW u \in ReachBy(forth, head)
    PROVE  /\ u \in Users /\ u # NULL
           /\ back[u] = NULL <=> u = head
<1>1. u \in Users /\ u # NULL
  BY ReachIs, ClientConsts
<1>2. CASE u = head
  BY <1>1, <1>2 DEF Linked
<1>3. CASE u # head
  <2>1. back[u] \in Users
    BY <1>3, Predecessor, ReachIs
  <2> QED  BY <1>1, <1>3, <2>1, ClientConsts
<1> QED  BY <1>2, <1>3

(* A list whose links lead back has no loop at a user.                     *)
LEMMA NotItsOwn ==
    ASSUME NEW forth \in Links, NEW back \in Links, NEW head \in Users \cup {NULL},
           Linked(forth, back, head), NEW u \in ReachBy(forth, head)
    PROVE  forth[u] # u
<1> DEFINE R == ReachBy(forth, head)
<1>1. R \subseteq Users /\ HeadAndLinks(forth, head, R)
  BY ReachIs
<1>2. u \in Users /\ u # NULL /\ (back[u] = NULL <=> u = head)
  BY HeadOnly
<1>3. SUFFICES ASSUME forth[u] = u PROVE FALSE
  OBVIOUS
<1>4. back[u] = u
  BY <1>2, <1>3 DEF Linked
<1>5. HeadAndLinks(forth, head, R \ {u})
  <2>1. ASSUME NEW v \in R \ {u}  PROVE forth[v] # u
    BY <1>2, <1>4, <2>1 DEF Linked
  <2> QED  BY <1>1, <1>2, <1>4, <2>1 DEF HeadAndLinks
<1>6. R \subseteq R \ {u}
  BY <1>1, <1>5, R \ {u} \in SUBSET Users, ReachLeast
<1> QED  BY <1>6

(* What guac_client_remove_user does to the links and the head of a list.  *)
ForthWithout(forth, back, u) ==
    IF back[u] = NULL THEN forth ELSE [forth EXCEPT ![back[u]] = forth[u]]
BackWithout(forth, back, u) ==
    IF forth[u] = NULL THEN back ELSE [back EXCEPT ![forth[u]] = back[u]]
HeadWithout(forth, head, u) == IF u = head THEN forth[u] ELSE head

(* Removing a user leaves links.                                           *)
LEMMA WithoutTypes ==
    ASSUME NEW forth \in Links, NEW back \in Links, NEW head \in Users \cup {NULL}, NEW u \in Users
    PROVE  /\ ForthWithout(forth, back, u) \in Links
           /\ BackWithout(forth, back, u) \in Links
           /\ HeadWithout(forth, head, u) \in Users \cup {NULL}
BY DEF ForthWithout, BackWithout, HeadWithout, Links

(* Removing a user of a list leaves the others, still well linked.         *)
LEMMA Without ==
    ASSUME NEW forth \in Links, NEW back \in Links, NEW head \in Users \cup {NULL},
           Linked(forth, back, head), NEW u \in ReachBy(forth, head)
    PROVE  LET f == ForthWithout(forth, back, u)
               b == BackWithout(forth, back, u)
               h == HeadWithout(forth, head, u)
           IN /\ ReachBy(f, h) = ReachBy(forth, head) \ {u}
              /\ Linked(f, b, h)
<1> DEFINE f == ForthWithout(forth, back, u)
           b == BackWithout(forth, back, u)
           h == HeadWithout(forth, head, u)
           R == ReachBy(forth, head)
           Q == ReachBy(f, h)
<1>1. R \subseteq Users /\ HeadAndLinks(forth, head, R)
  BY ReachIs
<1>2. u \in Users /\ u # NULL /\ (back[u] = NULL <=> u = head)
  BY HeadOnly
<1>3. f \in Links /\ b \in Links /\ h \in Users \cup {NULL}
  BY <1>2, WithoutTypes
<1>4. Q \subseteq Users /\ HeadAndLinks(f, h, Q)
  BY <1>3, ReachIs
<1>5. forth[u] # u
  BY NotItsOwn
<1>6. ASSUME NEW v \in R, forth[v] = u  PROVE v = back[u] /\ u # head
  BY <1>1, <1>2, <1>6, ClientConsts DEF Linked
<1>7. ASSUME NEW v \in Users, v # back[u]  PROVE f[v] = forth[v]
  BY <1>7 DEF ForthWithout, Links
<1>8. back[u] # NULL => /\ back[u] \in R /\ forth[back[u]] = u
                       /\ f[back[u]] = forth[u]
  <2>1. SUFFICES ASSUME back[u] # NULL PROVE /\ back[u] \in R /\ forth[back[u]] = u
                                             /\ f[back[u]] = forth[u]
    OBVIOUS
  <2>2. back[u] \in R /\ forth[back[u]] = u
    BY <1>2, <2>1, Predecessor
  <2> QED  BY <1>1, <2>1, <2>2 DEF ForthWithout, Links
<1>9. h = IF u = head THEN forth[u] ELSE head
  BY DEF HeadWithout
<1>10. Q \subseteq R \ {u}
  <2>1. HeadAndLinks(f, h, R \ {u})
    <3>1. h \in (R \ {u}) \cup {NULL}
      BY <1>1, <1>5, <1>9 DEF HeadAndLinks
    <3>2. ASSUME NEW v \in R \ {u}  PROVE f[v] \in (R \ {u}) \cup {NULL}
      <4>1. CASE v = back[u]
        <5>1. v \in Users /\ v # NULL
          BY <1>1, <3>2, ClientConsts
        <5> QED  BY <1>1, <1>5, <1>8, <4>1, <5>1 DEF HeadAndLinks
      <4>2. CASE v # back[u]
        BY <1>1, <1>6, <1>7, <3>2, <4>2 DEF HeadAndLinks
      <4> QED  BY <4>1, <4>2
    <3> QED  BY <3>1, <3>2 DEF HeadAndLinks
  <2> HIDE DEF R, f, h
  <2> QED  BY <1>1, <2>1, R \ {u} \in SUBSET Users, ReachLeast
<1>11. R \ {u} \subseteq Q
  <2> DEFINE C == IF u = head \/ back[u] \in Q THEN Q \cup {u} ELSE Q
  <2>1. HeadAndLinks(forth, head, C)
    <3>1. head \in C \cup {NULL}
      BY <1>4, <1>9 DEF HeadAndLinks
    <3>2. ASSUME NEW v \in Q  PROVE forth[v] \in C \cup {NULL}
      <4>1. v \in R
        BY <1>10, <3>2
      <4>2. CASE forth[v] = u
        BY <1>6, <3>2, <4>1, <4>2
      <4>3. CASE forth[v] # u
        <5>1. v # back[u]
          BY <1>8, <4>1, <4>3, <1>1, ClientConsts
        <5>2. f[v] \in Q \cup {NULL}
          BY <1>4, <3>2 DEF HeadAndLinks
        <5> QED  BY <1>1, <1>7, <4>1, <5>1, <5>2
      <4> QED  BY <4>2, <4>3
    <3>3. u \in C => forth[u] \in C \cup {NULL}
      <4>1. u \notin Q
        BY <1>10
      <4>2. CASE u = head
        BY <1>4, <1>9, <4>2 DEF HeadAndLinks
      <4>3. CASE back[u] \in Q
        <5>1. f[back[u]] \in Q \cup {NULL}
          BY <1>4, <4>3 DEF HeadAndLinks
        <5>2. back[u] # NULL
          BY <1>4, <4>3, ClientConsts
        <5> QED  BY <1>8, <5>1, <5>2
      <4> QED  BY <4>1, <4>2, <4>3
    <3> QED  BY <3>1, <3>2, <3>3 DEF HeadAndLinks
  <2>2. C \in SUBSET Users
    BY <1>2, <1>4
  <2>3. R \subseteq C
    BY <2>1, <2>2, ReachLeast
  <2> QED  BY <2>3
<1>12. Linked(f, b, h)
  <2>1. ASSUME NEW w \in Users, w # forth[u]  PROVE b[w] = back[w]
    BY <2>1 DEF BackWithout, Links
  <2>2. forth[u] # NULL => b[forth[u]] = back[u]
    BY <1>2 DEF BackWithout, Links
  <2>3. ASSUME h # NULL PROVE b[h] = NULL
    <3>1. CASE u = head
      BY <1>2, <1>9, <2>2, <2>3, <3>1
    <3>2. CASE u # head
      <4>1. back[head] = NULL
        BY <1>9, <2>3, <3>2 DEF Linked
      <4>2. head # forth[u]
        BY <1>2, <1>9, <2>3, <3>2, <4>1 DEF Linked
      <4> QED  BY <1>9, <2>1, <2>3, <3>2, <4>1, <4>2
    <3> QED  BY <3>1, <3>2
  <2>4. ASSUME NEW v \in Q, f[v] # NULL  PROVE b[f[v]] = v
    <3>1. v \in R \ {u}
      BY <1>10, <2>4
    <3>2. CASE v = back[u]
      <4>1. back[u] # NULL
        BY <1>1, <3>1, <3>2, ClientConsts
      <4> QED  BY <1>8, <2>2, <2>4, <3>2, <4>1
    <3>3. CASE v # back[u]
      <4>1. f[v] = forth[v]
        BY <1>1, <1>7, <3>1, <3>3
      <4>2. back[forth[v]] = v
        BY <2>4, <3>1, <4>1 DEF Linked
      <4>3. forth[v] \in Users /\ forth[v] # forth[u]
        BY <1>1, <2>4, <3>1, <4>1, <4>2 DEF Linked, Links
      <4> QED  BY <2>1, <4>1, <4>2, <4>3
    <3> QED  BY <3>2, <3>3
  <2> HIDE DEF f, b, h
  <2> QED  BY <2>3, <2>4 DEF Linked
<1> QED  BY <1>10, <1>11, <1>12

(* A list that is disjoint from what changes stays as it is.               *)
LEMMA Elsewhere ==
    ASSUME NEW forth \in Links, NEW f \in Links, NEW back \in Links, NEW b \in Links,
           NEW head \in Users \cup {NULL}, Linked(forth, back, head),
           \A v \in ReachBy(forth, head) : f[v] = forth[v] /\ b[v] = back[v]
    PROVE  ReachBy(f, head) = ReachBy(forth, head) /\ Linked(f, b, head)
<1> DEFINE R == ReachBy(forth, head)
<1>1. R \subseteq Users /\ HeadAndLinks(forth, head, R)
  BY ReachIs
<1>2. ReachBy(f, head) = R
  BY ReachSame
<1>3. Linked(f, b, head)
  BY <1>1, <1>2 DEF Linked, HeadAndLinks
<1> QED  BY <1>2, <1>3

(* Removing a user of one list leaves the other list as it is.             *)
LEMMA WithoutElsewhere ==
    ASSUME NEW forth \in Links, NEW back \in Links,
           NEW head \in Users \cup {NULL}, Linked(forth, back, head),
           NEW h \in Users \cup {NULL}, Linked(forth, back, h),
           ReachBy(forth, head) \cap ReachBy(forth, h) = {},
           NEW u \in ReachBy(forth, head)
    PROVE  LET f == ForthWithout(forth, back, u)
               b == BackWithout(forth, back, u)
           IN ReachBy(f, h) = ReachBy(forth, h) /\ Linked(f, b, h)
<1> DEFINE f == ForthWithout(forth, back, u)
           b == BackWithout(forth, back, u)
           R == ReachBy(forth, head)
           Q == ReachBy(forth, h)
<1>1. /\ R \subseteq Users /\ HeadAndLinks(forth, head, R)
      /\ Q \subseteq Users
  BY ReachIs
<1>2. u \in Users /\ u # NULL /\ (back[u] = NULL <=> u = head)
  BY HeadOnly
<1>3. f \in Links /\ b \in Links
  BY <1>2, WithoutTypes
<1>4. back[u] \in R \cup {NULL} /\ forth[u] \in R \cup {NULL}
  <2>1. back[u] \in R \cup {NULL}
    BY <1>2, Predecessor
  <2> QED  BY <1>1, <2>1 DEF HeadAndLinks
<1>5. ASSUME NEW v \in Q  PROVE f[v] = forth[v] /\ b[v] = back[v]
  <2>1. v \in Users /\ v # NULL /\ v # back[u] /\ v # forth[u]
    BY <1>1, <1>4, ClientConsts
  <2> QED  BY <2>1 DEF ForthWithout, BackWithout, Links
<1> HIDE DEF f, b
<1> QED  BY <1>3, <1>5, Elsewhere DEF f, b

(* What guac_client_add_pending_user does.                                 *)
BackWith(back, head, u) ==
    [v \in Users |-> IF v = u THEN NULL ELSE IF v = head THEN u ELSE back[v]]

(* Adding a user leaves links.                                             *)
LEMMA WithTypes ==
    ASSUME NEW forth \in Links, NEW back \in Links, NEW head \in Users \cup {NULL}, NEW u \in Users
    PROVE  [forth EXCEPT ![u] = head] \in Links /\ BackWith(back, head, u) \in Links
BY DEF BackWith, Links

(* A user put before the head of a list it is not on is its new head.      *)
LEMMA With ==
    ASSUME NEW forth \in Links, NEW back \in Links, NEW head \in Users \cup {NULL},
           Linked(forth, back, head), NEW u \in Users, u \notin ReachBy(forth, head)
    PROVE  LET f == [forth EXCEPT ![u] = head]
               b == BackWith(back, head, u)
           IN /\ ReachBy(f, u) = ReachBy(forth, head) \cup {u}
              /\ Linked(f, b, u)
<1> DEFINE f == [forth EXCEPT ![u] = head]
           b == BackWith(back, head, u)
           R == ReachBy(forth, head)
           Q == ReachBy(f, u)
<1>1. R \subseteq Users /\ HeadAndLinks(forth, head, R)
  BY ReachIs
<1>2. f \in Links /\ b \in Links
  BY WithTypes
<1>3. f[u] = head /\ \A v \in Users : v # u => f[v] = forth[v]
  BY DEF Links
<1>4. Q \subseteq Users /\ HeadAndLinks(f, u, Q)
  BY <1>2, ReachIs
<1>5. u # NULL
  BY ClientConsts
<1> HIDE DEF f, R, Q
<1>6. HeadAndLinks(f, u, R \cup {u})
  BY <1>1, <1>3 DEF HeadAndLinks, R
<1>7. Q \subseteq R \cup {u}
  BY <1>1, <1>6, R \cup {u} \in SUBSET Users, ReachLeast DEF Q
<1>8. HeadAndLinks(forth, head, Q \ {u})
  <2>1. head \in Q \cup {NULL} /\ u \in Q
    BY <1>3, <1>4, <1>5 DEF HeadAndLinks
  <2>2. head # u
    BY <1>1, <1>5 DEF HeadAndLinks, R
  <2>3. ASSUME NEW v \in Q \ {u}  PROVE forth[v] \in (Q \ {u}) \cup {NULL}
    <3>1. v \in R
      BY <1>7, <2>3
    <3>2. forth[v] # u
      BY <1>1, <1>5, <3>1 DEF HeadAndLinks, R
    <3> QED  BY <1>3, <1>4, <2>3, <3>2 DEF HeadAndLinks
  <2> QED  BY <2>1, <2>2, <2>3 DEF HeadAndLinks
<1>9. R \subseteq Q \ {u}
  BY <1>4, <1>8, Q \ {u} \in SUBSET Users, ReachLeast DEF R
<1>10. u \in Q
  BY <1>4, <1>5 DEF HeadAndLinks
<1>11. Linked(f, b, u)
  <2>1. \A v \in Users : b[v] = IF v = u THEN NULL ELSE IF v = head THEN u ELSE back[v]
    BY DEF BackWith
  <2>2. ASSUME NEW v \in Q, f[v] # NULL  PROVE b[f[v]] = v
    <3>1. CASE v = u
      <4>1. head \in R
        BY <1>1, <1>3, <2>2, <3>1 DEF HeadAndLinks
      <4>2. head \in Users /\ head # u
        BY <1>1, <4>1 DEF R
      <4> QED  BY <1>3, <2>1, <3>1, <4>2
    <3>2. CASE v # u
      <4>1. v \in R /\ forth[v] = f[v] /\ v # NULL
        BY <1>1, <1>3, <1>7, <2>2, <3>2, ClientConsts
      <4>2. forth[v] \in R /\ back[forth[v]] = v
        BY <1>1, <2>2, <4>1 DEF Linked, HeadAndLinks, R
      <4>3. forth[v] \in Users /\ forth[v] # u /\ forth[v] # head
        BY <1>1, <2>2, <4>1, <4>2 DEF Linked, R
      <4> QED  BY <2>1, <4>1, <4>2, <4>3
    <3> QED  BY <3>1, <3>2
  <2> HIDE DEF b
  <2> QED  BY <2>1, <2>2 DEF Linked, Q
<1> QED  BY <1>7, <1>9, <1>10, <1>11 DEF f, R, Q

(* A list that is not empty ends.                                          *)
LEMMA LastExists ==
    ASSUME NEW forth \in Links, NEW back \in Links, NEW head \in Users,
           Linked(forth, back, head)
    PROVE  \E u \in ReachBy(forth, head) : forth[u] = NULL
<1> DEFINE R == ReachBy(forth, head)
<1>1. R \subseteq Users /\ HeadAndLinks(forth, head, R)
  BY ReachIs
<1>2. head \in R /\ head # NULL
  BY <1>1, ClientConsts DEF HeadAndLinks
<1>3. SUFFICES ASSUME \A u \in R : forth[u] # NULL  PROVE FALSE
  OBVIOUS
<1> DEFINE g == [u \in R |-> forth[u]]
<1>4. \A u \in R : forth[u] \in R /\ back[forth[u]] = u
  BY <1>1, <1>3 DEF HeadAndLinks, Linked
<1>5. \A u \in R : forth[u] # head
  BY <1>1, <1>2, <1>4, ClientConsts DEF Linked
<1>6. IsFiniteSet(R) /\ IsFiniteSet(R \ {head})
  BY <1>1, ClientConsts, FS_Subset, FS_RemoveElement
<1>7. Cardinality(R \ {head}) = Cardinality(R) - 1 /\ Cardinality(R) \in Nat
  BY <1>2, <1>6, FS_RemoveElement, FS_CardinalityType
<1>8. g \in [R -> R \ {head}]
  BY <1>4, <1>5
<1>9. PICK x, y \in R : x # y /\ g[x] = g[y]
  <2> HIDE DEF R, g
  <2>1. Cardinality(R \ {head}) < Cardinality(R)
    BY <1>7
  <2> QED  BY <1>6, <1>8, <2>1, FS_PigeonHole
<1> QED  BY <1>4, <1>9

(* What guac_client_promote_pending_users does.                            *)
ForthJoined(forth, last, q) == [forth EXCEPT ![last] = q]
BackJoined(back, last, q) == IF q = NULL THEN back ELSE [back EXCEPT ![q] = last]

(* The first list, its end linked to the head of the second, has both.     *)
LEMMA Joined ==
    ASSUME NEW forth \in Links, NEW back \in Links,
           NEW p \in Users, Linked(forth, back, p),
           NEW q \in Users \cup {NULL}, Linked(forth, back, q),
           ReachBy(forth, p) \cap ReachBy(forth, q) = {},
           NEW last \in ReachBy(forth, p), forth[last] = NULL
    PROVE  LET f == ForthJoined(forth, last, q)
               b == BackJoined(back, last, q)
           IN /\ f \in Links /\ b \in Links
              /\ ReachBy(f, p) = ReachBy(forth, p) \cup ReachBy(forth, q)
              /\ Linked(f, b, p)
<1> DEFINE f == ForthJoined(forth, last, q)
           b == BackJoined(back, last, q)
           P == ReachBy(forth, p)
           Q == ReachBy(forth, q)
           R == ReachBy(f, p)
<1>1. /\ P \subseteq Users /\ HeadAndLinks(forth, p, P)
      /\ Q \subseteq Users /\ HeadAndLinks(forth, q, Q)
  BY ReachIs
<1>2. f \in Links /\ b \in Links
  BY <1>1 DEF Links, ForthJoined, BackJoined
<1>3. f[last] = q /\ \A v \in Users : v # last => f[v] = forth[v]
  BY <1>1 DEF Links, ForthJoined
<1>4. R \subseteq Users /\ HeadAndLinks(f, p, R)
  BY <1>2, ReachIs
<1>5. last \in Users /\ last # NULL /\ last \notin Q /\ p # NULL
  BY <1>1, ClientConsts
<1>6. b \in Links /\ \A v \in Users : b[v] = IF v = q THEN last ELSE back[v]
  BY <1>1, <1>2, ClientConsts DEF Links, BackJoined
<1> HIDE DEF f, b, P, Q, R
<1>7. HeadAndLinks(f, p, P \cup Q)
  BY <1>1, <1>3, <1>5 DEF HeadAndLinks
<1>8. R \subseteq P \cup Q
  BY <1>1, <1>7, P \cup Q \in SUBSET Users, ReachLeast DEF R
<1>9. P \subseteq R
  <2>1. HeadAndLinks(forth, p, R)
    BY <1>3, <1>4, <1>5 DEF HeadAndLinks
  <2> QED  BY <1>4, <2>1, ReachLeast DEF P
<1>10. Q \subseteq R
  <2>1. q \in R \cup {NULL}
    BY <1>3, <1>4, <1>9 DEF HeadAndLinks, P
  <2>2. HeadAndLinks(forth, q, R)
    BY <1>3, <1>4, <1>5, <2>1 DEF HeadAndLinks
  <2> QED  BY <1>4, <2>2, ReachLeast DEF Q
<1>11. Linked(f, b, p)
  <2>1. p # q
    BY <1>1, <1>5 DEF HeadAndLinks, P, Q
  <2>2. b[p] = NULL
    BY <1>5, <1>6, <2>1 DEF Linked
  <2>3. ASSUME NEW v \in P, f[v] # NULL  PROVE b[f[v]] = v
    <3>1. CASE v = last
      BY <1>3, <1>6, <2>3, <3>1
    <3>2. CASE v # last
      <4>1. f[v] = forth[v] /\ forth[v] \in P /\ back[forth[v]] = v
        BY <1>1, <1>3, <2>3, <3>2 DEF HeadAndLinks, Linked, P
      <4>2. forth[v] # q /\ forth[v] \in Users
        BY <1>1, <2>3, <4>1 DEF HeadAndLinks, P, Q
      <4> QED  BY <1>6, <4>1, <4>2
    <3> QED  BY <3>1, <3>2
  <2>4. ASSUME NEW v \in Q, f[v] # NULL  PROVE b[f[v]] = v
    <3>1. f[v] = forth[v] /\ forth[v] \in Q /\ back[forth[v]] = v
      BY <1>1, <1>3, <1>5, <2>4 DEF HeadAndLinks, Linked, Q
    <3>2. forth[v] # q /\ forth[v] \in Users
      BY <1>1, <2>4, <3>1, ClientConsts DEF HeadAndLinks, Linked, Q
    <3> QED  BY <1>6, <3>1, <3>2
  <2> QED  BY <1>8, <2>2, <2>3, <2>4 DEF Linked, R
<1> QED  BY <1>2, <1>8, <1>9, <1>10, <1>11 DEF f, b, P, Q, R

-----------------------------------------------------------------------------
(* The steps that change the lists.                                        *)

ListTypes ==
    next \in Links /\ prev \in Links /\ users \in Users \cup {NULL} /\ pending \in Users \cup {NULL}

(* The lists of the client are lists of the kind above.                    *)
LEMMA TheLists ==
    /\ TypeOK => ListTypes
    /\ ListsSound <=> /\ Linked(next, prev, users) /\ Linked(next, prev, pending)
                      /\ ReachBy(next, users) \cap ReachBy(next, pending) = {}
    /\ ListsSound' <=> /\ Linked(next', prev', users') /\ Linked(next', prev', pending')
                       /\ ReachBy(next', users') \cap ReachBy(next', pending') = {}
    /\ Reach(users)' = ReachBy(next', users') /\ Reach(pending)' = ReachBy(next', pending')
BY DEF ListsSound, WellLinked, Linked, Reach, TypeOK, ListTypes, Links

(* Unlink takes its user from the list it is on, and leaves the other.     *)
LEMMA UnlinkTakes ==
    ASSUME ListTypes, ListsSound, NEW u \in Reach(users) \cup Reach(pending), Unlink(u)
    PROVE  /\ ListsSound'
           /\ Reach(users)' = Reach(users) \ {u}
           /\ Reach(pending)' = Reach(pending) \ {u}
<1> DEFINE f == ForthWithout(next, prev, u)
           b == BackWithout(next, prev, u)
<1>1. next' = f /\ prev' = b
  BY DEF Unlink, ForthWithout, BackWithout
<1>2. CASE u \in Reach(users)
  <2>1. (prev[u] = NULL <=> u = users) /\ u \notin Reach(pending) /\ u # NULL
    BY <1>2, HeadOnly, TheLists DEF ListTypes, Reach
  <2>2. pending # u
    BY <2>1, ReachIs DEF ListTypes, Reach, HeadAndLinks
  <2>3. users' = HeadWithout(next, users, u) /\ pending' = pending
    BY <2>1, <2>2 DEF Unlink, HeadWithout
  <2>4. ReachBy(f, users') = Reach(users) \ {u} /\ Linked(f, b, users')
    BY <1>2, <2>3, Without, TheLists DEF ListTypes, Reach
  <2>5. ReachBy(f, pending') = Reach(pending) /\ Linked(f, b, pending')
    BY <1>2, <2>3, WithoutElsewhere, TheLists DEF ListTypes, Reach
  <2> QED  BY <1>1, <2>1, <2>4, <2>5, TheLists DEF Reach
<1>3. CASE u \in Reach(pending)
  <2>1. (prev[u] = NULL <=> u = pending) /\ u \notin Reach(users) /\ u # NULL
    BY <1>3, HeadOnly, TheLists DEF ListTypes, Reach
  <2>2. users # u
    BY <2>1, ReachIs DEF ListTypes, Reach, HeadAndLinks
  <2>3. pending' = HeadWithout(next, pending, u) /\ users' = users
    BY <2>1, <2>2 DEF Unlink, HeadWithout
  <2>4. ReachBy(f, pending') = Reach(pending) \ {u} /\ Linked(f, b, pending')
    BY <1>3, <2>3, Without, TheLists DEF ListTypes, Reach
  <2>5. ReachBy(f, users') = Reach(users) /\ Linked(f, b, users')
    BY <1>3, <2>3, WithoutElsewhere, TheLists DEF ListTypes, Reach
  <2> QED  BY <1>1, <2>1, <2>4, <2>5, TheLists DEF Reach
<1> QED  BY <1>2, <1>3

(* A user that is on neither list becomes the first of the pending.        *)
LEMMA AddAdds ==
    ASSUME ListTypes, ListsSound, NEW u \in Users, AddPending(u),
           u \notin Reach(users) \cup Reach(pending)
    PROVE  /\ ListsSound'
           /\ Reach(users)' = Reach(users)
           /\ Reach(pending)' = Reach(pending) \cup {u}
<1> DEFINE f == [next EXCEPT ![u] = pending]
           b == BackWith(prev, pending, u)
<1>1. next' = f /\ prev' = b /\ users' = users /\ pending' = u
  BY DEF AddPending, BackWith
<1>2. f \in Links /\ b \in Links
  BY WithTypes DEF ListTypes
<1>3. ReachBy(f, u) = Reach(pending) \cup {u} /\ Linked(f, b, u)
  BY With, TheLists DEF ListTypes, Reach
<1>4. ASSUME NEW v \in Reach(users)  PROVE f[v] = next[v] /\ b[v] = prev[v]
  <2>1. v \in Users /\ v # u /\ v \notin Reach(pending)
    BY <1>4, TheLists, ReachIs DEF ListTypes, ListsSound, Reach
  <2>2. v # pending
    BY <2>1, ReachIs, ClientConsts DEF ListTypes, Reach, HeadAndLinks
  <2> QED  BY <2>1, <2>2 DEF ListTypes, Links, BackWith
<1> HIDE DEF f, b
<1>5. ReachBy(f, users) = Reach(users) /\ Linked(f, b, users)
  BY <1>2, <1>4, Elsewhere, TheLists DEF ListTypes, Reach
<1>6. Reach(users) \cap (Reach(pending) \cup {u}) = {}
  BY DEF ListsSound
<1> QED  BY <1>1, <1>3, <1>5, <1>6, TheLists

(* The pending users go before the users, and nobody is pending any more.  *)
LEMMA SpliceJoins ==
    ASSUME ListTypes, ListsSound, NEW t, PromoteSplice(t), pending # NULL
    PROVE  /\ ListsSound'
           /\ next' \in Links /\ prev' \in Links
           /\ Reach(users)' = Reach(users) \cup Reach(pending)
           /\ Reach(pending)' = {}
<1> DEFINE last == CHOOSE u \in Reach(pending) : next[u] = NULL
           f == ForthJoined(next, last, users)
           b == BackJoined(prev, last, users)
<1>1. last \in Reach(pending) /\ next[last] = NULL
  <2>1. \E u \in Reach(pending) : next[u] = NULL
    BY LastExists, TheLists DEF ListTypes, Reach
  <2> QED  BY <2>1
<1>2. next' = f /\ prev' = b /\ users' = pending /\ pending' = NULL
  BY DEF PromoteSplice, ForthJoined, BackJoined
<1> HIDE DEF last
<1>3. /\ f \in Links /\ b \in Links
      /\ ReachBy(f, pending) = Reach(pending) \cup Reach(users)
      /\ Linked(f, b, pending)
  <2>1. /\ ReachBy(next, pending) \cap ReachBy(next, users) = {}
        /\ last \in ReachBy(next, pending)
        /\ next \in Links /\ prev \in Links
        /\ pending \in Users /\ users \in Users \cup {NULL}
        /\ Linked(next, prev, pending) /\ Linked(next, prev, users)
    BY <1>1, TheLists DEF ListTypes, Reach
  <2> QED  BY <1>1, <2>1, Joined DEF Reach
<1> HIDE DEF f, b
<1>4. ReachBy(f, NULL) = {} /\ Linked(f, b, NULL)
  BY ReachNothing DEF Linked
<1> QED  BY <1>2, <1>3, <1>4, TheLists

-----------------------------------------------------------------------------
(* Types.                                                                  *)

LockStates == [Threads -> [flag : Flags, count : Nat]]

(* Giving a lock back keeps its type.                                      *)
LEMMA ReleaseType ==
    ASSUME NEW lock \in LockStates, NEW t \in Threads
    PROVE  Release(lock, t) \in LockStates
<1>1. lock[t] \in [flag : Flags, count : Nat]
  BY DEF LockStates
<1> DEFINE r == CASE lock[t].count = 0 -> lock[t]
                  [] lock[t].count = 1 -> [flag |-> "none", count |-> 0]
                  [] OTHER -> [flag |-> lock[t].flag, count |-> lock[t].count - 1]
<1>2. r \in [flag : Flags, count : Nat]
  <2>1. CASE lock[t].count = 0
    BY <1>1, <2>1
  <2>2. CASE lock[t].count = 1
    BY <2>2 DEF Flags
  <2>3. CASE lock[t].count # 0 /\ lock[t].count # 1
    <3>1. lock[t].count - 1 \in Nat /\ lock[t].flag \in Flags
      BY <1>1, <2>3
    <3>2. r = [flag |-> lock[t].flag, count |-> lock[t].count - 1]
      BY <2>3
    <3> QED  BY <3>1, <3>2
  <2> QED  BY <2>1, <2>2, <2>3
<1>3. Release(lock, t) = [lock EXCEPT ![t] = r]
  BY Zenon DEF Release
<1> HIDE DEF r
<1> QED  BY <1>2, <1>3 DEF LockStates

(* A user's thread keeps the types.                                        *)
LEMMA TypeUser ==
    ASSUME TypeOK, NEW u \in Users, UserStep(u) \/ OwnBegin(u) \/ StopUser(u)
    PROVE  TypeOK'
<1> USE DEF TypeOK, Goto, UserPc, listVars, lockVars, socketVars, timerVars, Threads
<1>1. CASE StartTimer(u)
  BY <1>1 DEF StartTimer
<1>2. CASE JoinHandler(u)
  BY <1>2 DEF JoinHandler
<1>3. CASE AddPending(u)
  BY <1>3 DEF AddPending
<1>4. CASE SetOwner(u)
  BY <1>4 DEF SetOwner
<1>5. CASE InputEnds(u)
  BY <1>5 DEF InputEnds
<1>6. CASE OwnEnd(u)
  BY <1>6 DEF OwnEnd, WriteTail, WriteHead
<1>7. CASE RemoveBegin(u)
  BY <1>7 DEF RemoveBegin, AcquireWrite, Flags
<1>8. CASE RemoveUnlink(u)
  <2>1. /\ next' \in [Users -> Users \cup {NULL}] /\ prev' \in [Users -> Users \cup {NULL}]
        /\ {users', pending', owner'} \subseteq Users \cup {NULL} /\ connected' \in Int
    BY <1>8 DEF RemoveUnlink, Unlink
  <2>2. pendingLock' \in [Threads -> [flag : Flags, count : Nat]]
    BY <1>8, ReleaseType DEF RemoveUnlink, LockStates
  <2>3. upc' \in [Users -> UserPc]
    BY <1>8 DEF RemoveUnlink
  <2> QED  BY Zenon, <1>8, <2>1, <2>2, <2>3 DEF RemoveUnlink
<1>9. CASE RemoveLeave(u)
  BY <1>9 DEF RemoveLeave
<1>10. CASE OwnBegin(u)
  BY <1>10 DEF OwnBegin, WriteHead
<1>11. CASE StopUser(u)
  BY <1>11 DEF StopUser
<1> QED  BY <1>1, <1>2, <1>3, <1>4, <1>5, <1>6, <1>7, <1>8, <1>9, <1>10, <1>11 DEF UserStep

(* A promotion keeps the types; there is somebody to promote.              *)
LEMMA TypeTimer ==
    ASSUME TypeOK, ListsSound, PromotionInv, NEW t \in Timers, TimerFires(t) \/ PromoteStep(t)
    PROVE  TypeOK'
<1> USE DEF TypeOK, TimerGoto, TimerPc, listVars, lockVars, socketVars, timerVars, Threads
<1>1. CASE TimerFires(t)
  BY <1>1 DEF TimerFires
<1>2. CASE PromoteBegin(t)
  BY <1>2 DEF PromoteBegin, AcquireWrite, Flags
<1>3. CASE PromoteHandler(t)
  <2>1. Reach(pending) \subseteq Users
    BY DEF Reach, ReachBy
  <2> QED  BY <1>3, <2>1 DEF PromoteHandler
<1>4. CASE PromoteSplice(t)
  <2>1. pending # NULL
    BY <1>4 DEF PromoteSplice, PromotionInv
  <2>2. next' \in Links /\ prev' \in Links
    BY <1>4, <2>1, SpliceJoins, TheLists
  <2>3. tpc' \in [Timers -> TimerPc] /\ {users', pending', owner'} \subseteq Users \cup {NULL}
    BY <1>4 DEF PromoteSplice
  <2> QED  BY Zenon, <1>4, <2>2, <2>3 DEF PromoteSplice, Links
<1>5. CASE PromoteRelease(t)
  BY <1>5, ReleaseType DEF PromoteRelease, LockStates
<1>6. CASE PromoteRearm(t)
  BY <1>6 DEF PromoteRearm
<1> QED  BY <1>1, <1>2, <1>3, <1>4, <1>5, <1>6 DEF PromoteStep

(* So do the broadcast, guac_client_stop and guac_client_free.             *)
LEMMA TypeClient ==
    ASSUME TypeOK, StopClient \/ BroadcastLock \/ BroadcastGoesOn \/ FreeStep
    PROVE  TypeOK'
<1> USE DEF TypeOK, BroadcastStep, listVars, lockVars, socketVars, timerVars, Threads
<1>1. CASE StopClient
  BY <1>1 DEF StopClient
<1>2. CASE BroadcastLock
  BY <1>2 DEF BroadcastLock
<1>3. CASE BroadcastHead
  BY <1>3 DEF BroadcastHead, WriteHead
<1>4. CASE BroadcastTail
  BY <1>4 DEF BroadcastTail, WriteTail, WriteHead
<1>5. CASE BroadcastUnlock
  BY <1>5 DEF BroadcastUnlock
<1>6. CASE FreeBegin
  BY <1>6 DEF FreeBegin, AcquireWrite, Flags
<1>7. CASE FreeLockUsers
  BY <1>7 DEF FreeLockUsers, AcquireWrite, Flags
<1>8. CASE FreeRemove
  BY <1>8 DEF FreeRemove, Unlink
<1>9. CASE FreeDone
  BY <1>9, ReleaseType DEF FreeDone, LockStates
<1> QED  BY <1>1, <1>2, <1>3, <1>4, <1>5, <1>6, <1>7, <1>8, <1>9 DEF BroadcastGoesOn, FreeStep

(* Every step keeps the types.                                             *)
LEMMA TypeStep == TypeOK /\ ListsSound /\ PromotionInv /\ [Next]_vars => TypeOK'
<1> SUFFICES ASSUME TypeOK, ListsSound, PromotionInv, [Next]_vars  PROVE TypeOK'
  OBVIOUS
<1>1. CASE UNCHANGED vars
  BY <1>1 DEF vars, TypeOK, listVars, lockVars, socketVars, timerVars
<1> QED  BY Zenon, <1>1, TypeUser, TypeTimer, TypeClient DEF Next

-----------------------------------------------------------------------------
(* The locks.                                                              *)

(* Who could take the lock of the pending users finds nobody in it.        *)
LEMMA NobodyElse ==
    ASSUME TypeOK, PendingHeld, NEW t \in Threads, t \notin Holders, CanWrite(pendingLock, t)
    PROVE  Holders = {}
<1>1. Holders \subseteq Threads
  BY DEF Holders, Threads
<1>2. DOMAIN pendingLock = Threads
  BY DEF TypeOK
<1>3. pendingLock[t] = Unheld
  BY DEF PendingHeld
<1>4. \A s \in Threads \ {t} : pendingLock[s].flag = "none"
  BY <1>2, <1>3 DEF CanWrite, Unheld
<1> QED  BY <1>1, <1>4 DEF PendingHeld, Held

(* A thread that takes the lock becomes its only holder.                   *)
LEMMA PendingTaken ==
    ASSUME TypeOK, PendingHeld, NEW t \in Threads, t \notin Holders, CanWrite(pendingLock, t),
           pendingLock' = AcquireWrite(pendingLock, t), Holders' = Holders \cup {t}
    PROVE  PendingHeld'
<1>1. Holders = {}
  BY NobodyElse
<1>2. pendingLock \in [Threads -> [flag : Flags, count : Nat]] /\ pendingLock[t] = Unheld
  BY DEF TypeOK, PendingHeld
<1>3. pendingLock' = [pendingLock EXCEPT ![t] = Held]
  BY <1>2 DEF AcquireWrite, Unheld, Held
<1> QED  BY <1>1, <1>2, <1>3 DEF PendingHeld

(* A thread that gives the lock back leaves it to nobody.                  *)
LEMMA PendingGiven ==
    ASSUME TypeOK, PendingHeld, NEW t \in Threads, t \in Holders,
           pendingLock' = Release(pendingLock, t), Holders' = Holders \ {t}
    PROVE  PendingHeld'
<1>1. Holders = {t}
  BY DEF PendingHeld
<1>2. pendingLock \in [Threads -> [flag : Flags, count : Nat]] /\ pendingLock[t] = Held
  BY DEF TypeOK, PendingHeld
<1>3. pendingLock' = [pendingLock EXCEPT ![t] = Unheld]
  BY <1>2 DEF Release, Unheld, Held
<1> QED  BY <1>1, <1>2, <1>3 DEF PendingHeld

(* The lock and its holders are left alone.                                *)
LEMMA PendingKept ==
    PendingHeld /\ UNCHANGED pendingLock /\ Holders' = Holders => PendingHeld'
BY DEF PendingHeld

(* Every step takes the lock of the pending users, gives it back or leaves *)
(* it and those who hold it.                                               *)
LEMMA PendingHeldStep == TypeOK /\ PendingHeld /\ [Next]_vars => PendingHeld'
<1> SUFFICES ASSUME TypeOK, PendingHeld, [Next]_vars  PROVE PendingHeld'
  OBVIOUS
<1> USE DEF Holders, Goto, TimerGoto, lockVars, timerVars, TypeOK
<1>1. ASSUME NEW u \in Users,
             \/ StartTimer(u) \/ JoinHandler(u) \/ AddPending(u) \/ SetOwner(u)
             \/ InputEnds(u) \/ OwnEnd(u) \/ RemoveLeave(u) \/ OwnBegin(u) \/ StopUser(u)
      PROVE  PendingHeld'
  <2>1. UNCHANGED <<pendingLock, tpc, fpc>>
    BY <1>1 DEF StartTimer, JoinHandler, AddPending, SetOwner, InputEnds, OwnEnd, RemoveLeave,
                OwnBegin, StopUser
  <2>2. \A v \in Users : upc'[v] = "unlink" <=> upc[v] = "unlink"
    BY <1>1 DEF StartTimer, JoinHandler, AddPending, SetOwner, InputEnds, OwnEnd, RemoveLeave,
                OwnBegin, StopUser
  <2> QED  BY <2>1, <2>2, PendingKept
<1>2. ASSUME NEW u \in Users, RemoveBegin(u)  PROVE PendingHeld'
  <2>1. u \in Threads /\ u \notin Holders /\ Holders' = Holders \cup {u}
    BY <1>2, ClientConsts DEF RemoveBegin, Threads
  <2> QED  BY <1>2, <2>1, PendingTaken DEF RemoveBegin
<1>3. ASSUME NEW u \in Users, RemoveUnlink(u)  PROVE PendingHeld'
  <2>1. u \in Threads /\ u \in Holders /\ Holders' = Holders \ {u}
    BY <1>3, ClientConsts DEF RemoveUnlink, Threads
  <2> QED  BY <1>3, <2>1, PendingGiven DEF RemoveUnlink
<1>4. ASSUME NEW t \in Timers,
             TimerFires(t) \/ PromoteHandler(t) \/ PromoteSplice(t) \/ PromoteRearm(t)
      PROVE  PendingHeld'
  <2>1. UNCHANGED <<pendingLock, upc, fpc>>
    BY <1>4 DEF TimerFires, PromoteHandler, PromoteSplice, PromoteRearm
  <2>2. \A s \in Timers : tpc'[s] \in {"handler", "splice", "release"}
                              <=> tpc[s] \in {"handler", "splice", "release"}
    BY <1>4 DEF TimerFires, PromoteHandler, PromoteSplice, PromoteRearm
  <2> QED  BY <2>1, <2>2, PendingKept
<1>5. ASSUME NEW t \in Timers, PromoteBegin(t)  PROVE PendingHeld'
  <2>1. t \in Threads /\ t \notin Holders /\ Holders' = Holders \cup {t}
    BY <1>5, ClientConsts DEF PromoteBegin, Threads
  <2> QED  BY <1>5, <2>1, PendingTaken DEF PromoteBegin
<1>6. ASSUME NEW t \in Timers, PromoteRelease(t)  PROVE PendingHeld'
  <2>1. t \in Threads /\ t \in Holders /\ Holders' = Holders \ {t}
    BY <1>6, ClientConsts DEF PromoteRelease, Threads
  <2> QED  BY <1>6, <2>1, PendingGiven DEF PromoteRelease
<1>7. CASE StopClient \/ BroadcastLock \/ BroadcastGoesOn \/ FreeRemove
  BY <1>7, PendingKept DEF StopClient, BroadcastLock, BroadcastGoesOn, BroadcastHead,
       BroadcastTail, BroadcastUnlock, BroadcastStep, FreeRemove
<1>8. CASE FreeBegin
  <2>1. "free" \in Threads /\ "free" \notin Holders /\ Holders' = Holders \cup {"free"}
    BY <1>8, ClientConsts DEF FreeBegin, Threads
  <2> QED  BY <1>8, <2>1, PendingTaken DEF FreeBegin
<1>9. CASE FreeLockUsers
  BY <1>9, PendingKept DEF FreeLockUsers
<1>10. CASE FreeDone
  <2>1. "free" \in Threads /\ "free" \in Holders /\ Holders' = Holders \ {"free"}
    BY <1>10, ClientConsts DEF FreeDone, Threads
  <2> QED  BY <1>10, <2>1, PendingGiven DEF FreeDone
<1>11. CASE UNCHANGED vars
  BY <1>11, PendingKept DEF vars
<1> QED  BY Zenon, <1>1, <1>2, <1>3, <1>4, <1>5, <1>6, <1>7, <1>8, <1>9, <1>10, <1>11
         DEF Next, UserStep, PromoteStep, FreeStep

(* Only guac_client_free takes the lock of the users across a step.        *)
LEMMA UsersHeldStep == TypeOK /\ UsersHeld /\ [Next]_vars => UsersHeld'
<1> SUFFICES ASSUME TypeOK, UsersHeld, [Next]_vars  PROVE UsersHeld'
  OBVIOUS
<1>1. usersLock \in [Threads -> [flag : Flags, count : Nat]] /\ "free" \in Threads
  BY DEF TypeOK, Threads
<1>2. CASE FreeLockUsers
  <2>1. usersLock["free"] = Unheld
    BY <1>1, <1>2 DEF UsersHeld, FreeLockUsers
  <2>2. usersLock' = [usersLock EXCEPT !["free"] = Held] /\ fpc' = "removing"
    BY <1>1, <1>2, <2>1 DEF FreeLockUsers, AcquireWrite, Unheld, Held
  <2> QED  BY <1>1, <2>2 DEF UsersHeld
<1>3. CASE FreeDone
  <2>1. usersLock["free"] = Held
    BY <1>1, <1>3 DEF UsersHeld, FreeDone
  <2>2. usersLock' = [usersLock EXCEPT !["free"] = Unheld] /\ fpc' = "done"
    BY <1>1, <1>3, <2>1 DEF FreeDone, Release, Unheld, Held
  <2> QED  BY <1>1, <2>2 DEF UsersHeld
<1>4. CASE UNCHANGED usersLock /\ (fpc' = "removing" <=> fpc = "removing")
  BY <1>4 DEF UsersHeld
<1>5. ASSUME ~FreeLockUsers, ~FreeDone
      PROVE  UNCHANGED usersLock /\ (fpc' = "removing" <=> fpc = "removing")
  <2> USE DEF lockVars
  <2>1. ASSUME NEW u \in Users, UserStep(u) \/ OwnBegin(u) \/ StopUser(u)
        PROVE  UNCHANGED <<usersLock, fpc>>
    BY <2>1 DEF UserStep, OwnBegin, StopUser, StartTimer, JoinHandler, AddPending, SetOwner, InputEnds,
                OwnEnd, RemoveBegin, RemoveUnlink, RemoveLeave
  <2>2. ASSUME NEW t \in Timers, TimerFires(t) \/ PromoteStep(t)
        PROVE  UNCHANGED <<usersLock, fpc>>
    BY <2>2 DEF TimerFires, PromoteStep, PromoteBegin, PromoteHandler, PromoteSplice,
                PromoteRelease, PromoteRearm
  <2>3. CASE StopClient \/ BroadcastLock \/ BroadcastGoesOn
    BY <2>3 DEF StopClient, BroadcastLock, BroadcastGoesOn, BroadcastHead, BroadcastTail,
                BroadcastUnlock, BroadcastStep
  <2>4. CASE FreeStep
    BY <1>5, <2>4 DEF FreeStep, FreeBegin, FreeRemove
  <2>5. CASE UNCHANGED vars
    BY <2>5 DEF vars
  <2> QED  BY <2>1, <2>2, <2>3, <2>4, <2>5 DEF Next
<1> QED  BY <1>2, <1>3, <1>4, <1>5

-----------------------------------------------------------------------------
(* The timer.                                                              *)

LEMMA TimerStep == TypeOK /\ TimerInv /\ [Next]_vars => TimerInv'
<1> SUFFICES ASSUME TypeOK, TimerInv, [Next]_vars  PROVE TimerInv'
  OBVIOUS
<1> USE DEF TimerInv, OnePromotion, TimerGoto, TypeOK, timerVars
<1>1. ASSUME NEW u \in Users, StartTimer(u)  PROVE TimerInv'
  BY <1>1 DEF StartTimer
<1>2. ASSUME NEW u \in Users, UserStep(u) \/ OwnBegin(u) \/ StopUser(u), ~StartTimer(u)
      PROVE  TimerInv'
  <2>1. UNCHANGED <<timer, tpc>>
    BY <1>2 DEF UserStep, OwnBegin, StopUser, JoinHandler, AddPending, SetOwner, InputEnds,
                OwnEnd, RemoveBegin, RemoveUnlink, RemoveLeave
  <2> QED  BY <2>1
<1>3. ASSUME NEW t \in Timers, TimerFires(t)  PROVE TimerInv'
  <2>1. CASE timer = "triggered"
    BY <1>3, <2>1 DEF TimerFires
  <2>2. CASE timer # "triggered"
    BY <1>3, <2>2 DEF TimerFires
  <2> QED  BY <2>1, <2>2
<1>4. ASSUME NEW t \in Timers, PromoteStep(t), ~PromoteRearm(t)  PROVE TimerInv'
  <2>1. /\ timer' = timer /\ tpc[t] # "idle"
        /\ \A s \in Timers : s # t => tpc'[s] = tpc[s]
    BY <1>4 DEF PromoteStep, PromoteBegin, PromoteHandler, PromoteSplice, PromoteRelease
  <2> QED  BY <2>1
<1>5. ASSUME NEW t \in Timers, PromoteRearm(t)  PROVE TimerInv'
  <2>1. \A s \in Timers : tpc'[s] = "idle"
    BY <1>5 DEF PromoteRearm
  <2> QED  BY <2>1
<1>6. CASE StopClient \/ BroadcastLock \/ BroadcastGoesOn \/ FreeStep \/ UNCHANGED vars
  <2>1. UNCHANGED <<timer, tpc>>
    BY <1>6 DEF StopClient, BroadcastLock, BroadcastGoesOn, BroadcastHead, BroadcastTail,
                BroadcastUnlock, BroadcastStep, FreeStep, FreeBegin, FreeLockUsers, FreeRemove,
                FreeDone, vars
  <2> QED  BY <2>1
<1> QED  BY Zenon, <1>1, <1>2, <1>3, <1>4, <1>5, <1>6 DEF Next

-----------------------------------------------------------------------------
(* The lists.                                                              *)

(* The steps that leave the lists alone, and who is present.               *)
AsideStep ==
    \/ \E u \in Users : \/ StartTimer(u) \/ JoinHandler(u) \/ SetOwner(u) \/ InputEnds(u)
                        \/ OwnEnd(u) \/ RemoveBegin(u) \/ RemoveLeave(u)
                        \/ OwnBegin(u) \/ StopUser(u)
    \/ \E t \in Timers : \/ TimerFires(t) \/ PromoteBegin(t) \/ PromoteHandler(t)
                         \/ PromoteRelease(t) \/ PromoteRearm(t)
    \/ StopClient \/ BroadcastLock \/ BroadcastGoesOn
    \/ FreeBegin \/ FreeLockUsers \/ FreeDone

(* A step, as the proofs about the lists take it apart.                    *)
LEMMA NextCases ==
    Next <=> \/ \E u \in Users : AddPending(u) \/ RemoveUnlink(u)
             \/ \E t \in Timers : PromoteSplice(t)
             \/ FreeRemove \/ AsideStep
BY Zenon DEF Next, UserStep, PromoteStep, FreeStep, AsideStep

(* Joining, running and leaving do not change the lists.                   *)
LEMMA AsideLeaves ==
    TypeOK /\ AsideStep => UNCHANGED listVars /\ Present' = Present
<1> SUFFICES ASSUME TypeOK, AsideStep  PROVE UNCHANGED listVars /\ Present' = Present
  OBVIOUS
<1>1. ASSUME NEW u \in Users,
             \/ StartTimer(u) \/ JoinHandler(u) \/ SetOwner(u) \/ InputEnds(u)
             \/ OwnEnd(u) \/ RemoveBegin(u) \/ RemoveLeave(u) \/ OwnBegin(u) \/ StopUser(u)
      PROVE  UNCHANGED listVars /\ Present' = Present
  <2> USE DEF Goto, TypeOK
  <2>1. UNCHANGED listVars
    BY <1>1 DEF StartTimer, JoinHandler, SetOwner, InputEnds, OwnEnd, RemoveBegin, RemoveLeave,
                OwnBegin, StopUser
  <2>2. \A v \in Users : upc'[v] \in {"owner", "run", "own", "remove", "unlink"}
                             <=> upc[v] \in {"owner", "run", "own", "remove", "unlink"}
    BY <1>1 DEF StartTimer, JoinHandler, SetOwner, InputEnds, OwnEnd, RemoveBegin, RemoveLeave,
                OwnBegin, StopUser
  <2> QED  BY <2>1, <2>2 DEF Present
<1>2. ASSUME UNCHANGED upc  PROVE Present' = Present
  BY <1>2 DEF Present
<1>3. ASSUME NEW t \in Timers,
             \/ TimerFires(t) \/ PromoteBegin(t) \/ PromoteHandler(t)
             \/ PromoteRelease(t) \/ PromoteRearm(t)
      PROVE  UNCHANGED listVars /\ Present' = Present
  BY <1>2, <1>3 DEF TimerFires, PromoteBegin, PromoteHandler, PromoteRelease, PromoteRearm
<1>4. CASE StopClient \/ BroadcastLock \/ BroadcastGoesOn
  BY <1>2, <1>4 DEF StopClient, BroadcastLock, BroadcastGoesOn, BroadcastHead, BroadcastTail,
       BroadcastUnlock, BroadcastStep
<1>5. CASE FreeBegin \/ FreeLockUsers \/ FreeDone
  BY <1>2, <1>5 DEF FreeBegin, FreeLockUsers, FreeDone
<1> QED  BY <1>1, <1>3, <1>4, <1>5 DEF AsideStep

(* Lists that are left alone have the same users.                          *)
LEMMA ListsSame ==
    UNCHANGED <<next, prev, users, pending>> =>
        /\ ListsSound' <=> ListsSound
        /\ Reach(users)' = Reach(users) /\ Reach(pending)' = Reach(pending)
BY DEF ListsSound, WellLinked, Reach, ReachBy, HeadAndLinks

(* Who is about to add or remove a user finds guac_client_free not begun.  *)
LEMMA AddAlone ==
    ASSUME TypeOK, PendingHeld, FreedLast, NEW u \in Users, AddPending(u)
    PROVE  Holders = {} /\ fpc = "idle"
<1>1. u \in Threads /\ u \notin Holders
  BY ClientConsts DEF Threads, Holders, AddPending, Goto
<1>2. Holders = {}
  BY <1>1, NobodyElse DEF AddPending
<1>3. fpc \notin {"locked", "removing"}
  BY <1>2 DEF Holders
<1> QED  BY <1>2, <1>3 DEF AddPending, FreedLast, TypeOK

(* Who removes or promotes users finds guac_client_free not begun.         *)
LEMMA HolderAlone ==
    ASSUME TypeOK, PendingHeld, FreedLast, NEW t \in Users \cup Timers, t \in Holders, state # "freed"
    PROVE  Holders = {t} /\ fpc = "idle"
<1>1. Holders = {t}
  BY DEF PendingHeld
<1>2. fpc \notin {"locked", "removing"}
  BY <1>1, ClientConsts DEF Holders
<1> QED  BY <1>1, <1>2 DEF FreedLast, TypeOK

(* The present can be counted.                                             *)
LEMMA PresentFinite == IsFiniteSet(Present) /\ Cardinality(Present) \in Nat
BY FS_Subset, FS_CardinalityType, ClientConsts DEF Present

ListsInv == ListsSound /\ ListsPresent

(* Every step keeps the lists sound and counts who is on them.             *)
LEMMA ListsStep ==
    TypeOK /\ PendingHeld /\ FreedLast /\ ListsInv /\ PromotionInv /\ [Next]_vars => ListsInv'
<1> SUFFICES ASSUME TypeOK, PendingHeld, FreedLast, ListsInv, PromotionInv, [Next]_vars
             PROVE  ListsInv'
  OBVIOUS
<1> USE DEF ListsInv
<1>1. ListTypes
  BY TheLists
<1>2. ASSUME NEW u \in Users, AddPending(u)  PROVE ListsInv'
  <2>1. fpc = "idle" /\ fpc' = "idle"
    BY <1>2, AddAlone DEF AddPending
  <2>2. u \notin Present /\ Present' = Present \cup {u}
    BY <1>2 DEF AddPending, Goto, Present, TypeOK
  <2>3. u \notin Reach(users) \cup Reach(pending)
    BY <2>1, <2>2 DEF ListsPresent
  <2>4. /\ ListsSound' /\ Reach(users)' = Reach(users)
        /\ Reach(pending)' = Reach(pending) \cup {u}
    BY <1>1, <1>2, <2>3, AddAdds
  <2>5. connected' = Cardinality(Present')
    <3>1. Cardinality(Present \cup {u}) = Cardinality(Present) + 1
      BY <2>2, PresentFinite, FS_AddElement
    <3> QED  BY <1>2, <2>1, <2>2, <3>1 DEF AddPending, ListsPresent
  <2>6. Reach(users)' \cup Reach(pending)' = Present'
    BY <2>1, <2>2, <2>4 DEF ListsPresent
  <2> QED  BY <2>4, <2>5, <2>6 DEF ListsPresent
<1>3. ASSUME NEW u \in Users, RemoveUnlink(u)  PROVE ListsInv'
  <2>1. fpc = "idle"
    BY <1>3, HolderAlone DEF RemoveUnlink, Goto, Holders
  <2>2. u \in Present /\ Present' = Present \ {u}
    BY <1>3 DEF RemoveUnlink, Goto, Present, TypeOK
  <2>3. u \in Reach(users) \cup Reach(pending)
    BY <2>1, <2>2 DEF ListsPresent
  <2>4. /\ ListsSound' /\ Reach(users)' = Reach(users) \ {u}
        /\ Reach(pending)' = Reach(pending) \ {u}
    BY <1>1, <1>3, <2>3, UnlinkTakes DEF RemoveUnlink
  <2>5. connected' = Cardinality(Present')
    <3>1. Cardinality(Present \ {u}) = Cardinality(Present) - 1
      BY <2>2, PresentFinite, FS_RemoveElement
    <3> QED  BY <1>3, <2>1, <2>2, <3>1 DEF RemoveUnlink, Unlink, ListsPresent
  <2>6. Reach(users)' \cup Reach(pending)' = Present'
    BY <2>1, <2>2, <2>4 DEF ListsPresent
  <2> QED  BY <2>4, <2>5, <2>6 DEF ListsPresent
<1>4. ASSUME NEW t \in Timers, PromoteSplice(t)  PROVE ListsInv'
  <2>1. pending # NULL
    BY <1>4 DEF PromoteSplice, TimerGoto, PromotionInv
  <2>2. /\ ListsSound' /\ Reach(users)' = Reach(users) \cup Reach(pending)
        /\ Reach(pending)' = {}
    BY <1>1, <1>4, <2>1, SpliceJoins
  <2>3. UNCHANGED <<upc, fpc, connected>>
    BY <1>4 DEF PromoteSplice
  <2>4. Present' = Present
    BY <2>3 DEF Present
  <2> QED  BY <2>2, <2>3, <2>4 DEF ListsPresent
<1>5. CASE FreeRemove
  <2> DEFINE u == IF pending # NULL THEN pending ELSE users
  <2>1. u \in Reach(users) \cup Reach(pending)
    BY <1>1, <1>5, ReachIs DEF FreeRemove, ListTypes, Reach, HeadAndLinks
  <2>2. Unlink(u) /\ fpc' = "removing"
    BY <1>5 DEF FreeRemove
  <2> HIDE DEF u
  <2>3. ListsSound'
    BY <1>1, <2>1, <2>2, UnlinkTakes
  <2> QED  BY <2>2, <2>3 DEF ListsPresent
<1>6. CASE AsideStep
  <2>1. UNCHANGED listVars /\ Present' = Present
    BY <1>6, AsideLeaves
  <2>2. fpc' \in {"idle", "locked"} => fpc \in {"idle", "locked"}
    BY <1>6 DEF AsideStep, StartTimer, JoinHandler, SetOwner, InputEnds, OwnEnd, RemoveBegin,
                RemoveLeave, OwnBegin, StopUser, TimerFires, PromoteBegin, PromoteHandler,
                PromoteRelease, PromoteRearm, StopClient, BroadcastLock, BroadcastGoesOn,
                BroadcastHead, BroadcastTail, BroadcastUnlock, BroadcastStep, FreeBegin,
                FreeLockUsers, FreeDone
  <2> QED  BY <2>1, <2>2, ListsSame DEF ListsPresent, listVars
<1>7. CASE UNCHANGED vars
  <2>1. Present' = Present
    BY <1>7 DEF Present, vars
  <2> QED  BY <1>7, <2>1, ListsSame DEF ListsPresent, listVars, vars
<1> QED  BY <1>2, <1>3, <1>4, <1>5, <1>6, <1>7, NextCases

(* The client is freed when guac_client_free is done with it, and stays so.*)
LEMMA FreedStep == FreedLast /\ [Next]_vars => FreedLast'
<1> SUFFICES ASSUME FreedLast, [Next]_vars  PROVE FreedLast'
  OBVIOUS
<1> USE DEF FreedLast
<1>1. ASSUME NEW u \in Users, UserStep(u) \/ OwnBegin(u) \/ StopUser(u)
      PROVE  UNCHANGED <<state, fpc>>
  BY <1>1 DEF UserStep, OwnBegin, StopUser, StartTimer, JoinHandler, AddPending, SetOwner, InputEnds,
              OwnEnd, RemoveBegin, RemoveUnlink, RemoveLeave
<1>2. ASSUME NEW t \in Timers, TimerFires(t) \/ PromoteStep(t)
      PROVE  UNCHANGED <<state, fpc>>
  BY <1>2 DEF TimerFires, PromoteStep, PromoteBegin, PromoteHandler, PromoteSplice,
              PromoteRelease, PromoteRearm
<1>3. CASE StopClient \/ BroadcastLock \/ BroadcastGoesOn
  BY <1>3 DEF StopClient, BroadcastLock, BroadcastGoesOn, BroadcastHead, BroadcastTail,
              BroadcastUnlock, BroadcastStep
<1>4. CASE FreeStep
  BY <1>4 DEF FreeStep, FreeBegin, FreeLockUsers, FreeRemove, FreeDone
<1>5. CASE UNCHANGED vars
  BY <1>5 DEF vars
<1> QED  BY <1>1, <1>2, <1>3, <1>4, <1>5 DEF Next

(* Whoever removes a user does it while nobody promotes: the lock of the   *)
(* pending users is held by one thread.  A promotion that has brought the  *)
(* pending users up to date moves just those.                              *)
LEMMA PromotionStep ==
    /\ TypeOK /\ PendingHeld /\ FreedLast /\ ListsInv /\ PromotionInv /\ [Next]_vars
    => PromotionInv'
<1> SUFFICES ASSUME TypeOK, PendingHeld, FreedLast, ListsInv, PromotionInv, [Next]_vars
             PROVE  PromotionInv'
  OBVIOUS
<1> USE DEF PromotionInv, PromotedSynced
<1>1. ListTypes
  BY TheLists
<1>2. ASSUME NEW u \in Users, AddPending(u)  PROVE PromotionInv'
  <2>1. Holders = {} /\ fpc = "idle"
    BY <1>2, AddAlone
  <2>2. \A t \in Timers : tpc'[t] \notin {"handler", "splice"}
    BY <1>2, <2>1 DEF AddPending, timerVars, Holders
  <2>3. u \notin Reach(users) \cup Reach(pending)
    BY <1>2, <2>1 DEF AddPending, Goto, ListsInv, ListsPresent, Present
  <2>4. Reach(users)' = Reach(users) /\ synced' = synced
    BY <1>1, <1>2, <2>3, AddAdds DEF AddPending, timerVars, ListsInv
  <2> QED  BY <2>2, <2>4
<1>3. ASSUME NEW u \in Users, RemoveUnlink(u)  PROVE PromotionInv'
  <2>1. Holders = {u} /\ fpc = "idle"
    BY <1>3, HolderAlone DEF RemoveUnlink, Goto, Holders
  <2>2. \A t \in Timers : tpc'[t] \notin {"handler", "splice"}
    BY <1>3, <2>1, ClientConsts DEF RemoveUnlink, timerVars, Holders
  <2>3. u \in Reach(users) \cup Reach(pending)
    BY <1>3, <2>1 DEF RemoveUnlink, Goto, ListsInv, ListsPresent, Present
  <2>4. Reach(users)' = Reach(users) \ {u} /\ synced' = synced
    BY <1>1, <1>3, <2>3, UnlinkTakes DEF RemoveUnlink, timerVars, ListsInv
  <2> QED  BY <2>2, <2>4
<1>4. ASSUME NEW t \in Timers, PromoteSplice(t)  PROVE PromotionInv'
  <2>1. t \in Holders /\ \A s \in Holders : s = t
    BY <1>4 DEF PromoteSplice, TimerGoto, Holders, PendingHeld
  <2>2. \A s \in Timers : tpc'[s] \notin {"handler", "splice"}
    BY <1>4, <2>1 DEF PromoteSplice, TimerGoto, Holders, TypeOK
  <2>3. pending # NULL /\ Reach(pending) \subseteq synced
    BY <1>4 DEF PromoteSplice, TimerGoto
  <2>4. Reach(users)' = Reach(users) \cup Reach(pending) /\ synced' = synced
    BY <1>1, <1>4, <2>3, SpliceJoins DEF PromoteSplice, ListsInv
  <2> QED  BY <2>2, <2>3, <2>4
<1>5. CASE FreeRemove
  <2> DEFINE u == IF pending # NULL THEN pending ELSE users
  <2>1. \A t \in Timers : tpc'[t] \notin {"handler", "splice"}
    BY <1>5, ClientConsts DEF FreeRemove, timerVars, Holders, PendingHeld
  <2>2. u \in Reach(users) \cup Reach(pending)
    BY <1>1, <1>5, ReachIs DEF FreeRemove, ListTypes, Reach, HeadAndLinks
  <2>3. Unlink(u) /\ synced' = synced
    BY <1>5 DEF FreeRemove, timerVars
  <2> HIDE DEF u
  <2>4. Reach(users)' = Reach(users) \ {u}
    BY <1>1, <2>2, <2>3, UnlinkTakes DEF ListsInv
  <2> QED  BY <2>1, <2>3, <2>4
<1>6. ASSUME UNCHANGED listVars, UNCHANGED <<tpc, synced>>  PROVE PromotionInv'
  BY <1>6, ListsSame DEF listVars
<1>7. ASSUME NEW t \in Timers,
             TimerFires(t) \/ PromoteBegin(t) \/ PromoteRelease(t) \/ PromoteRearm(t)
      PROVE  PromotionInv'
  <2>1. UNCHANGED listVars /\ UNCHANGED synced
    BY <1>7 DEF TimerFires, PromoteBegin, PromoteRelease, PromoteRearm
  <2>2. \A s \in Timers : /\ tpc'[s] = "splice" => tpc[s] = "splice"
                          /\ tpc'[s] = "handler" => tpc[s] = "handler" \/ pending # NULL
    BY <1>7 DEF TimerFires, PromoteBegin, PromoteRelease, PromoteRearm, TimerGoto, TypeOK
  <2>3. /\ Reach(users)' = Reach(users) /\ Reach(pending)' = Reach(pending)
        /\ pending' = pending /\ synced' = synced
    BY <2>1, ListsSame DEF listVars
  <2> QED  BY <2>2, <2>3
<1>8. ASSUME NEW t \in Timers, PromoteHandler(t)  PROVE PromotionInv'
  <2>1. UNCHANGED listVars /\ tpc[t] = "handler"
    BY <1>8 DEF PromoteHandler, TimerGoto
  <2>2. \A s \in Timers : tpc'[s] \in {"handler", "splice"} => tpc[s] \in {"handler", "splice"}
    BY <1>8 DEF PromoteHandler, TimerGoto, TypeOK
  <2>3. synced \subseteq synced'
    BY <1>8 DEF PromoteHandler
  <2>4. tpc'[t] = "splice" => Reach(pending) \subseteq synced'
    BY <1>8 DEF PromoteHandler, TimerGoto, TypeOK
  <2>5. \A s \in Timers : tpc'[s] = "splice" => s = t
    <3>1. t \in Holders
      BY <2>1 DEF Holders
    <3> QED  BY <1>8, <2>2, <3>1 DEF Holders, PendingHeld
  <2> QED  BY <2>1, <2>2, <2>3, <2>4, <2>5, ListsSame DEF listVars
<1>9. CASE AsideStep
  <2>1. UNCHANGED listVars
    BY <1>9, AsideLeaves
  <2>2. ASSUME NEW u \in Users,
               \/ StartTimer(u) \/ JoinHandler(u) \/ SetOwner(u) \/ InputEnds(u)
               \/ OwnEnd(u) \/ RemoveBegin(u) \/ RemoveLeave(u) \/ OwnBegin(u) \/ StopUser(u)
        PROVE  UNCHANGED <<tpc, synced>>
    BY <2>2 DEF StartTimer, JoinHandler, SetOwner, InputEnds, OwnEnd, RemoveBegin, RemoveLeave,
                OwnBegin, StopUser, timerVars
  <2>3. ASSUME StopClient \/ BroadcastLock \/ BroadcastGoesOn
               \/ FreeBegin \/ FreeLockUsers \/ FreeDone
        PROVE  UNCHANGED <<tpc, synced>>
    BY <2>3 DEF StopClient, BroadcastLock, BroadcastGoesOn, BroadcastHead, BroadcastTail,
                BroadcastUnlock, BroadcastStep, FreeBegin, FreeLockUsers, FreeDone, timerVars
  <2> QED  BY <1>6, <1>7, <1>8, <1>9, <2>1, <2>2, <2>3 DEF AsideStep
<1>10. CASE UNCHANGED vars
  BY <1>6, <1>10 DEF vars, timerVars
<1> QED  BY <1>2, <1>3, <1>4, <1>5, <1>9, <1>10, NextCases

-----------------------------------------------------------------------------
(* The theorems.                                                           *)

LEMMA Initially == Init => IInv
<1> SUFFICES ASSUME Init  PROVE IInv
  OBVIOUS
<1> USE DEF Init
<1>1. TypeOK
  BY DEF TypeOK, UserPc, TimerPc, NewLock, Flags
<1>2. Holders = {}
  BY DEF Holders
<1>3. PendingHeld /\ UsersHeld
  BY <1>2 DEF PendingHeld, UsersHeld, NewLock, Unheld
<1>4. Reach(users) = {} /\ Reach(pending) = {}
  BY ReachNothing DEF Reach
<1>5. ListsSound
  BY <1>4 DEF ListsSound, WellLinked
<1>6. Present = {}
  BY DEF Present
<1>7. ListsPresent
  BY <1>4, <1>6, FS_EmptySet DEF ListsPresent
<1> QED  BY <1>1, <1>3, <1>4, <1>5, <1>7
         DEF IInv, TimerInv, OnePromotion, FreedLast, PromotionInv, PromotedSynced

(* No step leaves the invariant.                                           *)
LEMMA Inductive == IInv /\ [Next]_vars => IInv'
<1> SUFFICES ASSUME IInv, [Next]_vars  PROVE IInv'
  OBVIOUS
<1>1. TypeOK'
  BY TypeStep DEF IInv
<1>2. PendingHeld' /\ UsersHeld'
  BY PendingHeldStep, UsersHeldStep DEF IInv
<1>3. TimerInv'
  BY TimerStep DEF IInv
<1>4. ListsSound' /\ ListsPresent'
  BY ListsStep DEF IInv, ListsInv
<1>5. FreedLast'
  BY FreedStep DEF IInv
<1>6. PromotionInv'
  BY PromotionStep DEF IInv, ListsInv
<1> QED  BY <1>1, <1>2, <1>3, <1>4, <1>5, <1>6 DEF IInv

(* The invariant holds in every reachable state.                           *)
LEMMA Invariance == Spec => []IInv
BY Initially, Inductive, PTL DEF Spec

(* The types, for any users and timers.                                    *)
THEOREM TypeCorrect == Spec => []TypeOK
<1>1. IInv => TypeOK
  BY DEF IInv
<1> QED  BY Invariance, <1>1, PTL

(* client.c: the users are always on exactly one of the two lists while    *)
(* they are present, and on none before and after; the links lead back and *)
(* forth; connected_users is the number of those present.                  *)
THEOREM AlwaysOnOneList == Spec => []OnOneList
<1>1. IInv => OnOneList
  BY DEF IInv, ListsSound, ListsPresent, OnOneList
<1> QED  BY Invariance, <1>1, PTL

(* guac_client_promote_pending_users: a user on the list that broadcasts   *)
(* go to has been given the state of the display.                          *)
THEOREM StateBeforeUpdates == Spec => []PromotedSynced
<1>1. IInv => PromotedSynced
  BY DEF IInv, PromotionInv
<1> QED  BY Invariance, <1>1, PTL

(* guac_client_promote_pending_users: however often the timer fires, a     *)
(* promotion is over before the next begins.                               *)
THEOREM NoSecondPromotion == Spec => []OnePromotion
<1>1. IInv => OnePromotion
  BY DEF IInv, TimerInv
<1> QED  BY Invariance, <1>1, PTL

(* libguac/rwlock.c as this program uses it: a thread that has a lock for  *)
(* writing has it alone.                                                   *)
THEOREM LocksExclude == Spec => [](Exclusive(pendingLock) /\ Exclusive(usersLock))
<1>1. IInv => Exclusive(pendingLock) /\ Exclusive(usersLock)
  BY DEF IInv, TypeOK, PendingHeld, UsersHeld, Exclusive, Held, Unheld
<1> QED  BY Invariance, <1>1, PTL
=============================================================================
