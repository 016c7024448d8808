------------------------------- MODULE GistButton -------------------------------
(***************************************************************************)
(* The gist button of an answer (handleCreateGistButton in                 *)
(* internal/app/interactions.go; gist.go, api_keys.go): whoever presses it *)
(* is told the URL of a gist with the answer's text.  The gist is created  *)
(* while no lock is held, so presses meet, and the answer's node may be    *)
(* evicted and made again in between.                                      *)
(*                                                                         *)
(* Gists are numbered as GitHub creates them; the number is the URL.       *)
(***************************************************************************)
EXTENDS Integers

CONSTANTS
    Presses,    \* presses of the button
    Keys,       \* GitHub tokens configured; without any, one anonymous attempt
    MaxObjects  \* bound: nodes made for the answer

ASSUME GistAssumption == Keys \in Nat /\ MaxObjects \in Nat \ {0}

VARIABLES
    current,  \* the node that the store has for the answer, 0 if none
    made,     \* nodes made for it so far
    ready,    \* per node: initialized, with a text
    url,      \* per node: gistURL, 0 if none
    gists,    \* gists created on GitHub so far
    press,    \* per press: "idle", "creating", "created", "failed", "told" or "refused"
    node,     \* per press: the node that it found
    left,     \* per press: tokens not tried yet
    gist,     \* per press: the gist that it created
    told      \* per press: the URL in the response, 0 if none

gistVars == <<current, made, ready, url, gists, press, node, left, gist, told>>

Nodes == 1 .. MaxObjects

GistInit ==
    /\ current = 1 /\ made = 1
    /\ ready = [n \in Nodes |-> FALSE]
    /\ url = [n \in Nodes |-> 0]
    /\ gists = 0
    /\ press = [p \in Presses |-> "idle"]
    /\ node = [p \in Presses |-> 1]
    /\ left = [p \in Presses |-> 0]
    /\ gist = [p \in Presses |-> 0]
    /\ told = [p \in Presses |-> 0]

Tell(p, u) ==
    /\ press' = [press EXCEPT ![p] = "told"]
    /\ told' = [told EXCEPT ![p] = u]

Refuse(p) == press' = [press EXCEPT ![p] = "refused"] /\ told' = told

\* The answer's node is evicted and, when a later message's chain passes the
\* answer, made again (store.go:86, 121) and filled.
Evict ==
    /\ current # 0
    /\ current' = 0
    /\ UNCHANGED <<made, ready, url, gists, press, node, left, gist, told>>

Recreate ==
    /\ current = 0 /\ made < MaxObjects
    /\ made' = made + 1 /\ current' = made + 1
    /\ UNCHANGED <<ready, url, gists, press, node, left, gist, told>>

Fill ==
    /\ current # 0 /\ ~ready[current]
    /\ ready' = [ready EXCEPT ![current] = TRUE]
    /\ UNCHANGED <<current, made, url, gists, press, node, left, gist, told>>

\* The node is read under its lock: a known URL is told at once; without the node
\* or its text the press is refused, and so it is if the deferred response fails.
Press(p) ==
    /\ press[p] = "idle"
    /\ IF current = 0 THEN Refuse(p) /\ UNCHANGED <<node, left>>
       ELSE /\ node' = [node EXCEPT ![p] = current]
            /\ \/ url[current] # 0 /\ Tell(p, url[current]) /\ left' = left
               \/ url[current] = 0 /\ Refuse(p) /\ left' = left
               \/ /\ url[current] = 0 /\ ready[current]
                  /\ press' = [press EXCEPT ![p] = "creating"]
                  /\ left' = [left EXCEPT ![p] = IF Keys = 0 THEN 1 ELSE Keys]
                  /\ told' = told
    /\ UNCHANGED <<current, made, ready, url, gists, gist>>

\* tryAllAPIKeys, createGistWithKey: a token succeeds, fails, or its gist is
\* created and the response lost or unreadable; then the next one is tried.
Attempt(p) ==
    /\ press[p] = "creating"
    /\ left' = [left EXCEPT ![p] = @ - 1]
    /\ \/ /\ gists' = gists + 1
          /\ gist' = [gist EXCEPT ![p] = gists + 1]
          /\ press' = [press EXCEPT ![p] = "created"]
       \/ /\ gists' \in {gists, gists + 1}
          /\ press' = [press EXCEPT ![p] = IF left[p] = 1 THEN "failed" ELSE "creating"]
          /\ gist' = gist
    /\ UNCHANGED <<current, made, ready, url, node, told>>

\* Mutant: the URL is stored without looking again.
Store_Blind(p) ==
    /\ press[p] = "created"
    /\ url' = [url EXCEPT ![node[p]] = gist[p]]
    /\ Tell(p, gist[p])
    /\ UNCHANGED <<current, made, ready, gists, node, left, gist>>

\* The lock is taken again; a press that was faster wins (interactions.go:801-806).
Store(p) ==
    /\ press[p] = "created"
    /\ LET n == node[p]
           u == IF url[n] = 0 THEN gist[p] ELSE url[n]
       IN  url' = [url EXCEPT ![n] = u] /\ Tell(p, u)
    /\ UNCHANGED <<current, made, ready, gists, node, left, gist>>

\* "Couldn't create a GitHub gist right now."
Failed(p) ==
    /\ press[p] = "failed"
    /\ Refuse(p)
    /\ UNCHANGED <<current, made, ready, url, gists, node, left, gist>>

GistNext ==
    \/ Evict \/ Recreate \/ Fill
    \/ \E p \in Presses : Press(p) \/ Attempt(p) \/ Store(p) \/ Failed(p)

GistSpec == GistInit /\ [][GistNext]_gistVars

-----------------------------------------------------------------------------
(* Properties.                                                             *)

GistTypes ==
    /\ current \in 0 .. MaxObjects /\ made \in Nodes
    /\ ready \in [Nodes -> BOOLEAN] /\ url \in [Nodes -> Nat] /\ gists \in Nat
    /\ press \in [Presses -> {"idle", "creating", "created", "failed", "told", "refused"}]
    /\ node \in [Presses -> Nodes] /\ left \in [Presses -> Nat]
    /\ gist \in [Presses -> Nat] /\ told \in [Presses -> Nat]

\* All who are told a gist of the same node are told the same one, which
\* exists, however their presses interleave (interactions.go:742-806).
SameGistTold ==
    \A p, q \in Presses :
        /\ told[p] # 0 /\ told[q] # 0 /\ node[p] = node[q] => told[p] = told[q]
        /\ told[p] <= gists /\ (press[p] = "told" => told[p] # 0)
=============================================================================
