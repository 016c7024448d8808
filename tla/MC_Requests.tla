------------------------------ MODULE MC_Requests ------------------------------
(***************************************************************************)
(* What people ask of the bot and what is made ready for it: the gate that *)
(* a message passes, the pages it links to, the task pool they are fetched *)
(* with, the gist button, and the commands that select a model, export a   *)
(* channel and move one.  They are checked as one specification whose     *)
(* initial states choose the part that runs.  The task pool, the gist      *)
(* button, the selections and the gate stay in an initial state while      *)
(* another part runs, the variables of the other parts at <<>>.            *)
(***************************************************************************)
EXTENDS BoundedTasks, GistButton, BotState, MessageGate, WebPages, ChannelExport

VARIABLES part, channels, moving, seen

OnlyOrder == <<channels, moving, seen>>

-----------------------------------------------------------------------------
\* Two commands, and a bot that starts with a stored row in SQLite and none in
\* Redis.
TwoCommands == {2, 3}
Missing == [f \in Fields |-> -1]
Stored == [f \in Fields |-> 1]
SomeRows == {Missing, Stored}
FirstStart == StateInit /\ rows = [b \in Backends |-> IF b = "redis" THEN Missing ELSE Stored]

SomeKeys == [x \in {"tinyfish", "exa", "tavily"} |->
    CASE x = "tinyfish" -> <<"k1", "k2">> [] x = "exa" -> <<"k3", "k4", "k5">> [] OTHER -> <<>>]
SomeLinks == [l \in {"a", "b", "c", "local"} |-> IF l = "c" THEN "b" ELSE l]
SomeRequests == {<<"a", "c">>, <<"b", "local">>}
SomeOrders == {<<"tinyfish", "exa", "tavily">>, <<"exa", "tinyfish", "tavily">>}

\* One message, of six kinds, and three /maintenance commands.
Asking(author, contains, mentions, nsfw) ==
    [author |-> author, links |-> contains, mentions |-> mentions, nsfw |-> nsfw]
SomePosts == {
    Asking("user", {"x"}, FALSE, FALSE), Asking("user", {"x", "shorts"}, TRUE, TRUE),
    Asking("admin", {"shorts"}, FALSE, FALSE), Asking("owner", {"facebook"}, FALSE, FALSE),
    Asking("stranger", {}, TRUE, FALSE), Asking("user", {}, TRUE, FALSE)}
TwoTiers == <<"gemini", "claude">>

SomeHistories == {<<1, 0, 2, 1, 0>>, <<2, 1, 3>>, <<0>>, <<4, 1>>}
EmptyExport == ExportInit /\ history = <<0>> /\ budget = 1

\* Two channels outside, a category with two, and one more outside after it;
\* their positions distinct, or some of them shared.
Channel(position, parent, category) ==
    [position |-> position, parent |-> parent, category |-> category]
SomeGuilds == {
    <<Channel(0, 0, FALSE), Channel(1, 0, FALSE), Channel(2, 0, TRUE),
      Channel(3, 3, FALSE), Channel(5, 3, FALSE), Channel(6, 0, FALSE)>>,
    <<Channel(1, 0, FALSE), Channel(0, 0, FALSE), Channel(2, 0, TRUE),
      Channel(3, 3, FALSE), Channel(3, 3, FALSE), Channel(4, 0, FALSE)>>}
Moves == INSTANCE ChannelOrder WITH command <- moving,
    Guilds <- SomeGuilds, Commands <- {"c1", "c2"}, Steps <- {-2, 1}

-----------------------------------------------------------------------------
NoOrder == channels = <<>> /\ moving = <<>> /\ seen = <<>>
Resting == PoolInit /\ ~cancelled /\ GistInit /\ FirstStart /\ GateInit /\ PagesInit

Init ==
    \/ /\ part = "pool" /\ PoolInit /\ GistInit /\ FirstStart /\ GateInit /\ PagesInit
       /\ EmptyExport /\ NoOrder
    \/ /\ part \in {"gist", "selections", "gate", "pages"}
       /\ Resting /\ EmptyExport /\ NoOrder
    \/ part = "export" /\ Resting /\ ExportInit /\ NoOrder
    \/ part = "order" /\ Resting /\ EmptyExport /\ Moves!Init

Others == <<part, OnlyOrder>>
PoolStep == part = "pool" /\ PoolNext
    /\ UNCHANGED <<Others, gistVars, stateVars, gateVars, pagesVars, exportVars>>
GistStep == part = "gist" /\ GistNext
    /\ UNCHANGED <<Others, poolVars, stateVars, gateVars, pagesVars, exportVars>>
StateStep == part = "selections" /\ StateNext
    /\ UNCHANGED <<Others, poolVars, gistVars, gateVars, pagesVars, exportVars>>
GateStep == part = "gate" /\ GateNext
    /\ UNCHANGED <<Others, poolVars, gistVars, stateVars, pagesVars, exportVars>>
PagesStep == part = "pages" /\ PagesNext
    /\ UNCHANGED <<Others, poolVars, gistVars, stateVars, gateVars, exportVars>>
ExportStep == part = "export" /\ ExportNext
    /\ UNCHANGED <<Others, poolVars, gistVars, stateVars, gateVars, pagesVars>>

Still == <<part, poolVars, gistVars, stateVars, gateVars, pagesVars, exportVars>>
OrderStep == part = "order" /\ Moves!Next /\ UNCHANGED Still

Next == PoolStep \/ GistStep \/ StateStep \/ GateStep \/ PagesStep \/ ExportStep \/ OrderStep

vars == <<Still, OnlyOrder>>
Spec == Init /\ [][Next]_vars

-----------------------------------------------------------------------------
(* Properties.  All others are checked as their modules state them.        *)

\* A move takes its channel past the right ones and leaves the others in their
\* order (interactions.go:1589).
MovesOneChannel == [][part = "order" => Moves!TypeOK /\ Moves!MoveStep]_vars
=============================================================================
