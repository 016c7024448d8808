------------------------------ MODULE ChannelOrder ------------------------------
(***************************************************************************)
(* /movechannel (internal/app/interactions.go): a guild's channels are     *)
(* read, the new order of one section is worked out and written back as    *)
(* positions, while another command does the same.                         *)
(*                                                                         *)
(* A channel is a number, its id; Discord shows channels by position and   *)
(* then by id.                                                             *)
(***************************************************************************)
EXTENDS Integers, Sequences, FiniteSets, SequencesExt

CONSTANTS
    Guilds,   \* what a guild may look like: per channel [position, parent,
              \* category], parent 0 for none
    Commands, \* the commands given
    Steps     \* how far a channel may be moved, up if negative

VARIABLES
    channels, \* Discord's
    command,  \* per command: [pc, target, by]
    seen      \* per command: the channels as it read them

vars == <<channels, command, seen>>

Idle == [pc |-> "idle", target |-> 0, by |-> 0]

Init ==
    /\ channels \in Guilds
    /\ command = [c \in Commands |-> Idle]
    /\ seen = [c \in Commands |-> <<>>]

\* orderedGuildChannels.
Ordered(guild) ==
    LET before(x) == {y \in DOMAIN guild :
            \/ guild[y].position < guild[x].position
            \/ guild[y].position = guild[x].position /\ y < x}
    IN  [k \in 1 .. Len(guild) |->
            CHOOSE x \in DOMAIN guild : Cardinality(before(x)) = k - 1]

At(s, x) == CHOOSE k \in DOMAIN s : s[k] = x

\* channelRootSection: how many categories stand before a channel outside them.
Section(guild, x) ==
    IF guild[x].parent # 0 THEN 0
    ELSE LET all == Ordered(guild)
             place == At(all, x)
         IN  Cardinality({k \in 1 .. place - 1 : guild[all[k]].category})

\* Mutant: the channels outside categories are one section.
Siblings_Rootless(guild, x) ==
    SelectSeq(Ordered(guild), LAMBDA y :
        guild[y].parent = guild[x].parent /\ ~guild[y].category)

\* orderedSiblingChannels.
Siblings(guild, x) ==
    SelectSeq(Ordered(guild), LAMBDA y :
        /\ guild[y].parent = guild[x].parent /\ ~guild[y].category
        /\ guild[y].parent # 0 \/ Section(guild, y) = Section(guild, x))

\* moveChannelInOrder.
Moved(s, from, to) == InsertAt(RemoveAt(s, from), to, s[from])

\* guildOrderAfterSiblingMove: the places of the section keep their places.
GuildAfter(all, old, new) ==
    [k \in DOMAIN all |-> IF all[k] \in ToSet(old) THEN new[At(old, all[k])] ELSE all[k]]

\* channelPositionUpdates: the places that changed hands, or all if two
\* channels had one position.
Positions(guild, all, after) ==
    LET shared == \E i, j \in DOMAIN guild : i # j /\ guild[i].position = guild[j].position
    IN  [x \in {after[k] : k \in {j \in DOMAIN all : shared \/ all[j] # after[j]}} |->
            IF shared THEN At(after, x) - 1 ELSE guild[all[At(after, x)]].position]

\* The destination of a move, within the section.
Destination(size, from, by) ==
    CASE from + by < 1 -> 1 [] from + by > size -> size [] OTHER -> from + by

\* handleMoveChannelCommand, up to the list of the guild's channels.
Read(c) ==
    /\ command[c].pc = "idle"
    /\ \E x \in {y \in DOMAIN channels : ~channels[y].category}, by \in Steps :
          command' = [command EXCEPT ![c] = [pc |-> "read", target |-> x, by |-> by]]
    /\ seen' = [seen EXCEPT ![c] = channels] /\ UNCHANGED channels

\* The rest of it: GuildChannelsReorder gives the channels in the list their
\* positions and leaves the others.
Reorder(c) ==
    LET guild == seen[c]
        x == command[c].target
        all == Ordered(guild)
        old == Siblings(guild, x)
        from == At(old, x)
        to == Destination(Len(old), from, command[c].by)
        new == Positions(guild, all, GuildAfter(all, old, Moved(old, from, to)))
    IN  /\ command[c].pc = "read"
        /\ command' = [command EXCEPT ![c].pc = "done"]
        /\ \/ /\ from # to
              /\ channels' = [y \in DOMAIN channels |->
                     IF y \in DOMAIN new THEN [channels[y] EXCEPT !.position = new[y]]
                     ELSE channels[y]]
           \/ UNCHANGED channels \* already as far as possible, or refused
        /\ UNCHANGED seen

Next == \E c \in Commands : Read(c) \/ Reorder(c)

Spec == Init /\ [][Next]_vars

-----------------------------------------------------------------------------
\* The type invariant; no two channels share a place in the order shown.
TypeOK ==
    /\ DOMAIN channels \in {DOMAIN g : g \in Guilds}
    /\ \A c \in Commands : command[c].pc \in {"idle", "read", "done"}
    /\ IsInjective(Ordered(channels))

\* What is between two channels of a section in the order shown, by category
\* or section, does not change, and the channel goes past as many channels of
\* its section as asked for, all others keeping their order; unless another
\* command has written in between.
MoveStep ==
    \A c \in Commands :
        LET x == command[c].target
            outside(guild) == SelectSeq(Ordered(guild), LAMBDA y : y # x)
            past == SelectSeq(Siblings(seen[c], x), LAMBDA y :
                        (At(Ordered(seen[c]), y) < At(Ordered(seen[c]), x)) #
                        (At(Ordered(channels'), y) < At(Ordered(channels'), x)))
            section == Siblings(seen[c], x)
        IN  /\ command[c].pc = "read" /\ command'[c].pc = "done"
            /\ channels = seen[c] /\ channels' # channels
            => /\ \A y \in DOMAIN channels : Section(channels', y) = Section(channels, y)
               /\ SelectSeq(outside(channels'), LAMBDA y : y \notin ToSet(section)) =
                  SelectSeq(outside(channels), LAMBDA y : y \notin ToSet(section))
               /\ SelectSeq(outside(channels'), LAMBDA y : y \in ToSet(section)) =
                  SelectSeq(outside(channels), LAMBDA y : y \in ToSet(section))
               /\ Len(past) = LET by == command[c].by
                                  wanted == IF by < 0 THEN -by ELSE by
                                  room == IF by < 0 THEN At(section, x) - 1
                                          ELSE Len(section) - At(section, x)
                              IN  IF wanted < room THEN wanted ELSE room

MovesOneChannel == [][MoveStep]_vars
=============================================================================
