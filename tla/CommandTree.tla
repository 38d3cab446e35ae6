---------------------------- MODULE CommandTree ----------------------------
(***************************************************************************)
(* The command parser (CommandParser): a cursor in the tree of commands,   *)
(* and the buffer of leaf values that a handler gets.                      *)
(*                                                                         *)
(* A line goes on from the cursor.  "/" at its end moves the cursor to     *)
(* where the line led, a mode in which the next lines need not repeat the  *)
(* way: the buffer keeps the values of the way up to its checkpoint.  cd   *)
(* and cd.. lead back, and do runs an operational command from within      *)
(* config.  A line is one step, with the handler it runs: the parser waits *)
(* for its job.  Which parameter a word means is abstracted: lines are     *)
(* ways through the tree.                                                  *)
(***************************************************************************)
EXTENDS Integers, Sequences, SequencesExt, NetworkCommands

CONSTANTS
  Topics,     \* sets of Commands: a session keeps to one of them
  Values,     \* what is typed for a leaf
  NULL

VARIABLES
  topic,         \* the commands of this session
  cmd_tree_cursor,
  value_holder,  \* the value in each leaf of the tree, or NULL
  tlv_buff,      \* what is kept of the buffer at the prompt: up to its checkpoint
  typed,         \* what the user has typed to get to the cursor, word by word
  loaded,        \* has a file been loaded in this mode?
  last,          \* the call of a handler in this step: what it was given, what it should be
  crashed        \* why the process ended: "no" while it runs
vars == <<topic, cmd_tree_cursor, value_holder, tlv_buff, typed, loaded, last, crashed>>

Root == <<>>
Params == UNION {Prefixes(c.path) : c \in topic}
IsLeaf(p) == p # Root /\ Last(p) \in Leaves
HasChildren(p) == \E q \in Params : q # p /\ IsPrefix(p, q)
CommandsAt(p) == {c \in topic : c.path = p}

\* IS_CURRENT_MODE_CONFIG
InConfig(p) == p # Root /\ Head(p) = "config"

\* Could "no" be a word of a line from p to q?
CanNegate(p, q) == \E r \in Negatable : IsPrefix(p, r) /\ IsStrictPrefix(r, q)

\* The values among the words of a way to p, with the names of their leaves.
LeafValues(p, words) ==
  LET leaves == SelectSeq([k \in DOMAIN p |-> k], LAMBDA k : p[k] \in Leaves)
  IN [j \in DOMAIN leaves |-> <<p[leaves[j]], words[leaves[j]]>>]

\* build_tlv_buffer: every leaf on the way from p to q takes the value v, and it is added.
Way(p, q, v) == [k \in 1..(Len(q) - Len(p)) |-> IF q[Len(p) + k] \in Leaves THEN v ELSE q[Len(p) + k]]
Collected(p, q, v) == LeafValues(SubSeq(q, Len(p) + 1, Len(q)), Way(p, q, v))
Held(p, q, v) ==
  [l \in DOMAIN value_holder |-> IF IsStrictPrefix(p, l) /\ IsPrefix(l, q) THEN v ELSE value_holder[l]]

\* The command code goes behind the values.
Code(c) == <<"CMDCODE", c.code>>

\* A handler runs with a copy of the buffer.
Called(c, buffer, mode, words, negated) ==
  last' = [fn |-> c.fn, code |-> c.code, path |-> c.path, given |-> buffer, mode |-> mode, loaded |-> loaded,
           wanted |-> LeafValues(c.path, words) \o <<Code(c)>>, negated |-> negated]

-----------------------------------------------------------------------------

Init ==
  /\ topic \in Topics
  /\ cmd_tree_cursor = Root
  /\ value_holder = [l \in {p \in Params : IsLeaf(p)} |-> NULL]
  /\ tlv_buff = <<>>
  /\ typed = <<>>
  /\ loaded = FALSE
  /\ last = NULL
  /\ crashed = "no"

\* At root the buffer is emptied before the prompt.
Prompt(cursor, kept) == cmd_tree_cursor' = cursor /\ tlv_buff' = IF cursor = Root THEN <<>> ELSE kept

\* config, without more: its handler marks the checkpoint of its own copy.
EnterConfig ==
  /\ cmd_tree_cursor = Root
  /\ <<"config">> \in Params
  /\ Prompt(<<"config">>, <<>>)
  /\ typed' = <<"config">>
  /\ last' = NULL
  /\ UNCHANGED <<topic, value_holder, loaded, crashed>>

\* A line with a handler, at once.
Enter(q, v, negated) ==
  /\ q # cmd_tree_cursor
  /\ negated => CanNegate(cmd_tree_cursor, q)
  /\ \E c \in CommandsAt(q) :
       Called(c, tlv_buff \o Collected(cmd_tree_cursor, q, v) \o <<Code(c)>>,
              IF ~InConfig(q) THEN "operational" ELSE IF negated THEN "disable" ELSE "enable",
              typed \o Way(cmd_tree_cursor, q, v), negated)
  /\ value_holder' = Held(cmd_tree_cursor, q, v)
  /\ UNCHANGED <<topic, cmd_tree_cursor, tlv_buff, typed, loaded, crashed>>

\* A line that is not complete, or in which a later word is wrong, or that asks for help:
\* the leaves before keep its values, the buffer does not.
Fails(q, v) ==
  /\ value_holder' = Held(cmd_tree_cursor, q, v)
  /\ last' = NULL
  /\ UNCHANGED <<topic, cmd_tree_cursor, tlv_buff, typed, loaded, crashed>>

\* The checkpoint is marked before the command code is added.
marked(values, code) == values

\* "/" after a line, or alone: mode_enter_callback calls the handler, if there is one, in
\* the thread of the parser.
EnterMode(q, v, negated) ==
  LET p == cmd_tree_cursor
      values == tlv_buff \o Collected(p, q, v)
      codes == {c.code : c \in CommandsAt(q)}
  IN /\ q # Root
     /\ HasChildren(q)
     /\ negated => CanNegate(p, q)
     /\ Prompt(q, marked(values, <<<<"CMDCODE", IF codes = {} THEN "none" ELSE CHOOSE k \in codes : TRUE>>>>))
     /\ typed' = typed \o Way(p, q, v)
     /\ value_holder' = Held(p, q, v)
     /\ IF codes = {} THEN last' = NULL
        ELSE \E c \in CommandsAt(q) :
               Called(c, values \o <<Code(c)>>, IF negated THEN "disable" ELSE "enable", typed', negated)
     /\ UNCHANGED <<topic, loaded, crashed>>

\* build_cmd_tree_leaves_data
Rebuilt(p) == LeafValues(p, [k \in DOMAIN p |-> IF IsLeaf(SubSeq(p, 1, k)) THEN value_holder'[SubSeq(p, 1, k)]
                                                ELSE p[k]])

\* do from config: the line starts at show, debug and clear, with an empty buffer.  When
\* it has ended in a mode the user stays there, and returns to config otherwise.
Do(q, v, mode) ==
  /\ InConfig(cmd_tree_cursor)
  /\ Head(q) \in {"show", "debug", "clear"}
  /\ value_holder' = Held(Root, q, v)
  /\ LET values == Collected(Root, q, v) IN
     IF mode
     THEN /\ HasChildren(q)
          /\ Prompt(q, marked(values, <<<<"CMDCODE", "none">>>>))
          /\ typed' = Way(Root, q, v)
          /\ IF CommandsAt(q) = {} THEN last' = NULL
             ELSE \E c \in CommandsAt(q) : Called(c, values \o <<Code(c)>>, "enable", Way(Root, q, v), FALSE)
     ELSE /\ \/ \E c \in CommandsAt(q) : Called(c, values \o <<Code(c)>>, "operational", Way(Root, q, v), FALSE)
             \/ last' = NULL
          /\ Prompt(cmd_tree_cursor, Rebuilt(cmd_tree_cursor))
          /\ UNCHANGED typed
  /\ loaded' = FALSE
  /\ UNCHANGED <<topic, crashed>>

\* goto_top_of_cmd_tree
Top ==
  /\ cmd_tree_cursor # Root
  /\ Prompt(Root, <<>>)
  /\ typed' = <<>>
  /\ value_holder' = [l \in DOMAIN value_holder |-> IF IsPrefix(l, cmd_tree_cursor) THEN NULL ELSE value_holder[l]]
  /\ loaded' = FALSE
  /\ last' = NULL
  /\ UNCHANGED <<topic, crashed>>

\* Mutant: the checkpoint stays where it was.
kept_all(p, values) == values

\* The buffer without the value of a leaf that is left.
kept(p, values) == IF IsLeaf(p) THEN Front(values) ELSE values

\* go_one_level_up_cmd_tree: a leaf that is left takes its value out of the buffer.
\* Once the buffer is short of it (see Load) its end is before its beginning.
Up ==
  LET p == cmd_tree_cursor IN
  /\ p # Root
  /\ value_holder' = IF IsLeaf(p) THEN [value_holder EXCEPT ![p] = NULL] ELSE value_holder
  /\ IF IsLeaf(p) /\ tlv_buff = <<>>
     THEN crashed' = "buffer" /\ Prompt(Front(p), <<>>)
     ELSE UNCHANGED crashed /\ Prompt(Front(p), kept(p, tlv_buff))
  /\ typed' = Front(typed)
  /\ loaded' = (loaded /\ Len(p) > 1)
  /\ last' = NULL
  /\ UNCHANGED topic

\* config load: parse_file empties the buffer, and its checkpoint with it, but leaves the
\* cursor where it is.  The lines of the file are then steps like typed ones.
Load ==
  /\ cmd_tree_cursor # Root
  /\ tlv_buff' = <<>>
  /\ loaded' = TRUE
  /\ last' = NULL
  /\ UNCHANGED <<topic, cmd_tree_cursor, value_holder, typed, crashed>>

Next ==
  /\ crashed = "no"
  /\ \/ EnterConfig \/ Top \/ Up \/ Load
     \/ \E q \in Params, v \in Values :
          /\ IsPrefix(cmd_tree_cursor, q)
          /\ \/ q # cmd_tree_cursor /\ Fails(q, v)
             \/ \E negated \in BOOLEAN : Enter(q, v, negated) \/ EnterMode(q, v, negated)
     \/ \E q \in Params \ {Root}, v \in Values, mode \in BOOLEAN : Do(q, v, mode)

Spec == Init /\ [][Next]_vars

-----------------------------------------------------------------------------

\* CommandParser: a handler gets the values of the leaves on its path, in order, as the
\* user typed them last, through whatever modes and operational commands, and is told to
\* disable if and only if the line had a no; at the prompt the buffer holds the way to
\* the cursor.  (Not in a mode in which a file has been loaded: see Load.)
HandlersGetPath ==
  /\ last # NULL /\ ~last.loaded => last.given = last.wanted /\ ((last.mode = "disable") <=> last.negated)
  /\ ~loaded => tlv_buff = LeafValues(cmd_tree_cursor, typed) /\ crashed = "no"

\* The command trees and the handlers of nwcli.c, tcp_ip_trace.c and the applications fit:
\* no handler asserts on a name in its buffer, what it uses unseen is there, it has a case
\* for the command, and in that case an operation for the mode of the line, with "no" another
\* one than without.  (But "run spf all" has no node, and spf_algo_handler reads node_name,
\* never set; and see NoIgnored.)
HandlersUnderstand ==
  last # NULL /\ ~last.loaded /\ last.code # "RUN_SPF_ALL" =>
    LET names == {last.given[k][1] : k \in DOMAIN last.given} \ {"CMDCODE"} IN
    /\ \A id \in names : Accepts(last.fn, id)
    /\ Needs(last.fn, last.code) \subseteq names
    /\ last.fn \in DOMAIN Handlers /\ last.code # "DDCP_INTF_ALL_ENABLE" =>
         /\ last.code \in DOMAIN Handlers[last.fn].does
         /\ Operation(last.fn, last.code, last.mode) # "nothing"
         /\ last.negated /\ last.code \notin NoIgnored => Undoes(last.fn, last.code)

\* parse_input_cmd and the handlers: every line that is accepted does what it says.
CommandsDo == HandlersGetPath /\ HandlersUnderstand
=============================================================================
