--------------------------------- MODULE Fsm ---------------------------------
(***************************************************************************)
(* The FSM library (FSMImplementation): a machine is a table of            *)
(* transitions for every state, and execute_fsm runs it over a buffer.     *)
(* With it, the machines of std_fsm.c and ip_validate, which the parser    *)
(* uses for every address that is typed.                                   *)
(*                                                                         *)
(* A step is one call.  Letters and the names of mail servers are          *)
(* abstracted to a few characters; outputs are sequences.                  *)
(***************************************************************************)
EXTENDS Integers, FiniteSets, Sequences, SequencesExt, TLC

CONSTANTS
  MAX_INP_BUFFER_LEN,
  Letters,    \* letters of inputs, of either case
  Others,     \* other characters of inputs, "@" and "." among them
  Gmail, Hotmail,  \* the two server names, as sequences of letters and dots
  Pattern,    \* common_trans_key of the substring counter
  Inputs,     \* for every machine: what is given to it
  Addresses,  \* what ip_validate gets: characters, dots among them
  Tails,      \* what may lie behind its buffer on the stack, up to a zero byte
  NULL

VARIABLES
  fsm,     \* the machine, or "ip_validate"
  input,
  answer   \* what the call returned, NULL before
vars == <<fsm, input, answer>>

Digits == {"0", "1", "2", "3", "4", "5", "6", "7", "8", "9"}
Alnum == Digits \union Letters
Chars == Alnum \union Others

\* tt_entry_t: a key, or matching functions (the characters that one of them takes).
Key(key, next, out) == [key |-> key, any |-> {}, next |-> next, out |-> out]
AnyOf(chars, next, out) == [key |-> <<>>, any |-> chars, next |-> next, out |-> out]

\* create_and_insert_new_tt_entry_wild_card
Wild(next) == AnyOf(Chars, next, "none")
DEAD_STATE == <<Wild("D")>>

-----------------------------------------------------------------------------
(* Machines: the table, the final states; the first state is q0.           *)

\* Letters and digits, at least five; then a server.
email_validator_fsm ==
  [final |-> {"F"},
   table |->
     [q0 |-> <<AnyOf(Alnum, "q1", "none"), Wild("D")>>,
      q1 |-> <<AnyOf(Alnum, "q2", "none"), Wild("D")>>,
      q2 |-> <<AnyOf(Alnum, "q3", "none"), Wild("D")>>,
      q3 |-> <<AnyOf(Alnum, "q4", "none"), Wild("D")>>,
      q4 |-> <<AnyOf(Alnum, "q5", "none"), Wild("D")>>,
      q5 |-> <<AnyOf(Alnum, "q5", "none"), Key(<<"@">>, "q6", "none"), Wild("D")>>,
      q6 |-> <<Key(Gmail, "F", "none"), Key(Hotmail, "F", "none"), Wild("D")>>,
      F  |-> <<Wild("D")>>,
      D  |-> DEAD_STATE]]

fsm_substring_counter ==
  [final |-> {}, table |-> [q0 |-> <<Key(Pattern, "q0", "occurrence"), Wild("q0")>>]]

Bit(next, out) == <<Key(<<"0">>, next, out), Key(<<"1">>, next, out)>>

fsm_binary_to_hex ==
  [final |-> {"q4"},
   table |-> [q0 |-> Bit("q1", "none"), q1 |-> Bit("q2", "none"), q2 |-> Bit("q3", "none"),
              q3 |-> Bit("q4", "hex"), q4 |-> Bit("q1", "none")]]

\* Mutant: the state behind "25" takes every digit.
ip_address_octet_validator_259 ==
  [final |-> {"q6"},
   table |->
     [q0 |-> <<Key(<<"0">>, "q1", "none"), Key(<<"1">>, "q1", "none"), Key(<<"2">>, "q3", "none"), Wild("D")>>,
      q1 |-> <<AnyOf(Digits, "q2", "none"), Wild("D")>>,
      q2 |-> <<AnyOf(Digits, "q6", "none"), Wild("D")>>,
      q3 |-> <<AnyOf({"0", "1", "2", "3", "4"}, "q4", "none"), Key(<<"5">>, "q5", "none"), Wild("D")>>,
      q4 |-> <<AnyOf(Digits, "q6", "none"), Wild("D")>>,
      q5 |-> <<AnyOf(Digits, "q6", "none"), Wild("D")>>,
      q6 |-> <<Wild("D")>>,
      D  |-> DEAD_STATE]]

\* Three digits, from 000 to 255.
ip_address_octet_validator ==
  [final |-> {"q6"},
   table |->
     [q0 |-> <<Key(<<"0">>, "q1", "none"), Key(<<"1">>, "q1", "none"), Key(<<"2">>, "q3", "none"), Wild("D")>>,
      q1 |-> <<AnyOf(Digits, "q2", "none"), Wild("D")>>,
      q2 |-> <<AnyOf(Digits, "q6", "none"), Wild("D")>>,
      q3 |-> <<AnyOf({"0", "1", "2", "3", "4"}, "q4", "none"), Key(<<"5">>, "q5", "none"), Wild("D")>>,
      q4 |-> <<AnyOf(Digits, "q6", "none"), Wild("D")>>,
      q5 |-> <<AnyOf({"0", "1", "2", "3", "4", "5"}, "q6", "none"), Wild("D")>>,
      q6 |-> <<Wild("D")>>,
      D  |-> DEAD_STATE]]

machine ==
  [email |-> email_validator_fsm, substring |-> fsm_substring_counter, binary |-> fsm_binary_to_hex,
   octet |-> ip_address_octet_validator]

-----------------------------------------------------------------------------
(* execute_fsm.                                                            *)

\* fsm_evaluate_transition_entry_match
Matches(e, rest) == IF e.any = {} THEN IsPrefix(e.key, rest) ELSE Head(rest) \in e.any
LengthRead(e) == IF e.any = {} THEN Len(e.key) ELSE 1

BitValue(b) == IF b = "1" THEN 1 ELSE 0

\* The output functions: substring_occurrence_counter notes the place, convert_binary_to_hex
\* looks three characters back.
Output(e, buffer, cursor) ==
  CASE e.out = "none"       -> <<>>
    [] e.out = "occurrence" -> <<cursor + 1>>
    [] e.out = "hex"        -> <<8 * BitValue(buffer[cursor - 2]) + 4 * BitValue(buffer[cursor - 1])
                                 + 2 * BitValue(buffer[cursor]) + BitValue(buffer[cursor + 1])>>

\* One turn of the loop: the first entry that matches is taken; fsm_apply_transition
\* asserts that something is left to read.
Turn(m, buffer, r) ==
  LET rest == SubSeq(buffer, r.cursor + 1, Len(buffer))
      fits == SelectSeq(m.table[r.state], LAMBDA e : Len(e.key) <= Len(rest) /\ Matches(e, rest))
      e == Head(fits)
      cursor == r.cursor + LengthRead(e)
  IN IF rest = <<>> THEN [r EXCEPT !.done = TRUE, !.error = "assert"]
     ELSE IF fits = <<>> THEN [r EXCEPT !.done = TRUE, !.error = "FSM_NO_TRANSITION"]
     ELSE [r EXCEPT !.state = e.next, !.cursor = cursor, !.output = @ \o Output(e, buffer, r.cursor),
                    !.done = cursor = Len(buffer) \/ cursor >= MAX_INP_BUFFER_LEN]

\* Every turn reads something, so no more are taken than the buffer is long.
execute_fsm(m, buffer) ==
  LET after[k \in 0..MAX_INP_BUFFER_LEN] ==
        IF k = 0 THEN [state |-> "q0", cursor |-> 0, output |-> <<>>, done |-> FALSE, error |-> "FSM_NO_ERROR"]
        ELSE IF after[k - 1].done THEN after[k - 1] ELSE Turn(m, buffer, after[k - 1])
      r == after[MAX_INP_BUFFER_LEN]
  IN [error |-> r.error, output |-> r.output,
      fsm_result |-> r.error = "FSM_NO_ERROR" /\ r.state \in m.final]

-----------------------------------------------------------------------------
(* ip_validate.                                                            *)

normalize_ipv4_token(token) == [k \in 1..(3 - Len(token)) |-> "0"] \o token

\* strtok: the first and the last place of each field; empty fields are passed over.
InField(s, k) == k \in DOMAIN s /\ s[k] # "."
Tokens(s) ==
  {<<k, CHOOSE e \in k..Len(s) : ~InField(s, e + 1) /\ \A j \in k..e : InField(s, j)>> :
     k \in {i \in DOMAIN s : InField(s, i) /\ ~InField(s, i - 1)}}

At(s, t) == SubSeq(s, t[1], t[2])

\* ip_addr[16], and strncpy(ip_addr, ip_addr_copy, 16): of sixteen characters or
\* more the first sixteen are copied, with no zero byte behind them, and strtok
\* reads on in what the stack holds.
BUFFER_LEN == 16
Copied(s, tail) == IF Len(s) < BUFFER_LEN THEN s ELSE SubSeq(s, 1, BUFFER_LEN) \o tail

ip_validate(s, tail) ==
  LET ip_addr == Copied(s, tail)
      tokens == Tokens(ip_addr)
  IN /\ Cardinality(tokens) = 4
     /\ \A t \in tokens :
          /\ Len(At(ip_addr, t)) <= 3
          /\ execute_fsm(machine.octet, normalize_ipv4_token(At(ip_addr, t))).fsm_result

-----------------------------------------------------------------------------

Init ==
  /\ \/ fsm \in DOMAIN machine /\ input \in Inputs[fsm]
     \/ fsm = "ip_validate" /\ input \in Addresses
  /\ answer = NULL

Execute ==
  /\ fsm \in DOMAIN machine
  /\ answer' = execute_fsm(machine[fsm], input)

Validate ==
  /\ fsm = "ip_validate"
  /\ \E tail \in Tails : answer' = ip_validate(input, tail)

Next == answer = NULL /\ (Execute \/ Validate) /\ UNCHANGED <<fsm, input>>
Spec == Init /\ [][Next]_vars

-----------------------------------------------------------------------------
(* What the answers should be.                                             *)

DigitValue == [d \in Digits |-> CHOOSE n \in 0..9 : d = ToString(n)]
Number(digits, base, val) == FoldLeft(LAMBDA n, d : base * n + val[d], 0, digits)

IsOctet(s) == ToSet(s) \subseteq Digits /\ Number(s, 10, DigitValue) <= 255
IsMail(s) ==
  \E server \in {Gmail, Hotmail} :
    LET n == Len(s) - Len(server) - 1 IN
    /\ n >= 5
    /\ ToSet(SubSeq(s, 1, n)) \subseteq Alnum
    /\ SubSeq(s, n + 1, Len(s)) = <<"@">> \o server

OccursAt(s, k) == IsPrefix(Pattern, SubSeq(s, k, Len(s)))
Near(j, k) == j <= k /\ k < j + Len(Pattern)

\* Four octets between dots.
IsAddress(s) ==
  /\ Cardinality(Tokens(s)) = 4
  /\ \A t \in Tokens(s) : Len(At(s, t)) <= 3 /\ IsOctet(At(s, t))

\* An address that is wrong whatever follows its first sixteen characters: more
\* than four fields begin there, or one is too long, or one that ends there is
\* no octet.
WrongEarly(s) ==
  \/ Cardinality(Tokens(s)) > 4
  \/ \E t \in Tokens(s) : Len(At(s, t)) > 3 \/ (t[2] < Len(s) /\ ~IsOctet(At(s, t)))

\* std_fsm.c: each machine decides its language (octets up to 255, mail addresses, numbers
\* of half bytes) for every input that fits in the buffer of the library; the converter
\* keeps the value of the number; the counter finds occurrences that do not overlap, and
\* passes over one only for an earlier one.  ip_validate takes four octets and nothing
\* else of up to fifteen characters.  Of a longer input it sees sixteen and what lies
\* behind them: it refuses what is wrong there already, and may take 255.255.255.255.1.
MachinesRight ==
  answer # NULL =>
    CASE fsm = "ip_validate" ->
           IF Len(input) < BUFFER_LEN THEN answer <=> IsAddress(input)
           ELSE answer => ~WrongEarly(SubSeq(input, 1, BUFFER_LEN))
      [] OTHER -> Len(input) \in 1..MAX_INP_BUFFER_LEN =>
           CASE fsm = "octet" -> answer.fsm_result <=> Len(input) = 3 /\ IsOctet(input)
             [] fsm = "email" -> answer.fsm_result <=> IsMail(input)
             [] fsm = "binary" ->
                  /\ answer.fsm_result <=> Len(input) % 4 = 0
                  /\ answer.fsm_result =>
                       /\ Len(answer.output) = Len(input) \div 4
                       /\ Number(answer.output, 16, [n \in 0..15 |-> n])
                            = Number(input, 2, [b \in {"0", "1"} |-> BitValue(b)])
             [] fsm = "substring" ->
                  LET found == ToSet(answer.output) IN
                  /\ \A k \in found : OccursAt(input, k) /\ \A j \in found : Near(j, k) => j = k
                  /\ \A k \in DOMAIN input : OccursAt(input, k) => \E j \in found : Near(j, k)
=============================================================================
