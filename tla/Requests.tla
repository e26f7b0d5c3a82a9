------------------------------ MODULE Requests ------------------------------
(***************************************************************************)
(* The request protocol, byte by byte: the frame that Client::sendRequest  *)
(* (client/client.cxx) makes of a command, and Request::parse              *)
(* (common/req.cxx), which takes the body of a frame apart again.          *)
(* A command is a sequence of texts, a text a sequence of bytes.           *)
(***************************************************************************)
EXTENDS Integers, SequencesExt

CONSTANTS
    WordSize,        \* bytes of an integer, 4
    Base,            \* values of a byte, 256
    MaxMessageSize,  \* MAX_MESSAGE_SIZE
    MaxNumArgs       \* MAX_NUM_ARGS

Byte == 0 .. Base - 1

\* The number of integers that i bytes stand for.
Power[i \in 0 .. WordSize] == IF i = 0 THEN 1 ELSE Base * Power[i - 1]

\* A message too short for its count of arguments cannot have too many.
ASSUME RequestsAssumption ==
    /\ WordSize \in Nat \ {0} /\ Base \in Nat \ {0}
    /\ MaxMessageSize \in Nat /\ MaxNumArgs \in Nat
    /\ Power[WordSize] > MaxMessageSize + WordSize
    /\ WordSize * (MaxNumArgs + 2) > MaxMessageSize

\* An integer in memory, least significant byte first, the integer that bytes
\* stand for, and the one at an offset of a memory.
Word(n) ==
    LET left[i \in 0 .. WordSize] == IF i = 0 THEN n ELSE left[i - 1] \div Base
    IN  [i \in 1 .. WordSize |-> left[i - 1] % Base]
Value(word) ==
    LET top[i \in 0 .. WordSize] ==   \* of the i most significant bytes
            IF i = 0 THEN 0 ELSE word[WordSize + 1 - i] + Base * top[i - 1]
    IN  top[WordSize]
WordAt(memory, offset) == Value([i \in 1 .. WordSize |-> memory[offset + i]])
------------------------------------------------------------------------------
Field(text) == Word(Len(text)) \o text

MessageLength(command) ==
    LET length[i \in 0 .. Len(command)] ==
            IF i = 0 THEN WordSize ELSE length[i - 1] + WordSize + Len(command[i])
    IN  length[Len(command)]

TooLong(command) == MessageLength(command) > MaxMessageSize

Message(command) ==
    Word(Len(command)) \o FlattenSeq([i \in DOMAIN command |-> Field(command[i])])

Frame(command) == Word(MessageLength(command)) \o Message(command)
------------------------------------------------------------------------------
Bad == [ok |-> FALSE, command |-> <<>>]

\* Mutant: what follows the last argument is not looked at.
ExhaustedNever(at, length) == TRUE

\* Nothing of the message is left.
Exhausted(at, length) == at = length

\* memory begins with the message, whose length is given, and goes on with what
\* else is in the read buffer.
Parse(memory, length) ==
    LET args[p \in Nat \X Nat] ==   \* p[2] arguments, from offset p[1]
            LET at == p[1]  count == p[2]
                from == at + WordSize
                to == from + WordAt(memory, at)
            IN  IF count = 0 THEN [ok |-> Exhausted(at, length), command |-> <<>>]
                ELSE IF from > length \/ to > length THEN Bad
                ELSE [args[<<to, count - 1>>] EXCEPT
                         !.command = <<SubSeq(memory, from + 1, to)>> \o @]
    IN  IF length < WordSize \/ WordAt(memory, 0) > MaxNumArgs THEN Bad
        ELSE args[<<WordSize, WordAt(memory, 0)>>]
=============================================================================
