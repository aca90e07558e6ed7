------------------------------- MODULE Cipher -------------------------------
(***************************************************************************)
(* The two programs of encrypt/ that encrypt a text and decrypt it again:  *)
(* testEncrypt, for n ints and many times over, and SSLsample, for one     *)
(* text.  Both have the same encrypt and decrypt, which drive a context of *)
(* the library through its calls; each call may fail, and then the program *)
(* aborts.                                                                 *)
(*                                                                         *)
(* A cipher block stands for all of the text up to its end, so it is known *)
(* by its number; the last is the one that holds the padding.              *)
(***************************************************************************)
EXTENDS Integers, Sequences

CONSTANTS
    Numbers,   \* what testEncrypt is given as n
    Count,     \* encryptions after the first: 10000
    TextLen,   \* of the text of SSLsample: 43
    Room,      \* of its buffers: 128
    Stack,     \* bytes the arrays on the stack may take
    IntMax     \* the largest int: 2^31 - 1

Block == 16

ASSUME CipherAssumption ==
    /\ IntMax \in Nat /\ IntMax >= 16
    /\ Numbers \subseteq -(IntMax + 1)..IntMax
    /\ Count \in Nat /\ TextLen \in Nat /\ Room \in Nat /\ Stack \in Nat

VARIABLES
    program,   \* "test" or "sample"
    n,         \* the argument of testEncrypt
    stage,     \* "start", "encrypt", "decrypt", "done", "aborted", or "undefined":
               \* an array on the stack has no size, or more than the stack
    call,      \* the next call to the library: "new", "init", "update", "final", "free"
    len,       \* of the plaintext, in bytes
    rooms,     \* bytes of the ciphertext and of where it is decrypted to
    rounds,    \* encryptions still to come
    contexts,  \* allocated and not freed
    cipher,    \* blocks at each place of the ciphertext
    length,    \* what encrypt, or decrypt, has counted so far
    clen,      \* what encrypt returned
    plain,     \* the pieces of text decrypted: a block and how many of its bytes
    touched    \* bytes of either buffer up to the last that was written

vars == <<program, n, stage, call, len, rooms, rounds, contexts, cipher, length, clen, plain,
          touched>>

\* What an int holds of m.
Wrapped(m) == ((m + IntMax + 1) % (2 * IntMax + 2)) - (IntMax + 1)

Highest(a, b) == IF a >= b THEN a ELSE b

Init ==
    /\ program \in {"test", "sample"}
    /\ n \in IF program = "test" THEN Numbers ELSE {0}
    /\ stage = "start" /\ call = "new"
    /\ len = 0 /\ rooms = [cipher |-> 0, plain |-> 0]
    /\ rounds = 0 /\ contexts = 0
    /\ cipher = <<>> /\ length = 0 /\ clen = 0 /\ plain = <<>>
    /\ touched = [cipher |-> 0, plain |-> 0]

-----------------------------------------------------------------------------
(* The programs *)

\* Mutant: what is decrypted has the room of the text and no more.
PlaceTight(l, c, p) ==
    /\ len' = l /\ rooms' = [cipher |-> c, plain |-> l]

\* The text and the buffers.
Place(l, c, p) ==
    /\ len' = l /\ rooms' = [cipher |-> c, plain |-> p]

\* SSLsample: a text, and two buffers of their own.
StartSample ==
    /\ stage = "start" /\ program = "sample"
    /\ Place(TextLen, Room, Room)
    /\ rounds' = 1 /\ stage' = "encrypt"
    /\ UNCHANGED <<program, n, call, contexts, cipher, length, clen, plain, touched>>

\* testEncrypt: n + 4 ints, of which n are the text, which is decrypted in its place.
\* Nobody looks at n: for less than -4 ints new throws, the length in bytes may wrap,
\* and the ciphertext is on the stack.
StartTest ==
    LET n4 == Wrapped(4 * n)
        onStack == Wrapped(n4 + 16)
    IN
    /\ stage = "start" /\ program = "test"
    /\ Place(n4, onStack, 4 * (n + 4))
    /\ rounds' = 1 + Count
    /\ stage' = IF n < -4 THEN "aborted"
                ELSE IF n + 4 > IntMax \/ n4 < 0 \/ onStack < 0 \/ onStack + n4 > Stack
                THEN "undefined" ELSE "encrypt"
    /\ UNCHANGED <<program, n, call, contexts, cipher, length, clen, plain, touched>>

-----------------------------------------------------------------------------
(* encrypt and decrypt *)

\* The blocks of the ciphertext, and the bytes of text each holds.
Blocks == (len \div Block) + 1
BytesOf(b) == IF b = Blocks THEN len % Block ELSE Block

Running == stage \in {"encrypt", "decrypt"}

NewContext ==
    /\ Running /\ call = "new"
    /\ contexts' = contexts + 1
    /\ call' = "init"
    /\ UNCHANGED <<program, n, stage, len, rooms, rounds, cipher, length, clen, plain, touched>>

InitContext ==
    /\ Running /\ call = "init"
    /\ call' = "update"
    /\ UNCHANGED <<program, n, stage, len, rooms, rounds, contexts, cipher, length, clen, plain,
                   touched>>

\* Blocks written to the ciphertext from a place on.
Written(s, place, blocks) ==
    [i \in 1..Highest(Len(s), place + Len(blocks)) |->
        IF i > place /\ i <= place + Len(blocks) THEN blocks[i - place] ELSE s[i]]

\* The blocks that are whole; the rest of the text stays in the context.
EncryptUpdate ==
    LET whole == Blocks - 1 IN
    /\ stage = "encrypt" /\ call = "update"
    /\ cipher' = Written(cipher, 0, [b \in 1..whole |-> b])
    /\ length' = whole * Block
    /\ touched' = [touched EXCEPT !.cipher = Highest(@, whole * Block)]
    /\ call' = "final"
    /\ UNCHANGED <<program, n, stage, len, rooms, rounds, contexts, clen, plain>>

\* The padded block, behind those before.
EncryptFinal ==
    /\ stage = "encrypt" /\ call = "final"
    /\ cipher' = Written(cipher, length \div Block, <<Blocks>>)
    /\ length' = length + Block
    /\ touched' = [touched EXCEPT !.cipher = Highest(@, length + Block)]
    /\ call' = "free"
    /\ UNCHANGED <<program, n, stage, len, rooms, rounds, contexts, clen, plain>>

\* All blocks but the last, which may be padding: the library decrypts that one too,
\* behind the others, and takes it back.
DecryptUpdate ==
    LET held == (clen \div Block) - 1 IN
    /\ stage = "decrypt" /\ call = "update"
    /\ plain' = [i \in 1..held |-> <<cipher[i], BytesOf(cipher[i])>>]
    /\ length' = held * Block
    /\ touched' = [touched EXCEPT !.plain = Highest(@, clen)]
    /\ call' = "final"
    /\ UNCHANGED <<program, n, stage, len, rooms, rounds, contexts, cipher, clen>>

\* Mutant: the length of the last piece only.
DecryptFinalLength ==
    LET b == cipher[clen \div Block] IN
    /\ stage = "decrypt" /\ call = "final"
    /\ b = Blocks
    /\ plain' = Append(plain, <<b, BytesOf(b)>>)
    /\ length' = BytesOf(b)
    /\ touched' = [touched EXCEPT !.plain = Highest(@, length + BytesOf(b))]
    /\ call' = "free"
    /\ UNCHANGED <<program, n, stage, len, rooms, rounds, contexts, cipher, clen>>

\* The last one without its padding; a block without any is an error.
DecryptFinal ==
    LET b == cipher[clen \div Block] IN
    /\ stage = "decrypt" /\ call = "final"
    /\ b = Blocks
    /\ plain' = Append(plain, <<b, BytesOf(b)>>)
    /\ length' = length + BytesOf(b)
    /\ touched' = [touched EXCEPT !.plain = Highest(@, length + BytesOf(b))]
    /\ call' = "free"
    /\ UNCHANGED <<program, n, stage, len, rooms, rounds, contexts, cipher, clen>>

\* Mutant: the context of encrypt is left.
FreeEncryptNot ==
    /\ stage = "encrypt" /\ call = "free"
    /\ clen' = length
    /\ rounds' = rounds - 1
    /\ stage' = IF rounds > 1 THEN "encrypt" ELSE "decrypt"
    /\ call' = "new"
    /\ UNCHANGED <<program, n, len, rooms, contexts, cipher, length, plain, touched>>

\* encrypt returns: once more, or on to decrypt.  Only the first result is kept.
FreeEncrypt ==
    /\ stage = "encrypt" /\ call = "free"
    /\ contexts' = contexts - 1
    /\ clen' = IF clen = 0 THEN length ELSE clen
    /\ rounds' = rounds - 1
    /\ stage' = IF rounds > 1 THEN "encrypt" ELSE "decrypt"
    /\ call' = "new"
    /\ UNCHANGED <<program, n, len, rooms, cipher, length, plain, touched>>

\* decrypt returns; SSLsample ends the text with a NUL.
FreeDecrypt ==
    /\ stage = "decrypt" /\ call = "free"
    /\ contexts' = contexts - 1
    /\ touched' = IF program = "sample" THEN [touched EXCEPT !.plain = Highest(@, length + 1)]
                  ELSE touched
    /\ stage' = "done"
    /\ UNCHANGED <<program, n, call, len, rooms, rounds, cipher, length, clen, plain>>

\* handleErrors: whatever call fails.
HandleErrors ==
    /\ Running /\ call # "free"
    /\ stage' = "aborted"
    /\ UNCHANGED <<program, n, call, len, rooms, rounds, contexts, cipher, length, clen, plain,
                   touched>>

Next ==
    \/ StartSample \/ StartTest \/ NewContext \/ InitContext
    \/ EncryptUpdate \/ EncryptFinal \/ FreeEncrypt
    \/ DecryptUpdate \/ DecryptFinal \/ FreeDecrypt
    \/ HandleErrors

Spec == Init /\ [][Next]_vars

-----------------------------------------------------------------------------
(* Properties *)

\* One context at a time, between new and free, and the numbers of the blocks.
TypeOK ==
    /\ program \in {"test", "sample"} /\ n \in Numbers \cup {0}
    /\ stage \in {"start", "encrypt", "decrypt", "done", "aborted", "undefined"}
    /\ call \in {"new", "init", "update", "final", "free"}
    /\ len \in Int /\ length \in Nat /\ clen \in Nat
    /\ rounds \in 0..(Count + 1)
    /\ contexts \in 0..1 /\ (Running => contexts = IF call = "new" THEN 0 ELSE 1)
    /\ (stage \in {"encrypt", "decrypt", "done"} => len \in Nat)
    /\ \A i \in DOMAIN cipher : cipher[i] \in 1..Blocks

\* Nothing is written behind a buffer: the padding of a text that fills its last block
\* fits in the 16 bytes more of the ciphertext, and in the 4 ints more of the array the
\* text is decrypted into, where the padded block stands until the library takes it
\* back (testEncrypt.cc:123, 133, 153).
InBounds ==
    stage \in {"encrypt", "decrypt", "done"} =>
        touched.cipher <= rooms.cipher /\ touched.plain <= rooms.plain

\* When the calls are done the text has been decrypted whole and in order, and its
\* length is returned, however often the ciphertext was written over; the text is all
\* n ints when their length in bytes is an int.
RoundTrip ==
    stage = "done" =>
        /\ length = IF program = "test" /\ 4 * n <= IntMax THEN 4 * n ELSE len
        /\ plain = [b \in 1..Blocks |-> <<b, BytesOf(b)>>]
=============================================================================
