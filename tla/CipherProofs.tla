---------------------------- MODULE CipherProofs ----------------------------
(* Why the buffers of the encryption programs are long enough for every text,  *)
(* and why the text comes back.                                                *)
EXTENDS Cipher, TLAPS

\* The buffers of SSLsample have room for its text, padded to whole blocks.
SampleFits == 16 * ((TextLen \div 16) + 1) <= Room

\* Once the program has begun, each buffer has room for the text and its padding.
Begun == stage \in {"encrypt", "decrypt", "done"}
Fits == Begun => len \in Nat /\ 16 * Blocks <= rooms.cipher /\ 16 * Blocks <= rooms.plain

\* Where the calls are, and what they have written by then.
Types ==
    /\ rooms \in [cipher : Int, plain : Int]
    /\ touched \in [cipher : Nat, plain : Nat]
    /\ length \in Nat /\ clen \in Nat /\ n \in Int
Encrypted == stage = "encrypt" =>
    /\ touched.cipher <= 16 * Blocks /\ touched.plain = 0
    /\ call = "final" => length = 16 * (Blocks - 1)
    /\ call = "free" => length = 16 * Blocks
    /\ clen \in {0, 16 * Blocks}
Decrypted == stage = "decrypt" =>
    /\ touched.cipher <= 16 * Blocks /\ touched.plain <= 16 * Blocks
    /\ clen = 16 * Blocks
    /\ call = "final" => length = 16 * (Blocks - 1)
    /\ call = "free" => length = len
Unbegun == stage = "start" =>
    call = "new" /\ length = 0 /\ clen = 0 /\ touched = [cipher |-> 0, plain |-> 0]

IInv == Fits /\ Types /\ Encrypted /\ Decrypted /\ Unbegun /\ InBounds

\* A text is whole blocks and less than one more.
LEMMA Division ==
    ASSUME NEW l \in Nat
    PROVE  /\ (l \div 16) \in Nat /\ (l % 16) \in 0..15
           /\ l = 16 * (l \div 16) + (l % 16)
OBVIOUS

\* What fits an int is itself; up to 16 more is negative; nothing grows.
LEMMA Wrapping ==
    ASSUME NEW m \in Int
    PROVE  /\ Wrapped(m) \in Int /\ Wrapped(m) <= IntMax
           /\ m \in 0..IntMax => Wrapped(m) = m
           /\ m \in (IntMax + 1)..(IntMax + 16) => Wrapped(m) < 0
           /\ m >= -(IntMax + 1) => Wrapped(m) <= m
<1> DEFINE b == 2 * IntMax + 2
           x == m + IntMax + 1
<1>1. IntMax \in Nat /\ IntMax >= 16 /\ b \in Nat /\ b > 0 /\ x \in Int
  BY CipherAssumption
<1>2. \A c \in Nat, y \in Int : c > 0 =>
        /\ (y % c) \in 0..(c - 1)
        /\ y \in 0..(c - 1) => y % c = y
        /\ y \in c..(2 * c - 1) => y % c = y - c
        /\ y >= 0 => y % c <= y
  OBVIOUS
<1>3. /\ (x % b) \in 0..(b - 1)
      /\ x \in 0..(b - 1) => x % b = x
      /\ x \in b..(2 * b - 1) => x % b = x - b
      /\ x >= 0 => x % b <= x
  BY <1>1, <1>2
<1>4. Wrapped(m) = (x % b) - (IntMax + 1)
  BY DEF Wrapped
<1> HIDE DEF b
<1>5. b = 2 * IntMax + 2
  BY DEF b
<1> QED BY <1>1, <1>3, <1>4, <1>5

LEMMA Start == SampleFits /\ Init => IInv
BY CipherAssumption
   DEF Init, IInv, Fits, Types, Encrypted, Decrypted, Unbegun, InBounds, Begun

LEMMA SampleKept == SampleFits /\ IInv /\ StartSample => IInv'
<1> SUFFICES ASSUME SampleFits, IInv, StartSample PROVE IInv'
  OBVIOUS
<1>1. /\ len' = TextLen /\ rooms' = [cipher |-> Room, plain |-> Room]
      /\ stage' = "encrypt" /\ program' = program
      /\ UNCHANGED <<n, call, clen, length, touched>> /\ n \in Int
      /\ call = "new" /\ length = 0 /\ clen = 0 /\ touched = [cipher |-> 0, plain |-> 0]
  BY DEF StartSample, Place, IInv, Unbegun, Types
<1>2. TextLen \in Nat /\ Room \in Nat /\ 16 * ((TextLen \div 16) + 1) <= Room
      /\ (TextLen \div 16) \in Nat
  BY CipherAssumption, Division DEF SampleFits
<1>3. Blocks' = (TextLen \div 16) + 1
  BY <1>1 DEF Blocks, Block
<1> QED BY <1>1, <1>2, <1>3 DEF IInv, Fits, Types, Encrypted, Decrypted, Unbegun, InBounds, Begun

LEMMA TestKept == IInv /\ StartTest => IInv'
<1> SUFFICES ASSUME IInv, StartTest PROVE IInv'
  OBVIOUS
<1> DEFINE n4 == Wrapped(4 * n)
           onStack == Wrapped(n4 + 16)
<1>1. /\ len' = n4 /\ rooms' = [cipher |-> onStack, plain |-> 4 * (n + 4)]
      /\ stage' = IF n < -4 THEN "aborted"
                  ELSE IF n + 4 > IntMax \/ n4 < 0 \/ onStack < 0 \/ onStack + n4 > Stack
                  THEN "undefined" ELSE "encrypt"
      /\ program' = program /\ program = "test"
      /\ UNCHANGED <<call, clen, length, touched>>
      /\ call = "new" /\ length = 0 /\ clen = 0 /\ touched = [cipher |-> 0, plain |-> 0]
  BY DEF StartTest, Place, IInv, Unbegun
<1>2. n' = n /\ n \in Int
  BY DEF StartTest, IInv, Types
<1>3. /\ n4 \in Int /\ n4 <= IntMax /\ (4 * n >= -(IntMax + 1) => n4 <= 4 * n)
      /\ onStack \in Int
      /\ n4 + 16 \in 0..IntMax => onStack = n4 + 16
      /\ n4 + 16 \in (IntMax + 1)..(IntMax + 16) => onStack < 0
  <2>1. n4 \in Int /\ n4 <= IntMax /\ (4 * n >= -(IntMax + 1) => n4 <= 4 * n)
    BY <1>2, Wrapping
  <2> QED BY <2>1, Wrapping
<1> HIDE DEF n4, onStack
<1>4. CASE stage' = "encrypt"
  <2>1. n4 \in Nat /\ onStack >= 0 /\ n >= -4 /\ IntMax \in Nat /\ IntMax >= 16
    BY <1>1, <1>2, <1>3, <1>4, CipherAssumption
  <2>2. onStack = n4 + 16 /\ n4 <= 4 * n
    BY <1>2, <1>3, <2>1
  <2>3. /\ (n4 \div 16) \in Nat /\ 16 * ((n4 \div 16) + 1) <= n4 + 16
    BY <2>1, Division
  <2>4. Blocks' = (n4 \div 16) + 1
    BY <1>1 DEF Blocks, Block
  <2> QED BY <1>1, <1>2, <1>4, <2>1, <2>2, <2>3, <2>4
          DEF IInv, Fits, Types, Encrypted, Decrypted, Unbegun, InBounds, Begun
<1>5. CASE stage' # "encrypt"
  BY <1>1, <1>2, <1>3, <1>5
     DEF IInv, Fits, Types, Encrypted, Decrypted, Unbegun, InBounds, Begun
<1> QED BY <1>4, <1>5

\* A call that writes nothing and leaves the program where it is.
LEMMA CallKept == IInv /\ (NewContext \/ InitContext) => IInv'
BY DEF NewContext, InitContext, IInv, Fits, Types, Encrypted, Decrypted, Unbegun, InBounds, Begun,
       Blocks, Block, Running

LEMMA ErrorsKept == IInv /\ HandleErrors => IInv'
BY DEF HandleErrors, IInv, Fits, Types, Encrypted, Decrypted, Unbegun, InBounds, Begun

\* What Blocks is, as numbers.
LEMMA Measure ==
    ASSUME IInv, Begun
    PROVE  /\ len \in Nat /\ Blocks \in Nat /\ Blocks >= 1
           /\ (len % Block) \in Nat /\ len = 16 * (Blocks - 1) + (len % Block)
           /\ 16 * Blocks <= rooms.cipher /\ 16 * Blocks <= rooms.plain /\ len < 16 * Blocks
           /\ rooms.cipher \in Int /\ rooms.plain \in Int
           /\ touched.cipher \in Nat /\ touched.plain \in Nat
<1>1. len \in Nat /\ 16 * Blocks <= rooms.cipher /\ 16 * Blocks <= rooms.plain
      /\ rooms \in [cipher : Int, plain : Int] /\ touched \in [cipher : Nat, plain : Nat]
  BY DEF IInv, Fits, Types
<1>2. Blocks = (len \div 16) + 1 /\ Block = 16
  BY DEF Blocks, Block
<1>3. (len \div 16) \in Nat /\ (len % 16) \in 0..15 /\ len = 16 * (len \div 16) + (len % 16)
  BY <1>1, Division
<1> QED BY <1>1, <1>2, <1>3

LEMMA EncryptUpdateKept == IInv /\ EncryptUpdate => IInv'
<1> SUFFICES ASSUME IInv, EncryptUpdate PROVE IInv'
  OBVIOUS
<1>1. Begun /\ stage = "encrypt" /\ call' = "final"
      /\ UNCHANGED <<program, n, stage, len, rooms, clen>>
      /\ length' = (Blocks - 1) * Block
      /\ touched' = [touched EXCEPT !.cipher = Highest(@, (Blocks - 1) * Block)]
  BY DEF EncryptUpdate, Begun
<1>2. Blocks' = Blocks /\ Block = 16
  BY <1>1 DEF Blocks, Block
<1>3. touched.cipher <= 16 * Blocks /\ touched.plain = 0 /\ clen \in {0, 16 * Blocks}
      /\ touched \in [cipher : Nat, plain : Nat] /\ clen \in Nat /\ n \in Int
      /\ rooms \in [cipher : Int, plain : Int]
  BY <1>1 DEF IInv, Encrypted, Types
<1>4. /\ touched'.cipher = Highest(touched.cipher, 16 * (Blocks - 1))
      /\ touched'.plain = touched.plain
      /\ touched' \in [cipher : Nat, plain : Nat] /\ touched'.cipher <= 16 * Blocks
      /\ length' = 16 * (Blocks - 1) /\ length' \in Nat
  BY <1>1, <1>2, <1>3, Measure DEF Highest
<1> QED BY <1>1, <1>2, <1>3, <1>4, Measure
        DEF IInv, Fits, Types, Encrypted, Decrypted, Unbegun, InBounds, Begun

LEMMA EncryptFinalKept == IInv /\ EncryptFinal => IInv'
<1> SUFFICES ASSUME IInv, EncryptFinal PROVE IInv'
  OBVIOUS
<1>1. Begun /\ stage = "encrypt" /\ call = "final" /\ call' = "free"
      /\ UNCHANGED <<program, n, stage, len, rooms, clen>>
      /\ length' = length + Block
      /\ touched' = [touched EXCEPT !.cipher = Highest(@, length + Block)]
  BY DEF EncryptFinal, Begun
<1>2. Blocks' = Blocks /\ Block = 16
  BY <1>1 DEF Blocks, Block
<1>3. touched.cipher <= 16 * Blocks /\ touched.plain = 0 /\ clen \in {0, 16 * Blocks}
      /\ length = 16 * (Blocks - 1)
      /\ touched \in [cipher : Nat, plain : Nat] /\ clen \in Nat /\ n \in Int
      /\ rooms \in [cipher : Int, plain : Int]
  BY <1>1 DEF IInv, Encrypted, Types
<1>4. /\ touched'.cipher = Highest(touched.cipher, 16 * Blocks)
      /\ touched'.plain = touched.plain
      /\ touched' \in [cipher : Nat, plain : Nat] /\ touched'.cipher <= 16 * Blocks
      /\ length' = 16 * Blocks /\ length' \in Nat
  BY <1>1, <1>2, <1>3, Measure DEF Highest
<1> QED BY <1>1, <1>2, <1>3, <1>4, Measure
        DEF IInv, Fits, Types, Encrypted, Decrypted, Unbegun, InBounds, Begun

LEMMA FreeEncryptKept == IInv /\ FreeEncrypt => IInv'
<1> SUFFICES ASSUME IInv, FreeEncrypt PROVE IInv'
  OBVIOUS
<1>1. Begun /\ stage = "encrypt" /\ call = "free" /\ call' = "new"
      /\ UNCHANGED <<program, n, len, rooms, length, touched>>
      /\ stage' \in {"encrypt", "decrypt"}
      /\ clen' = IF clen = 0 THEN length ELSE clen
  BY DEF FreeEncrypt, Begun
<1>2. Blocks' = Blocks
  BY <1>1 DEF Blocks
<1>3. touched.cipher <= 16 * Blocks /\ touched.plain = 0 /\ clen \in {0, 16 * Blocks}
      /\ length = 16 * Blocks
  BY <1>1 DEF IInv, Encrypted
<1>4. clen' = 16 * Blocks
  BY <1>1, <1>3
<1> QED BY <1>1, <1>2, <1>3, <1>4, Measure
        DEF IInv, Fits, Types, Encrypted, Decrypted, Unbegun, InBounds, Begun

LEMMA DecryptUpdateKept == IInv /\ DecryptUpdate => IInv'
<1> SUFFICES ASSUME IInv, DecryptUpdate PROVE IInv'
  OBVIOUS
<1> DEFINE held == (clen \div Block) - 1
<1>1. Begun /\ stage = "decrypt" /\ call' = "final"
      /\ UNCHANGED <<program, n, stage, len, rooms, clen>>
      /\ length' = held * Block
      /\ touched' = [touched EXCEPT !.plain = Highest(@, clen)]
  BY DEF DecryptUpdate, Begun
<1>2. Blocks' = Blocks /\ Block = 16
  BY <1>1 DEF Blocks, Block
<1>3. touched.cipher <= 16 * Blocks /\ touched.plain <= 16 * Blocks /\ clen = 16 * Blocks
      /\ touched \in [cipher : Nat, plain : Nat] /\ n \in Int
      /\ rooms \in [cipher : Int, plain : Int]
  BY <1>1 DEF IInv, Decrypted, Types
<1>4. held * Block = 16 * (Blocks - 1) /\ held * Block \in Nat
  BY <1>2, <1>3, Measure, <1>1
<1> HIDE DEF held
<1>5. /\ touched'.plain = Highest(touched.plain, 16 * Blocks)
      /\ touched'.cipher = touched.cipher
      /\ touched' \in [cipher : Nat, plain : Nat] /\ touched'.plain <= 16 * Blocks
  BY <1>1, <1>3, <1>4, Measure DEF Highest
<1> QED BY <1>1, <1>2, <1>3, <1>4, <1>5, Measure
        DEF IInv, Fits, Types, Encrypted, Decrypted, Unbegun, InBounds, Begun

LEMMA DecryptFinalKept == IInv /\ DecryptFinal => IInv'
<1> SUFFICES ASSUME IInv, DecryptFinal PROVE IInv'
  OBVIOUS
<1>1. Begun /\ stage = "decrypt" /\ call = "final" /\ call' = "free"
      /\ UNCHANGED <<program, n, stage, len, rooms, clen>>
      /\ length' = length + (len % Block)
      /\ touched' = [touched EXCEPT !.plain = Highest(@, length + (len % Block))]
  BY DEF DecryptFinal, Begun, BytesOf
<1>2. Blocks' = Blocks
  BY <1>1 DEF Blocks
<1>3. touched.cipher <= 16 * Blocks /\ touched.plain <= 16 * Blocks /\ clen = 16 * Blocks
      /\ length = 16 * (Blocks - 1)
      /\ touched \in [cipher : Nat, plain : Nat] /\ clen \in Nat /\ n \in Int
      /\ rooms \in [cipher : Int, plain : Int]
  BY <1>1 DEF IInv, Decrypted, Types
<1>4. length + (len % Block) = len
  BY <1>1, <1>3, Measure
<1>5. /\ touched'.plain = Highest(touched.plain, len)
      /\ touched'.cipher = touched.cipher
      /\ touched' \in [cipher : Nat, plain : Nat] /\ touched'.plain <= 16 * Blocks
  BY <1>1, <1>3, <1>4, Measure DEF Highest
<1> QED BY <1>1, <1>2, <1>3, <1>4, <1>5, Measure
        DEF IInv, Fits, Types, Encrypted, Decrypted, Unbegun, InBounds, Begun

LEMMA FreeDecryptKept == IInv /\ FreeDecrypt => IInv'
<1> SUFFICES ASSUME IInv, FreeDecrypt PROVE IInv'
  OBVIOUS
<1>1. Begun /\ stage = "decrypt" /\ call = "free" /\ stage' = "done"
      /\ UNCHANGED <<program, n, len, rooms, length, clen>>
      /\ touched' = IF program = "sample" THEN [touched EXCEPT !.plain = Highest(@, length + 1)]
                    ELSE touched
  BY DEF FreeDecrypt, Begun
<1>2. Blocks' = Blocks
  BY <1>1 DEF Blocks
<1>3. touched.cipher <= 16 * Blocks /\ touched.plain <= 16 * Blocks /\ length = len
      /\ touched \in [cipher : Nat, plain : Nat] /\ clen \in Nat /\ n \in Int
      /\ rooms \in [cipher : Int, plain : Int]
  BY <1>1 DEF IInv, Decrypted, Types
<1>4. CASE program = "sample"
  <2>1. /\ touched'.plain = Highest(touched.plain, len + 1) /\ touched'.cipher = touched.cipher
        /\ touched' \in [cipher : Nat, plain : Nat] /\ touched'.plain <= 16 * Blocks
    BY <1>1, <1>3, <1>4, Measure DEF Highest
  <2> QED BY <1>1, <1>2, <1>3, <2>1, Measure
          DEF IInv, Fits, Types, Encrypted, Decrypted, Unbegun, InBounds, Begun
<1>5. CASE program # "sample"
  BY <1>1, <1>2, <1>3, <1>5, Measure
     DEF IInv, Fits, Types, Encrypted, Decrypted, Unbegun, InBounds, Begun
<1> QED BY <1>4, <1>5

\* Every step keeps the invariant.
LEMMA Steps == SampleFits /\ IInv /\ [Next]_vars => IInv'
<1> SUFFICES ASSUME SampleFits, IInv, [Next]_vars PROVE IInv'
  OBVIOUS
<1>1. CASE UNCHANGED vars
  BY <1>1 DEF vars, IInv, Fits, Types, Encrypted, Decrypted, Unbegun, InBounds, Begun, Blocks
<1> QED BY <1>1, SampleKept, TestKept, CallKept, ErrorsKept, EncryptUpdateKept,
           EncryptFinalKept, FreeEncryptKept, DecryptUpdateKept, DecryptFinalKept,
           FreeDecryptKept DEF Next

\* encrypt and decrypt write within their buffers for every number of ints, every
\* number of encryptions and every width of an int, when the buffers of SSLsample are
\* long enough for its text: the padded block fits behind the text in the ciphertext, and
\* again in the text while it is decrypted.
THEOREM StaysInBounds == SampleFits /\ Spec => []InBounds
<1>1. IInv => InBounds
  BY DEF IInv
<1>2. ASSUME SampleFits PROVE Spec => []InBounds
  <2>1. Init => IInv
    BY <1>2, Start
  <2>2. IInv /\ [Next]_vars => IInv'
    BY <1>2, Steps
  <2> QED BY <2>1, <2>2, <1>1, PTL DEF Spec
<1> QED BY <1>2

-----------------------------------------------------------------------------
(* Why the text comes back: what is in the ciphertext and in the text at each *)
(* call.                                                                       *)

\* The ciphertext of the first blocks, and the text they stand for.
Prefix(k) == [b \in 1..k |-> b]
Pieces(k) == [b \in 1..k |-> <<b, BytesOf(b)>>]

Ciphered == stage = "encrypt" =>
    /\ call \in {"new", "init", "update"} => cipher \in {Prefix(0), Prefix(Blocks - 1), Prefix(Blocks)}
    /\ call = "final" => cipher \in {Prefix(Blocks - 1), Prefix(Blocks)}
    /\ call = "free" => cipher = Prefix(Blocks)
Deciphered == stage = "decrypt" =>
    /\ cipher = Prefix(Blocks)
    /\ call = "final" => plain = Pieces(Blocks - 1)
    /\ call = "free" => plain = Pieces(Blocks)
Returned == stage = "done" => length = len /\ plain = Pieces(Blocks)
\* The text is all of the ints, if its length is an int.
Measured == Begun /\ program = "test" /\ 4 * n <= IntMax => len = 4 * n
Fresh == stage = "start" => cipher = <<>>

TextInv == Ciphered /\ Deciphered /\ Returned /\ Measured /\ Fresh

LEMMA PrefixLength ==
    ASSUME NEW k \in Nat
    PROVE  Len(Prefix(k)) = k /\ \A b \in 1..k : Prefix(k)[b] = b
BY DEF Prefix

\* Writing the first blocks again, over none, all or all but one of the blocks there are.
LEMMA WrittenFirst ==
    ASSUME NEW w \in Nat, NEW j \in {0, w, w + 1}
    PROVE  Written(Prefix(j), 0, Prefix(w)) = IF j = w + 1 THEN Prefix(w + 1) ELSE Prefix(w)
<1>1. Len(Prefix(j)) = j /\ Len(Prefix(w)) = w /\ j \in Nat
  BY PrefixLength
<1>2. Highest(Len(Prefix(j)), 0 + Len(Prefix(w))) = IF j = w + 1 THEN w + 1 ELSE w
  BY <1>1 DEF Highest
<1>3. \A i \in 1..(IF j = w + 1 THEN w + 1 ELSE w) :
        (IF i > 0 /\ i <= 0 + Len(Prefix(w)) THEN Prefix(w)[i - 0] ELSE Prefix(j)[i]) = i
  BY <1>1, PrefixLength
<1> QED BY <1>2, <1>3 DEF Written, Prefix

\* Writing the last block behind those before it.
LEMMA WrittenLast ==
    ASSUME NEW w \in Nat, NEW j \in {w, w + 1}
    PROVE  Written(Prefix(j), w, <<w + 1>>) = Prefix(w + 1)
<1>1. Len(Prefix(j)) = j /\ j \in Nat /\ Len(<<w + 1>>) = 1
  BY PrefixLength
<1>2. Highest(Len(Prefix(j)), w + Len(<<w + 1>>)) = w + 1
  BY <1>1 DEF Highest
<1>3. \A i \in 1..(w + 1) :
        (IF i > w /\ i <= w + Len(<<w + 1>>) THEN <<w + 1>>[i - w] ELSE Prefix(j)[i]) = i
  BY <1>1, PrefixLength
<1> QED BY <1>2, <1>3 DEF Written, Prefix

LEMMA TextStart == Init => TextInv
BY DEF Init, TextInv, Ciphered, Deciphered, Returned, Measured, Fresh, Begun

LEMMA SampleText == IInv /\ TextInv /\ StartSample => TextInv'
<1> SUFFICES ASSUME IInv, TextInv, StartSample PROVE TextInv'
  OBVIOUS
<1>1. stage' = "encrypt" /\ call' = "new" /\ cipher' = <<>> /\ program' = "sample"
  BY DEF StartSample, IInv, Unbegun, TextInv, Fresh
<1>2. Prefix(0) = <<>>
  BY DEF Prefix
<1>3. cipher' \in {Prefix(0), Prefix(Blocks' - 1), Prefix(Blocks')}
  BY <1>1, <1>2
<1> QED BY <1>1, <1>3 DEF TextInv, Ciphered, Deciphered, Returned, Measured, Fresh, Prefix

LEMMA TestText == IInv /\ TextInv /\ StartTest => TextInv'
<1> SUFFICES ASSUME IInv, TextInv, StartTest PROVE TextInv'
  OBVIOUS
<1> DEFINE n4 == Wrapped(4 * n)
<1>1. /\ stage' \in {"encrypt", "aborted", "undefined"}
      /\ stage' = "encrypt" => n >= -4 /\ n4 >= 0
      /\ call' = "new" /\ cipher' = <<>> /\ len' = n4 /\ n' = n
  <2>1. n \in Int /\ n4 \in Int
    BY Wrapping DEF IInv, Types
  <2>2. stage = "start" /\ call = "new" /\ cipher = <<>>
    BY DEF StartTest, IInv, Unbegun, TextInv, Fresh
  <2> HIDE DEF n4
  <2>3. n4 = Wrapped(4 * n)
    BY DEF n4
  <2> QED BY <2>1, <2>2, <2>3 DEF StartTest, Place
<1>2. Prefix(0) = <<>>
  BY DEF Prefix
<1>3. cipher' \in {Prefix(0), Prefix(Blocks' - 1), Prefix(Blocks')}
  BY <1>1, <1>2
<1>4. stage' = "encrypt" /\ 4 * n <= IntMax => len' = 4 * n
  <2> SUFFICES ASSUME stage' = "encrypt", 4 * n <= IntMax PROVE len' = 4 * n
    OBVIOUS
  <2>1. n \in Int /\ n >= -4 /\ n4 >= 0 /\ IntMax \in Nat /\ IntMax >= 16
    BY <1>1, CipherAssumption DEF IInv, Types
  <2>2. /\ n4 \in Int
        /\ 4 * n \in 0..IntMax => n4 = 4 * n
        /\ 4 * n >= -(IntMax + 1) => n4 <= 4 * n
    BY <2>1, Wrapping
  <2> HIDE DEF n4
  <2> QED BY <1>1, <2>1, <2>2
<1> QED BY <1>1, <1>3, <1>4 DEF TextInv, Ciphered, Deciphered, Returned, Measured, Fresh, Begun, Prefix

\* Calls that leave the text alone.
LEMMA CallText == IInv /\ TextInv /\ (NewContext \/ InitContext \/ HandleErrors) => TextInv'
BY DEF NewContext, InitContext, HandleErrors, TextInv, Ciphered, Deciphered, Returned, Measured,
       Fresh, Begun, Running, Prefix, Pieces, Blocks, BytesOf

LEMMA EncryptUpdateText == IInv /\ TextInv /\ EncryptUpdate => TextInv'
<1> SUFFICES ASSUME IInv, TextInv, EncryptUpdate PROVE TextInv'
  OBVIOUS
<1>1. stage = "encrypt" /\ Begun /\ call' = "final" /\ UNCHANGED <<stage, program, n, len>>
      /\ cipher' = Written(cipher, 0, Prefix(Blocks - 1))
      /\ cipher \in {Prefix(0), Prefix(Blocks - 1), Prefix(Blocks)}
  BY DEF EncryptUpdate, Begun, TextInv, Ciphered, Prefix
<1>2. (Blocks - 1) \in Nat /\ Blocks = (Blocks - 1) + 1 /\ Blocks' = Blocks
  BY <1>1, Measure DEF Blocks
<1>3. cipher' \in {Prefix(Blocks - 1), Prefix(Blocks)}
  <2>1. PICK j \in {0, Blocks - 1, (Blocks - 1) + 1} : cipher = Prefix(j)
    BY <1>1, <1>2
  <2> QED BY <1>1, <1>2, <2>1, WrittenFirst
<1> QED BY <1>1, <1>2, <1>3 DEF TextInv, Ciphered, Deciphered, Returned, Measured, Fresh, Begun

LEMMA EncryptFinalText == IInv /\ TextInv /\ EncryptFinal => TextInv'
<1> SUFFICES ASSUME IInv, TextInv, EncryptFinal PROVE TextInv'
  OBVIOUS
<1>1. stage = "encrypt" /\ Begun /\ call = "final" /\ call' = "free"
      /\ UNCHANGED <<stage, program, n, len>>
      /\ cipher' = Written(cipher, length \div Block, <<Blocks>>)
      /\ cipher \in {Prefix(Blocks - 1), Prefix(Blocks)}
      /\ length = 16 * (Blocks - 1)
  BY DEF EncryptFinal, Begun, TextInv, Ciphered, IInv, Encrypted
<1>2. (Blocks - 1) \in Nat /\ Blocks = (Blocks - 1) + 1 /\ Blocks' = Blocks
  BY <1>1, Measure DEF Blocks
<1>3. length \div Block = Blocks - 1
  BY <1>1, <1>2 DEF Block
<1>4. cipher' = Prefix(Blocks)
  <2>1. PICK j \in {Blocks - 1, (Blocks - 1) + 1} : cipher = Prefix(j)
    BY <1>1, <1>2
  <2> QED BY <1>1, <1>2, <1>3, <2>1, WrittenLast
<1> QED BY <1>1, <1>2, <1>4 DEF TextInv, Ciphered, Deciphered, Returned, Measured, Fresh, Begun

LEMMA FreeEncryptText == IInv /\ TextInv /\ FreeEncrypt => TextInv'
<1> SUFFICES ASSUME IInv, TextInv, FreeEncrypt PROVE TextInv'
  OBVIOUS
<1>1. Begun /\ stage = "encrypt" /\ stage' \in {"encrypt", "decrypt"} /\ call' = "new"
      /\ UNCHANGED <<program, n, len, cipher>> /\ cipher = Prefix(Blocks) /\ Blocks' = Blocks
  BY DEF FreeEncrypt, Begun, TextInv, Ciphered, Blocks
<1> QED BY <1>1 DEF TextInv, Ciphered, Deciphered, Returned, Measured, Fresh, Begun

LEMMA DecryptUpdateText == IInv /\ TextInv /\ DecryptUpdate => TextInv'
<1> SUFFICES ASSUME IInv, TextInv, DecryptUpdate PROVE TextInv'
  OBVIOUS
<1>1. Begun /\ stage = "decrypt" /\ call' = "final" /\ UNCHANGED <<stage, program, n, len, cipher>>
      /\ plain' = [i \in 1..((clen \div Block) - 1) |-> <<cipher[i], BytesOf(cipher[i])>>]
      /\ cipher = Prefix(Blocks) /\ clen = 16 * Blocks
  BY DEF DecryptUpdate, Begun, TextInv, Deciphered, IInv, Decrypted
<1>2. Blocks \in Nat /\ Blocks >= 1 /\ Blocks' = Blocks
  BY <1>1, Measure DEF Blocks
<1>3. (clen \div Block) - 1 = Blocks - 1
  BY <1>1, <1>2 DEF Block
<1>4. \A i \in 1..(Blocks - 1) : cipher[i] = i
  BY <1>1, <1>2, PrefixLength
<1>5. plain' = Pieces(Blocks - 1)
  BY <1>1, <1>3, <1>4 DEF Pieces
<1>6. plain' = Pieces(Blocks - 1)'
  BY <1>1, <1>2, <1>5 DEF Pieces, BytesOf
<1>7. cipher' = Prefix(Blocks')
  BY <1>1, <1>2
<1> QED BY <1>1, <1>2, <1>6, <1>7 DEF TextInv, Ciphered, Deciphered, Returned, Measured, Fresh, Begun

LEMMA DecryptFinalText == IInv /\ TextInv /\ DecryptFinal => TextInv'
<1> SUFFICES ASSUME IInv, TextInv, DecryptFinal PROVE TextInv'
  OBVIOUS
<1>1. Begun /\ stage = "decrypt" /\ call = "final" /\ call' = "free"
      /\ UNCHANGED <<stage, program, n, len, cipher>>
      /\ plain' = Append(plain, <<Blocks, BytesOf(Blocks)>>)
      /\ plain = Pieces(Blocks - 1) /\ cipher = Prefix(Blocks)
  BY DEF DecryptFinal, Begun, TextInv, Deciphered
<1>2. Blocks \in Nat /\ Blocks >= 1 /\ Blocks' = Blocks
  BY <1>1, Measure DEF Blocks
<1>3. plain' = Pieces(Blocks)
  BY <1>1, <1>2 DEF Pieces
<1>4. plain' = Pieces(Blocks)'
  BY <1>1, <1>2, <1>3 DEF Pieces, BytesOf
<1>5. cipher' = Prefix(Blocks')
  BY <1>1, <1>2
<1> QED BY <1>1, <1>2, <1>4, <1>5 DEF TextInv, Ciphered, Deciphered, Returned, Measured, Fresh, Begun

LEMMA FreeDecryptText == IInv /\ TextInv /\ FreeDecrypt => TextInv'
<1> SUFFICES ASSUME IInv, TextInv, FreeDecrypt PROVE TextInv'
  OBVIOUS
<1>1. Begun /\ stage = "decrypt" /\ call = "free" /\ stage' = "done"
      /\ UNCHANGED <<program, n, len, cipher, plain, length>>
      /\ length = len /\ plain = Pieces(Blocks)
  BY DEF FreeDecrypt, Begun, TextInv, Deciphered, IInv, Decrypted
<1>2. plain' = Pieces(Blocks)'
  BY <1>1 DEF Pieces, BytesOf, Blocks
<1> QED BY <1>1, <1>2 DEF TextInv, Ciphered, Deciphered, Returned, Measured, Fresh, Begun

\* Every step keeps the text.
LEMMA TextSteps == IInv /\ TextInv /\ [Next]_vars => TextInv'
<1> SUFFICES ASSUME IInv, TextInv, [Next]_vars PROVE TextInv'
  OBVIOUS
<1>1. CASE UNCHANGED vars
  BY <1>1 DEF vars, TextInv, Ciphered, Deciphered, Returned, Measured, Fresh, Begun, Prefix,
              Pieces, Blocks, BytesOf
<1> QED BY <1>1, SampleText, TestText, CallText, EncryptUpdateText, EncryptFinalText,
           FreeEncryptText, DecryptUpdateText, DecryptFinalText, FreeDecryptText DEF Next

\* Whatever the number of ints and however often the ciphertext is written over, the
\* text is decrypted whole and in order, and its length is what decrypt returns.
THEOREM Recovered == SampleFits /\ Spec => []RoundTrip
<1>1. TextInv => RoundTrip
  BY DEF TextInv, Returned, Measured, RoundTrip, Begun, Pieces
<1>2. ASSUME SampleFits PROVE Spec => []RoundTrip
  <2>1. Init => IInv /\ TextInv
    BY <1>2, Start, TextStart
  <2>2. IInv /\ TextInv /\ [Next]_vars => (IInv /\ TextInv)'
    BY <1>2, Steps, TextSteps
  <2> QED BY <2>1, <2>2, <1>1, PTL DEF Spec
<1> QED BY <1>2

-----------------------------------------------------------------------------
(* The types of all of it. *)

\* The parts of TypeOK that are not about the ciphertext, the rounds that are left while
\* there is one, and that nothing has begun.
ScalarsOK ==
    /\ program \in {"test", "sample"} /\ n \in Numbers \cup {0}
    /\ stage \in {"start", "encrypt", "decrypt", "done", "aborted", "undefined"}
    /\ call \in {"new", "init", "update", "final", "free"}
    /\ len \in Int
    /\ rounds \in 0..(Count + 1)
    /\ contexts \in 0..1 /\ (Running => contexts = IF call = "new" THEN 0 ELSE 1)
    /\ stage = "encrypt" => rounds >= 1
    /\ stage = "start" => call = "new" /\ contexts = 0
CipherOK == \A i \in DOMAIN cipher : cipher[i] \in 1..Blocks

LEMMA ScalarsStart == Init => ScalarsOK
BY CipherAssumption DEF Init, ScalarsOK, Running

LEMMA ScalarsBegin == ScalarsOK /\ (StartSample \/ StartTest) => ScalarsOK'
<1> SUFFICES ASSUME ScalarsOK, StartSample \/ StartTest PROVE ScalarsOK'
  OBVIOUS
<1>1. Count \in Nat /\ TextLen \in Nat
  BY CipherAssumption
<1>2. CASE StartSample
  BY <1>1, <1>2 DEF ScalarsOK, StartSample, Place, Running
<1>3. CASE StartTest
  <2>1. n \in Int
    BY CipherAssumption DEF ScalarsOK
  <2>2. Wrapped(4 * n) \in Int
    BY <2>1, Wrapping
  <2>3. len' = Wrapped(4 * n) /\ rounds' = 1 + Count /\ stage' \in {"aborted", "undefined", "encrypt"}
        /\ UNCHANGED <<program, n, call, contexts>> /\ stage = "start"
    BY <1>3 DEF StartTest, Place
  <2> QED BY <1>1, <2>2, <2>3 DEF ScalarsOK, Running
<1> QED BY <1>2, <1>3

LEMMA ScalarsCalls ==
    ScalarsOK /\ (NewContext \/ InitContext \/ EncryptUpdate \/ EncryptFinal \/ DecryptUpdate
                  \/ DecryptFinal \/ HandleErrors) => ScalarsOK'
BY CipherAssumption
   DEF ScalarsOK, Running, NewContext, InitContext, EncryptUpdate, EncryptFinal, DecryptUpdate,
       DecryptFinal, HandleErrors

LEMMA ScalarsFree == ScalarsOK /\ (FreeEncrypt \/ FreeDecrypt) => ScalarsOK'
<1> SUFFICES ASSUME ScalarsOK, FreeEncrypt \/ FreeDecrypt PROVE ScalarsOK'
  OBVIOUS
<1>1. Count \in Nat /\ rounds \in Int
  BY CipherAssumption DEF ScalarsOK
<1> QED BY <1>1 DEF ScalarsOK, Running, FreeEncrypt, FreeDecrypt

\* Before each call the ciphertext is blocks of the text.
LEMMA BlocksTyped == ScalarsOK /\ IInv /\ TextInv /\ Running => CipherOK
<1> SUFFICES ASSUME ScalarsOK, IInv, TextInv, Running PROVE CipherOK
  OBVIOUS
<1>1. Begun /\ stage \in {"encrypt", "decrypt"}
  BY DEF Begun, Running
<1>2. Blocks \in Nat /\ Blocks >= 1
  BY <1>1, Measure
<1>3. \E m \in 0..Blocks : cipher = Prefix(m)
  <2>1. cipher \in {Prefix(0), Prefix(Blocks - 1), Prefix(Blocks)}
    BY <1>1 DEF ScalarsOK, TextInv, Ciphered, Deciphered
  <2>2. 0 \in 0..Blocks /\ Blocks - 1 \in 0..Blocks /\ Blocks \in 0..Blocks
    BY <1>2
  <2> QED BY <2>1, <2>2
<1>4. PICK m \in 0..Blocks : cipher = [b \in 1..m |-> b]
  BY <1>3 DEF Prefix
<1> QED BY <1>2, <1>4 DEF CipherOK

\* A step that changes the ciphertext, or the text, is at one of the calls afterwards,
\* or has written nothing.
LEMMA CipherStep ==
    ScalarsOK /\ IInv /\ TextInv /\ CipherOK /\ [Next]_vars
    /\ ScalarsOK' /\ IInv' /\ TextInv' => CipherOK'
<1> SUFFICES ASSUME ScalarsOK, IInv, TextInv, CipherOK, [Next]_vars, ScalarsOK', IInv', TextInv'
             PROVE  CipherOK'
  OBVIOUS
<1>1. CASE Running'
  BY <1>1, BlocksTyped, PTL
<1>2. CASE ~Running'
  <2>1. CASE stage = "start"
    <3>1. cipher' = <<>>
      BY <2>1 DEF TextInv, Fresh, Next, StartSample, StartTest, NewContext, InitContext,
         EncryptUpdate, EncryptFinal, FreeEncrypt, DecryptUpdate, DecryptFinal, FreeDecrypt,
         HandleErrors, Running, vars
    <3> QED BY <3>1 DEF CipherOK
  <2>2. CASE stage # "start"
    <3>1. UNCHANGED <<cipher, len>>
      BY <1>2, <2>2 DEF Next, StartSample, StartTest, NewContext, InitContext,
         EncryptUpdate, EncryptFinal, FreeEncrypt, DecryptUpdate, DecryptFinal, FreeDecrypt,
         HandleErrors, Running, vars
    <3> QED BY <3>1 DEF CipherOK, Blocks
  <2> QED BY <2>1, <2>2
<1> QED BY <1>1, <1>2

\* One context at a time, allocated by new and freed before the next, and only blocks of
\* the text in the ciphertext: for every number of ints and of encryptions.
THEOREM Typing == SampleFits /\ Spec => []TypeOK
<1> DEFINE Inv == ScalarsOK /\ CipherOK /\ IInv /\ TextInv
<1>1. ASSUME SampleFits PROVE Spec => []TypeOK
  <2>1. Init => Inv
    <3>1. Init => CipherOK
      BY DEF Init, CipherOK
    <3> QED BY <1>1, <3>1, ScalarsStart, Start, TextStart
  <2>2. Inv /\ [Next]_vars => Inv'
    <3> SUFFICES ASSUME Inv, [Next]_vars PROVE Inv'
      OBVIOUS
    <3>1. IInv' /\ TextInv'
      BY <1>1, Steps, TextSteps
    <3>2. ScalarsOK'
      <4>1. CASE UNCHANGED vars
        BY <4>1 DEF vars, ScalarsOK, Running
      <4> QED BY <4>1, ScalarsBegin, ScalarsCalls, ScalarsFree DEF Next
    <3> QED BY <3>1, <3>2, CipherStep
  <2>3. Inv => TypeOK
    BY DEF TypeOK, ScalarsOK, CipherOK, IInv, Fits, Types, Begun
  <2> QED BY <2>1, <2>2, <2>3, PTL DEF Spec
<1> QED BY <1>1
=============================================================================
