---------------------------- MODULE MCClientPage ----------------------------
(* Templates of no to three variables, whose texts have one to four digits;    *)
(* those of 4000 overflow the buffer with any other long one.  Values in       *)
(* groups of two digits and 16 bits: every small number, those at the edges    *)
(* of the groups and at the ends of the types; doubles of hundredths to either *)
(* side of the 64 an unsigned int of 6 bits may hold.                          *)
EXTENDS ClientPage

Lengths == {0, 7, 45, 120, 1000, 4000}
Rests == {0, 1200}

McTemplates ==
    UNION {[pre : [1..n -> Lengths], rest : Rests] : n \in 0..3}

McProbe == [pre |-> <<7>>, rest |-> 0]
McWide == [pre |-> <<7, 45, 120>>, rest |-> 1200]

McSizeof == [type \in Types |-> IF type = 0 THEN 0 ELSE <<4, 4, 8, 8, 8, 4, 8, 16, 1>>[type]]
Field(type, n) == [type |-> type, in |-> n]
McUsual == <<Field(3, -1005), Field(5, 65535), Field(7, 995)>>
McOthers == {<<Field(1, -7), Field(0, 0), Field(2, 42)>>,
             <<Field(0, 0), Field(6, 1005), Field(4, -10000)>>,
             <<Field(4, 12), Field(8, 100), Field(1, 5)>>,
             <<Field(6, 450), Field(3, 9999), Field(9, 100)>>}
McAstray == {Field(1, 0)}

McUnsigned == 0..120 \cup 990..1010 \cup 9985..10015 \cup 19998..20002 \cup 65520..65535
McSigned == {-n : n \in 0..120 \cup 990..1010 \cup 9985..10015} \cup 0..15 \cup 9995..10005
            \cup -32768..-32760 \cup 32760..32767
McDoubles == -6405..-6395 \cup -1005..-995 \cup -110..110 \cup 440..460 \cup 980..1020
             \cup 1090..1105 \cup 6390..6410 \cup 9940..9960 \cup 9990..10005
=============================================================================
