--------------------------- MODULE MCFrameStream ---------------------------
(* FrameStream for TLC: bytes of two bits, a length of two bytes, a ring   *)
(* of 6 bytes that may grow to 12 and 24.                                  *)
EXTENDS FrameStream

MCByte == 0..3

z == <<"digit", 0>>     \* "0"
a == <<"lower", 0>>     \* "a", the last hex digit here
Ua == <<"upper", 0>>    \* "A"
g == <<"lower", 1>>     \* a letter behind the hex digits

M(id, data) == [id |-> id, data |-> data]

\* good messages: two ids, one of them twice
Three == << M(<<z, a>>, <<2>>), M(<<a, z>>, <<1, 3>>), M(<<z, a>>, <<0>>) >>

\* one without an id
NoId == << M(<< >>, <<1>>), M(<<a, z>>, <<2, 2>>) >>

\* three ids with the same bytes: one canonical, one not hex, one odd
OneBox == << M(<<a, z>>, <<1>>), M(<<Ua, g>>, <<3>>), M(<<a, z, a>>, <<2>>) >>

\* odd ones, between two good ones
Between(m) == << M(<<z, a>>, <<2>>), m, M(<<a, a, z, z>>, << >>) >>

MCScripts ==
  { Three, NoId, OneBox,
    Between(M(<<z>>, << >>)),                        \* no id left and no data
    Between(M(<<z, a, a>>, <<3>>)),                  \* an id of odd length
    Between(M(<<Ua, g>>, <<1>>)),                    \* not hex digits
    Between(M(<<a, a, a, a, a, a>>, <<1>>)),         \* id length 4: written as 0
    Between(M(<<a, z, a, a, z, a, a, a>>, <<1>>)) }  \* id length 5: written as 1
=============================================================================
