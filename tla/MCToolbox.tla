------------------------------ MODULE MCToolbox ------------------------------
EXTENDS Toolbox
\* times: the clock before and after the epoch, microseconds at their ends
MCClock == {-1, 2}
\* messages and things in a byte of two bits
MCMessages == {<<"byte", 1>>, <<"short", 5>>, <<"string", <<1, 2>>>>}
MCThings == {<<"int", 3>>, <<"string", <<1, 2>>>>, <<"ints", <<1>>>>, <<"strings", <<<<1>>, <<>>>>>>}
\* base64 with 16 bytes and 8 characters: no key, a whole, a short, a long and
\* one with the padding character
MCTable == <<2, 3, 4, 5, 6, 7, 8, 9>>
MCToB64 == <<2, 3, 4, 5, 6, 7, 8, 10>>
MCKeys == {<<>>, <<9, 8, 7, 6, 5, 4, 3, 2>>, <<4>>, <<2, 3, 4, 5, 6, 7, 1, 9>>}
MCPlains == {<<>>, <<6>>, <<15>>, <<6, 15>>, <<15, 0>>, <<9, 7, 15>>, <<1, 7, 15, 12>>,
             <<1, 2, 3, 4, 5, 6, 7>>}
\* a delimiter and characters of one, two, three bytes and of none
MCWords == UNION {[1 .. n -> {44, 65, 233, 8364, 55296}] : n \in 0 .. 3}
             \cup {<<65, 44, 44, 65>>, <<233, 55296, 8364, 65>>, <<8364, 8364, 55296, 65>>}
MCNarrows == {<<130, 65>>, <<65, 195>>, <<226, 65>>, <<200, 65, 131>>}
==============================================================================
