------------------------------ MODULE MCFuzzer ------------------------------
EXTENDS Fuzzer

Byte(b, bits) == [x \in Bytes |-> IF x = b THEN bits ELSE {}]
Quick == [fault |-> "none", trace |-> [x \in Bytes |-> {0}], factor |-> 1,
          codes |-> <<0, 2>>, annotations |-> <<<<0>>, <<0, 2>>>>]
Deep == [fault |-> "none", trace |-> Byte(1, {1}), factor |-> 2,
         codes |-> <<0, 2>>, annotations |-> <<<<0, 2>>, <<0, 5>>>>]
Hang == [fault |-> "tmout", trace |-> Byte(1, {0}), factor |-> 3,
         codes |-> <<0, 5>>, annotations |-> <<<<0, 5>>, <<>>>>]
Crash == [fault |-> "crash", trace |-> Byte(1, {0}), factor |-> 1,
          codes |-> <<>>, annotations |-> <<<<>>>>]

MCSeeds == <<2>>
MCResults == {Quick, Deep, Hang, Crash}
=============================================================================
