----------------------------- MODULE MCDataPart -----------------------------
(* Bytes of four bits, groups of three, a word of eight and types 0 to 6.    *)
EXTENDS DataPart, SequencesExt

Key      == <<2, 7>>
FewKeys  == {Key}
Sizes    == 1 .. 4
V0       == {2, 3}
OneSignature == {<<0, 0>>}
SmallTypes == [h |-> 0, m |-> 1, x |-> 2, c |-> 3, r |-> 5, f |-> 6] @@ ("9" :> 4)

Hash == <<5, 9>>
Hop(height, tx, out, fee) ==
  [key |-> Key, scid |-> [height |-> height, tx |-> tx, out |-> out],
   fee |-> fee, ppm |-> 15, delta |-> 2]

Programs == {<<9>>, <<5, 9>>, <<0, 15, 1>>, <<1, 2, 3, 4, 5>>}
Texts ==
  [form : {"base58"}, version : {"00", "6f", "3f", "05", "c4", "7b", "99"}, hash : Programs,
   checksum : BOOLEAN] \cup
  [form : {"bech32", "bech32m"}, hrp : {"bc", "tb", "bcrt"}, version : {0, 1, 2, 5},
   program : Programs] \cup
  [form : {"hex"}]

Bits2 == {0, 1, 3, 5, 6, 7, 9}
Values ==
  [h |-> {<<0, 1>>, <<15, 8>>},
   m |-> {<<0>>, <<1, 15, 7>>, [i \in 1 .. 47 |-> 15], [i \in 1 .. 48 |-> 15]},
   x |-> {-13, -6, 1, 5, 6, 8, 126, 127}, c |-> {1, 7, 8, 15},
   r |-> {<< >>, [i \in 1 .. 6 |-> Hop(1, 2, 3, 4)], [i \in 1 .. 7 |-> Hop(1, 2, 3, 4)]} \cup
         {<<Hop(height, tx, out, fee), Hop(7, 1, 2, 3)>> :
            height \in {1, 7, 8}, tx \in {0, 7, 9}, out \in {0, 3}, fee \in {1, 15, 16}},
   f |-> Texts] @@
  ("9" :> {NewFeatureVector(bits) : bits \in UNION {[1 .. n -> Bits2] : n \in 0 .. 2}})

Few == [h |-> {<<0, 1>>}, m |-> {<<1>>}, x |-> {5, 126}, c |-> {1, 8}, r |-> {<<Hop(1, 2, 3, 4)>>},
        f |-> {[form |-> "base58", version |-> "05", hash |-> Hash, checksum |-> TRUE]}] @@
       ("9" :> {NewFeatureVector(<<9, 0>>)})

\* Every request has what validate asks for.
Request(network, time, fields) ==
  [network |-> network, time |-> time,
   listed  |-> IF "h" \in ToSet([i \in DOMAIN fields |-> fields[i][1]])
               THEN [i \in DOMAIN fields |-> fields[i][1]]
               ELSE <<"h">> \o [i \in DOMAIN fields |-> fields[i][1]],
   field   |-> FoldLeft(LAMBDA f, kv : [f EXCEPT ![kv[1]] = kv[2]],
                        [[k \in Kinds |-> Absent] EXCEPT !.h = Hash], fields)]

Requests ==
  {Request("mainnet", time, <<>>) : time \in {0, 1, 63, 64}} \cup
  UNION {{Request("mainnet", 9, <<<<k, v>>>>) : v \in Values[k]} : k \in Kinds \ {"f"}} \cup
  {Request(n, 9, <<<<"f", v>>, <<"c", 8>>>>) : n \in Networks, v \in Texts} \cup
  UNION {{Request("testnet", 9, <<<<k, v>>, <<l, w>>>>) : v \in Few[k], w \in Few[l]} :
           <<k, l>> \in {p \in Kinds \X Kinds : p[1] # p[2]}}

RawFrame(type, data) == <<type, Len(data) \div 8, Len(data) % 8>> \o data
HashFrame == RawFrame(0, ToGroups(Hash))
Part(network, tail) == [prefix |-> Prefix[network], data |-> <<1, 5>> \o HashFrame \o tail \o <<0, 0>>]

Data3 == UNION {[1 .. n -> 0 .. 7] : n \in 0 .. 3}
Hints ==
  {ToGroups(bytes) : bytes \in
     {HopBytes(Hop(7, 7, 3, 15)) \o HopBytes(Hop(1, 6, 0, 1)), <<1, 1>> \o Tail(Tail(HopBytes(Hop(1, 2, 3, 4)))),
      Tail(HopBytes(Hop(1, 2, 3, 4)))}}
Fallbacks == {<<v>> \o data : v \in 0 .. 7,
                data \in {ToGroups(p) : p \in Programs} \cup {<<1, 1, 1>>, << >>, <<3, 1, 7, 7>>}}
Repeated == {RawFrame(0, <<1, 2>>), RawFrame(4, <<1, 0>>), RawFrame(4, <<0, 2, 1>>),
             RawFrame(6, <<5>> \o ToGroups(Hash)), RawFrame(6, <<4>>), RawFrame(7, <<3>>),
             RawFrame(2, <<1, 7>>), RawFrame(2, << >>)}

\* `f' has a version, and there is one `r'.
Parts ==
  {Part("mainnet", RawFrame(type, data)) :
     <<type, data>> \in {td \in (0 .. 7) \X Data3 : td[1] = 6 => td[2] # << >>}} \cup
  {Part("testnet", RawFrame(5, data)) : data \in Hints} \cup
  {Part(n, RawFrame(6, data) \o RawFrame(3, <<7>>)) : n \in Networks, data \in Fallbacks} \cup
  {Part("mainnet", f \o g) : f \in Repeated, g \in Repeated} \cup
  {Part("mainnet", SubSeq(RawFrame(1, <<1, 2, 4>>), 1, n)) : n \in 0 .. 5} \cup
  {[prefix |-> "lnxx", data |-> HashFrame], [prefix |-> "lnbc", data |-> <<1, 5, 0, 0>>]}
=============================================================================
