-------------------------- MODULE MCPaymentRequest --------------------------
(***************************************************************************)
(* Requests for regtest.  Hashes have two bytes; what a conversion loses   *)
(* or refuses in the code, it loses or refuses here: an expiry is in       *)
(* milliseconds and written in seconds, c is cut to 16 bits, an address of *)
(* mainnet comes back as one of regtest, a legacy address of regtest is    *)
(* written and refused, the base fee of a hint is cut.                     *)
(***************************************************************************)
EXTENDS PaymentRequest, TLC

Second == 1000
Word16 == 65536

SmallParts == 0 .. 5
SmallSha256 == [long |-> <<4, 4>>]
HashData == (SmallParts \X SmallParts) \cup {<< >>, <<0>>, <<5>>, <<5, 0, 5>>}

SmallEncode ==
  [t \in HashTypes |-> [hash \in Hashes |-> hash]]
  @@ [d |-> [text |-> "text"],
      x |-> [v \in {500, 1000, 1500, 3600000} |-> v \div Second],
      f |-> [segwit |-> "v0", mainnet |-> "v0", newer |-> "v2", legacy |-> "pkh"]
              @@ [unparsable |-> Error],
      c |-> [v \in {18, 40} |-> v],
      m |-> [bytes |-> "bytes"] @@ [toolong |-> Error],
      n |-> ZeroKey :> "zerokey" @@ "key" :> "key",
      r |-> [hint |-> "hint", wide |-> "cut", cut |-> "cut"]]
  @@ "9" :> ([none |-> "zeros", odd |-> "odd"] @@ [unknown |-> Error])

SmallDecode ==
  [t \in HashTypes |-> [data \in HashData |-> data]]
  @@ [d |-> [text |-> "text"],
      x |-> [data \in {0, 1, 3600} |-> IF data = 0 THEN Absent ELSE data * Second],
      f |-> [v0 |-> "segwit"] @@ [v2 |-> Skip] @@ [pkh |-> Error],
      c |-> [data \in {18, 40, Word16, Word16 + 40} |->
               IF data % Word16 = 0 THEN Absent ELSE data % Word16],
      m |-> [bytes |-> "bytes"] @@ [empty |-> Absent],
      n |-> [key |-> "key"] @@ [zerokey |-> Error],
      r |-> [hint |-> "hint", cut |-> "cut"] @@ [short |-> Error]]
  @@ "9" :> ([zeros |-> "none", odd |-> "odd"] @@ [unknown |-> Error])

SmallValues ==
  [s |-> {<<1, 1>>}, p |-> {<<2, 2>>}, d |-> {"text"}, h |-> {<<3, 3>>},
   x |-> {500, 1500, 3600000}, f |-> DOMAIN SmallEncode.f, c |-> {18},
   m |-> {"bytes", "toolong"}, n |-> {}, r |-> {"hint", "wide"}]
  @@ "9" :> {"none", "unknown"}
SmallDefaults == [s |-> <<1, 1>>, p |-> <<2, 2>>, x |-> 3600000, c |-> 18, d |-> "text"]

SmallOther ==
  [s |-> {<<0>>}, p |-> {<<5, 5>>, <<5>>}, d |-> {"text"}, h |-> {<<0, 0>>, <<5, 0, 5>>},
   x |-> {0, 3600}, f |-> {"v0", "v2"}, c |-> {Word16, Word16 + 40},
   m |-> {"bytes", "empty"}, n |-> {"key"}, r |-> {"hint", "short"}]
  @@ "9" :> {"odd", "unknown"}

\* An invoice that has what BOLT 11 requires.
Required == <<[type |-> "p", data |-> <<1, 2>>], [type |-> "s", data |-> <<1, 1>>],
              [type |-> "h", data |-> <<3, 4>>]>>
=============================================================================
