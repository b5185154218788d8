-------------------------------- MODULE Cipher --------------------------------
(***************************************************************************)
(* The cipher of mProtocol.c: server and client share a table of bytes;    *)
(* a text is combined by XOR with the entries of the table from a place on *)
(* that a random number gives, sent along in the clear. Texts and table    *)
(* are arrays and begin at 0.                                              *)
(***************************************************************************)
EXTENDS Integers, Sequences

CONSTANTS
  BASE,        \* 256
  ByteXor(_, _),   \* of two bytes
  TABLE_LEN,   \* 4096 entries of secret
  POS_MOD,     \* 4093
  secret,
  TOKEN_LEN,   \* 32
  plainText    \* "yzmond:id*str&to!tongji@by#Auth^"

Byte == 0 .. BASE - 1

Array(len) == [0 .. len - 1 -> Byte]

ASSUME CipherAssumption ==
  /\ BASE \in Nat \ {0}
  /\ TABLE_LEN \in Nat \ {0}
  /\ POS_MOD \in 1 .. TABLE_LEN
  /\ secret \in Array(TABLE_LEN)
  /\ TOKEN_LEN \in Nat
  /\ plainText \in Array(TOKEN_LEN)

ASSUME XorAssumption ==
  \A a, b \in Byte : ByteXor(a, b) \in Byte /\ ByteXor(ByteXor(a, b), b) = a

(* The server's side; pos is what the client computes, too.                *)
ServerKey(randomNum, k) == secret[((randomNum % POS_MOD) + k) % TABLE_LEN]

Encrypted(text, randomNum) ==
  [k \in DOMAIN text |-> ByteXor(text[k], ServerKey(randomNum, k))]

(* Mutated forms; no specification uses them: the place in the table is    *)
(* reduced once only; it wraps around where pos does.                      *)
KeyNotReduced(randomNum, k) == secret[(randomNum + k) % TABLE_LEN]
KeyWrappedEarly(randomNum, k) == secret[(randomNum + k) % POS_MOD]

Key(randomNum, k) == secret[((randomNum % POS_MOD) + k) % TABLE_LEN]

(* strncmp() over the whole token, which holds no zero byte.               *)
Identify(token, randomNum) ==
  [k \in 0 .. TOKEN_LEN - 1 |-> ByteXor(token[k], Key(randomNum, k))] = plainText

(* The loop at the end of GenIdentify, over all of the body but the random *)
(* number at its end.                                                      *)
Covered(body, randomNum) ==
  [k \in DOMAIN body |-> ByteXor(body[k], Key(randomNum, k))]
=============================================================================
