----------------------------- MODULE MCEthereum -----------------------------
(* Two wallets, each on a network of its own, and two requests at a time.  Of *)
(* the amounts one is in Ether and loses a Wei, one is the same in Wei and is *)
(* kept, and one is negative.                                                *)
EXTENDS Ethereum, TLC

CONSTANTS w1, w2, sepolia, mainnet, r1, r2

MCAccount == {<<sepolia, w1>>, <<mainnet, w2>>}

\* One account has two amounts to choose from, the other one.
MCAsk == {<<<<sepolia, w1>>, <<"ether", 30>>>>, <<<<sepolia, w1>>, <<"wei", 30>>>>,
          <<<<mainnet, w2>>, <<"wei", -1>>>>}

MCSymmetry == Permutations({r1, r2})
=============================================================================
