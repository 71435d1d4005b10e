----------------------------- MODULE KeyPosition -----------------------------
(***************************************************************************)
(* lib/src/gkcrypt.c: a packet carries the low 32 bits of its position in  *)
(* the key stream.  chiaki_key_state_request_pos widens them to 64 bits,   *)
(* and chiaki_gkcrypt_gmac chooses the MAC key by the position.  Packets   *)
(* of the console arrive out of order, up to half the circle of 2^32.      *)
(***************************************************************************)
EXTENDS SeqNum

CONSTANTS MaxPos,       \* bound: positions
          GmacRefresh,  \* CHIAKI_GKCRYPT_GMAC_KEY_REFRESH_KEY_POS
          Jitter        \* how much older or newer a packet may be than the last one

JitterAssumption == /\ Jitter \in Nat /\ Jitter < Half
                           /\ MaxPos \in Nat /\ GmacRefresh \in Nat \ {0}

VARIABLES key_state,                \* ChiakiKeyState.prev
          widened,                  \* the last packet's true position and the one computed
          key_gmac_index_current,
          mac                       \* the last MAC: its position and the index of its key

vars == <<key_state, widened, key_gmac_index_current, mac>>

Init == /\ key_state = 0 /\ widened = [true |-> 0, computed |-> 0]
        /\ key_gmac_index_current = 0 /\ mac = [pos |-> 0, index |-> 0]

-----------------------------------------------------------------------------
(* The GMAC key.  Only a newer index becomes the current one.               *)

Larger(a, b) == IF a > b THEN a ELSE b

GmacIndex(pos) == (IF pos > 0 THEN pos - 1 ELSE 0) \div GmacRefresh

Gmac ==
  /\ \E pos \in 0 .. MaxPos :
       /\ key_gmac_index_current' = Larger(GmacIndex(pos), key_gmac_index_current)
       /\ mac' = [pos |-> pos,
                  index |-> IF GmacIndex(pos) < key_gmac_index_current THEN GmacIndex(pos)
                            ELSE key_gmac_index_current']
  /\ UNCHANGED <<key_state, widened>>

-----------------------------------------------------------------------------
(* Widening: M is 2^32 in the code                                          *)

\* mutant: a packet from before the wrap is not seen as such
WidenUpOnly(prev, low) ==
  LET high == prev \div M
  IN (IF Gt(low, prev % M) /\ low < prev % M THEN high + 1 ELSE high) * M + low

Widen(prev, low) ==
  LET prevLow == prev % M
      prevHigh == prev \div M
      high == IF Gt(low, prevLow) /\ low < prevLow THEN prevHigh + 1
              ELSE IF Lt(low, prevLow) /\ low > prevLow /\ prevHigh > 0 THEN prevHigh - 1
              ELSE prevHigh
  IN high * M + low

\* A packet of the console's true position pos.
Arriving == {p \in key_state - Jitter .. key_state + Jitter : p \in 0 .. MaxPos}
Widens(pos) == widened' = [true |-> pos, computed |-> Widen(key_state, pos % M)]

\* takion_handle_packet_mac commits the position only when the MAC was right.
HandlePacketMac ==
  \E pos \in Arriving, right \in BOOLEAN :
    /\ Widens(pos) /\ key_state' = (IF right THEN widened'.computed ELSE key_state)
    /\ UNCHANGED <<key_gmac_index_current, mac>>

\* Parsing commits at once: a control message, also one whose tag or size is wrong
\* then, and a packet of video or audio.
Parses == /\ \E pos \in Arriving : Widens(pos) /\ key_state' = widened'.computed
          /\ UNCHANGED <<key_gmac_index_current, mac>>
ParseMessage == Parses
AvPacketParse == Parses

-----------------------------------------------------------------------------
Next == Gmac \/ HandlePacketMac \/ ParseMessage \/ AvPacketParse

Spec == Init /\ [][Next]_vars

TypeOK == /\ key_state \in 0 .. MaxPos
          /\ widened \in [true : 0 .. MaxPos, computed : Nat]
          /\ key_gmac_index_current \in 0 .. MaxPos
          /\ mac \in [pos : 0 .. MaxPos, index : Nat]

\* The 64-bit position is right for every packet that is less than half the
\* 32-bit circle away from the last committed one, on both sides of a wrap.
RightPosition == widened.computed = widened.true

\* A packet's MAC is made with the key of its own position, also when packets
\* from both sides of a refresh come in turn.
RightMacKey == mac.index = GmacIndex(mac.pos)
=============================================================================
