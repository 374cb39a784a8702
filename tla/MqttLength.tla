---- MODULE MqttLength ----
(***************************************************************************)
(* The remaining length in the fixed header of an MQTT packet.             *)
(***************************************************************************)
EXTENDS Naturals

\* How many digits a remaining length is taken to have.
get_digits_remaining_len(n) ==
  CASE n < 128 -> 1
    [] n >= 128 /\ n < 16384 -> 2
    [] n >= 16384 /\ n < 2097151 -> 3
    [] n >= 2097151 /\ n < 268435455 -> 4
    [] n >= 268435455 -> 0

\* How many it has on the wire: base 128, at least one, until nothing remains.
encode_remaining_len(n) ==
  IF n \div 128 = 0 THEN 1
  ELSE IF (n \div 128) \div 128 = 0 THEN 2
  ELSE IF ((n \div 128) \div 128) \div 128 = 0 THEN 3
  ELSE 4
====
