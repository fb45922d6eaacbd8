------------------------------ MODULE IpAddress ------------------------------
(***************************************************************************)
(* Addresses as text: is_valid_ip_address (common.c), the reading lwIP     *)
(* gives them, and how settings.json shows them.                           *)
(*                                                                         *)
(* A text is the sequence of what is between its dots; such a group is a   *)
(* sequence of characters, digits being 0 .. 9.                            *)
(***************************************************************************)
EXTENDS Naturals, Sequences, FiniteSets, SequencesExt

IsNumber(group) == \A k \in DOMAIN group : group[k] <= 9

Reading(base, group) ==
  LET value[n \in 0 .. Len(group)] ==
        IF n = 0 THEN 0 ELSE value[n - 1] * base + group[n]
  IN  value[Len(group)]

\* strlen
Length(text) ==
  LET length[n \in 0 .. Len(text)] ==
        IF n = 0 THEN 0 ELSE length[n - 1] + Len(text[n]) + (IF n = 1 THEN 0 ELSE 1)
  IN  length[Len(text)]

\* strtok_r takes dots in a row as one.
Groups(text) == {k \in DOMAIN text : text[k] # <<>>}

\* Faulty variant: the groups are counted as if they were the dots.
is_valid_ip_addressGroups(text, behind) ==
  LET groups == Groups(text)
  IN  /\ Length(text) <= 15
      /\ \A k \in groups : IsNumber(text[k]) /\ Reading(10, text[k]) <= 255
      /\ IF Length(text) = 15 THEN behind /\ Cardinality(groups) \in 1 .. 3
                              ELSE Cardinality(groups) = 3

\* strncpy leaves the last byte of tmpstr unset when the text fills the rest:
\* what lies behind it may spoil the last group, or complete the address.
is_valid_ip_address(text, behind) ==
  LET groups == Groups(text)
  IN  /\ Length(text) <= 15
      /\ \A k \in groups : IsNumber(text[k]) /\ Reading(10, text[k]) <= 255
      /\ IF Length(text) = 15 THEN behind /\ Cardinality(groups) \in 1 .. 4
                              ELSE Cardinality(groups) = 4

\* ip4addr_aton: a group that begins with 0 is octal.
Octal(group) == Len(group) > 1 /\ group[1] = 0

Part(group) == Reading(IF Octal(group) THEN 8 ELSE 10, group)

Parts(text) ==
  \A k \in DOMAIN text :
    /\ text[k] # <<>> /\ IsNumber(text[k])
    /\ Octal(text[k]) => \A d \in DOMAIN text[k] : text[k][d] <= 7

IPADDR_NONE == <<255, 255, 255, 255>>

\* ipaddr_addr, as far as texts that is_valid_ip_address may let pass go:
\* when there are three groups the last one stands for two bytes.
ipaddr_addr(text) ==
  CASE Parts(text) /\ Len(text) = 4 -> [k \in 1 .. 4 |-> Part(text[k])]
    [] Parts(text) /\ Len(text) = 3 -> <<Part(text[1]), Part(text[2]),
                                         Part(text[3]) \div 256, Part(text[3]) % 256>>
    [] OTHER -> IPADDR_NONE

\* IPSTR
Digits(n) ==
  CASE n > 99 -> <<n \div 100, (n \div 10) % 10, n % 10>>
    [] n \in 10 .. 99 -> <<n \div 10, n % 10>>
    [] OTHER -> <<n>>

\* Faulty variant: bytes are shown with three digits each.
AsTextPadded(addr) ==
  [k \in 1 .. 4 |-> <<addr[k] \div 100, (addr[k] \div 10) % 10, addr[k] % 10>>]

AsText(addr) == [k \in 1 .. 4 |-> Digits(addr[k])]

\* What people mean by an address: four numbers below 256.
IsAddress(text) ==
  /\ Len(text) = 4
  /\ \A k \in 1 .. 4 : text[k] # <<>> /\ IsNumber(text[k]) /\ Reading(10, text[k]) <= 255

Meaning(text) == [k \in DOMAIN text |-> Reading(10, text[k])]
=============================================================================
