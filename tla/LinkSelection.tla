---- MODULE LinkSelection ----
(***************************************************************************)
(* mesh_connect of the NCCL mesh plugin, as the patch                      *)
(* 0005-device-aware-link-selection rewrites it: the walk over the         *)
(* addresses that a peer advertises and the local NICs, which collects the *)
(* parallel links to the peer, and the choice of one by NCCL's device      *)
(* index.  NCCL (external) hands the devices, one for each NIC, to its     *)
(* channels in turn.                                                       *)
(***************************************************************************)
EXTENDS Naturals, FiniteSets, Sequences

CONSTANTS
  MESH_MAX_NICS,
  MaxAddrs,           \* bound on the addresses of the peer
  Caps,               \* values of NCCL_MESH_LINKS_PER_PEER
  MaxChannels         \* bound on the channels

ASSUME LinkSizes ==
  /\ MESH_MAX_NICS \in Nat /\ MaxAddrs \in Nat
  /\ Caps \subseteq Nat

VARIABLES
  fabric,       \* the local NICs: lane, and addresses that match the subnet;
                \* handle->num_addrs, and links_per_peer
  picks         \* the link of each channel

linkVars == <<fabric, picks>>

NumNics == Len(fabric.nics)

LinkInit ==
  /\ \E n \in 1 .. MESH_MAX_NICS, m \in 1 .. MaxAddrs :
       fabric \in [nics : [1 .. n -> [fast : BOOLEAN, reach : SUBSET (1 .. m)]],
                   addrs : {m}, cap : Caps]
  /\ picks = <<>>

(* The turns of the two inner loops: each address with each NIC.           *)
Turns ==
  [t \in 1 .. fabric.addrs * NumNics |->
     [addr |-> ((t - 1) \div NumNics) + 1, nic |-> ((t - 1) % NumNics) + 1]]

Known(found, n) == \E k \in 1 .. Len(found) : found[k].nic = n

(* Mutant: a NIC is a link for each address that it reaches.               *)
CollectsAgain(pass) ==
  LET turns == Turns
      f[t \in 0 .. Len(turns)] ==
        IF t = 0 THEN <<>>
        ELSE LET found == f[t - 1]
                 nic == fabric.nics[turns[t].nic]
             IN IF /\ Len(found) < MESH_MAX_NICS
                   /\ (pass = 0 => nic.fast) /\ turns[t].addr \in nic.reach
                THEN Append(found, turns[t]) ELSE found
  IN f[Len(turns)]

(* The links that a pass finds; pass 0 looks at the fast NICs only.        *)
Collect(pass) ==
  LET turns == Turns
      f[t \in 0 .. Len(turns)] ==
        IF t = 0 THEN <<>>
        ELSE LET found == f[t - 1]
                 nic == fabric.nics[turns[t].nic]
             IN IF /\ Len(found) < MESH_MAX_NICS
                   /\ (pass = 0 => nic.fast) /\ turns[t].addr \in nic.reach
                   /\ ~Known(found, turns[t].nic)
                THEN Append(found, turns[t]) ELSE found
  IN f[Len(turns)]

Cands == LET fast == Collect(0) IN IF fast # <<>> THEN fast ELSE Collect(1)

Usable ==
  IF fabric.cap > 0 /\ fabric.cap < Len(Cands) THEN fabric.cap ELSE Len(Cands)

Pick(dev) == (dev % Usable) + 1

(* The connection of one more channel.                                     *)
ConnectChannel ==
  /\ Cands # <<>> /\ Len(picks) < MaxChannels
  /\ picks' = Append(picks, Cands[Pick(Len(picks) % NumNics)])
  /\ UNCHANGED fabric

LinkNext == ConnectChannel

LinkSpec == LinkInit /\ [][LinkNext]_linkVars

-----------------------------------------------------------------------------
(* Properties. *)

(* The links that the search takes: the fast ones, or any if none is fast. *)
Searched ==
  LET links == [addr : 1 .. fabric.addrs, nic : 1 .. NumNics]
      live == {l \in links : l.addr \in fabric.nics[l.nic].reach}
      fast == {l \in live : fabric.nics[l.nic].fast}
  IN IF fast # {} THEN fast ELSE live

(* The search that the patch replaced: the first such address, and the     *)
(* first such NIC for it.                                                  *)
FirstMatch ==
  {l \in Searched : \A k \in Searched : l.addr < k.addr \/ (l.addr = k.addr /\ l.nic <= k.nic)}

ChannelsOn(link) == Cardinality({c \in 1 .. Len(picks) : picks[c] = link})

(* "dev % usable spreads the channels evenly over the cables": each NIC    *)
(* that the search might take is a link once, a slow one only if no fast   *)
(* one is there, and the first link is that of the old search; a channel   *)
(* has one of the first usable links, and the loads of two of these differ *)
(* by one channel if their number divides that of the devices, and else by *)
(* no more than one in each round of the devices.                          *)
LinksSpread ==
  LET cands == Cands
      usable == Usable
  IN /\ IF cands = <<>> THEN FirstMatch = {} ELSE FirstMatch = {cands[1]}
     /\ \A j, k \in 1 .. Len(cands) : cands[j].nic = cands[k].nic => j = k
     /\ \A k \in 1 .. Len(cands) : cands[k] \in Searched
     /\ \A l \in Searched : \E k \in 1 .. Len(cands) : cands[k].nic = l.nic
     /\ \A c \in 1 .. Len(picks) : \E k \in 1 .. usable : picks[c] = cands[k]
     /\ \A j, k \in 1 .. usable :
          ChannelsOn(cands[j]) <= ChannelsOn(cands[k]) +
            (IF NumNics % usable = 0 THEN 1 ELSE (Len(picks) + NumNics - 1) \div NumNics)
====
