------------------------------- MODULE Policy -------------------------------
(***************************************************************************)
(* Who may read and who may write: the access rules of TftpServer.         *)
(*                                                                         *)
(* A subnet is the set of the addresses in it; its prefix length is what   *)
(* the rules compare. Later rules of the same length do not count.         *)
(***************************************************************************)
EXTENDS Integers, Sequences

CONSTANTS
    Addresses,    \* client addresses
    ReadOnly,     \* m_readOnly
    SubnetRules,  \* m_subnetRules, in the order they were added
    Whitelist,    \* the subnets of m_whitelist
    Blacklist     \* and of m_blacklist

AccessLevels == {"Blocked", "ReadOnly", "ReadWrite"}

ASSUME PolicyAssumption ==
    /\ ReadOnly \in BOOLEAN
    /\ SubnetRules \in Seq([subnet : SUBSET Addresses,
                            prefix : Nat,
                            level  : AccessLevels])
    /\ Whitelist \subseteq SUBSET Addresses
    /\ Blacklist \subseteq SUBSET Addresses

\* SubnetRule::matches() for the rules of m_subnetRules
Matching(address) == {i \in DOMAIN SubnetRules : address \in SubnetRules[i].subnet}

\* The loop keeps the first of the rules with the longest prefix.
IsBestRule(i, address) ==
    /\ i \in Matching(address)
    /\ \A j \in Matching(address) :
        /\ SubnetRules[j].prefix <= SubnetRules[i].prefix
        /\ SubnetRules[j].prefix = SubnetRules[i].prefix => i <= j

\* Without a rule the lists decide, the blacklist first. (The default level is
\* not looked at.)
ListsAllow(address) ==
    /\ \A subnet \in Blacklist : address \notin subnet
    /\ Whitelist = {} \/ \E subnet \in Whitelist : address \in subnet

\* isAllowed()
IsAllowed(address, isUpload) ==
    /\ ~(isUpload /\ ReadOnly)
    /\ \/ Matching(address) = {} /\ ListsAllow(address)
       \/ \E i \in DOMAIN SubnetRules :
            /\ IsBestRule(i, address)
            /\ SubnetRules[i].level # "Blocked"
            /\ SubnetRules[i].level = "ReadOnly" => ~isUpload
=============================================================================
