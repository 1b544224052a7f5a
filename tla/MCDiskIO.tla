------------------------------- MODULE MCDiskIO -------------------------------
(* DiskIO with two threads: one asks for a RAID block, and again in the    *)
(* callback, the other for pages of two RAID blocks.                       *)
EXTENDS DiskIO

CONSTANTS a1, a2

MCExtents == [a \in App |-> IF a = a1 THEN {<<8, 2>>} ELSE {<<7, 3>>}]
MCModes == [a \in App |-> IF a = a1 THEN {"select"} ELSE {"wait"}]
MCMaxReqs == [a \in App |-> IF a = a1 THEN 2 ELSE 1]
===============================================================================
