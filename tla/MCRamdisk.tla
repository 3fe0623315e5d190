----------------------------- MODULE MCRamdisk ------------------------------
(* Instances of Ramdisk for TLC. *)
EXTENDS Ramdisk

\* The long request, the one that mounts, and one that needs the mount, from
\* the same client and from another.
MCScripts == {
    <<"BruteforceSystemKeyBag", "GetEscrowRecord">>,
    <<"GetSystemKeyBag", "GetEscrowRecord">>,
    <<"NoSuchRequest", "Reboot">>
}
=============================================================================
