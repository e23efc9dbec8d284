------------------------------ MODULE MCFiles -------------------------------
(***************************************************************************)
(* What the backend keeps in files beside its database: pairing, secrets   *)
(* and the agents' memory.  These parts stand side by side: a behaviour is *)
(* one of one part, while the others are as they were at first.  Nothing   *)
(* is lost by it, since no step of a part reads or writes what is          *)
(* another's: Pairing and PairingUrls are about the same file, but about   *)
(* other fields of it, and the URLs are worked out at a start, before the  *)
(* server takes requests.                                                  *)
(***************************************************************************)
EXTENDS PairingInvariant, PairAttempts, PairingUrls, CredentialRequests, ProfileMemory, TLC

VARIABLE part      \* the part that takes steps

FilesInit ==
    /\ part \in {"pairing", "attempts", "urls", "credentials", "memory"}
    /\ PairInit /\ AttemptsInit /\ UrlsInit /\ CredInit /\ MemoryInit

FilesNext ==
    \/ /\ part = "pairing" /\ PairNext
       /\ UNCHANGED <<part, attemptVars, urlVars, credVars, memoryVars>>
    \/ /\ part = "attempts" /\ AttemptsNext
       /\ UNCHANGED <<part, pairVars, urlVars, credVars, memoryVars>>
    \/ /\ part = "urls" /\ UrlsNext
       /\ UNCHANGED <<part, pairVars, attemptVars, credVars, memoryVars>>
    \/ /\ part = "credentials" /\ CredNext
       /\ UNCHANGED <<part, pairVars, attemptVars, urlVars, memoryVars>>
    \/ /\ part = "memory" /\ MemoryNext
       /\ UNCHANGED <<part, pairVars, attemptVars, urlVars, credVars>>

FilesVars == <<part, pairVars, attemptVars, urlVars, credVars, memoryVars>>
FilesSpec == FilesInit /\ [][FilesNext]_FilesVars

\* Threads and phones of Pairing.
Symmetric == Permutations(Threads) \cup Permutations(Phones)

=============================================================================
