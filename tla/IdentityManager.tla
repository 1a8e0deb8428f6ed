-------------------------- MODULE IdentityManager --------------------------
(***************************************************************************)
(* helpers::IdentityManager (src/src/ndnapp/identity-manager.cpp) and the  *)
(* certificate renewal of App::configure() (src/src/ndnapp/ndnapp.cpp):    *)
(* a signing identity signs the application's certificate, and the         *)
(* application identity signs the certificate of the running instance.     *)
(*                                                                         *)
(* Signing and application identities are kept in the default key chain,   *)
(* which outlives the process; the instance identity is in memory.  The    *)
(* process may end at any point, also half-way through the creation of an  *)
(* identity, and be started again under another signing identity.          *)
(*                                                                         *)
(* External (ndn-ind): createIdentityV2 makes a key with a self-signed     *)
(* certificate, its default one, unless the identity exists.               *)
(* addCertificate makes a certificate the default of a key that has none,  *)
(* and nothing in src/ sets another: what the getters return stays the     *)
(* self-signed one, beside which the issued one is kept.  A timer of the   *)
(* Face is called when whoever owns the Face processes it, which may be    *)
(* late or never: App and ndnshare do not.                                 *)
(***************************************************************************)
EXTENDS Integers

CONSTANTS
    Argument,      \* what setup() may be given: a name, or a safe bag's path
    None,          \* no identity
    Window,        \* kCertRenewWindow
    AppLifetime,   \* appIdentityLifetime_
    InstLifetime,  \* instIdentityLifetime_
    SelfLifetime,  \* validity of a self-signed certificate
    LastStart,     \* bound on the time of a start
    MaxTime        \* bound on the clock

ASSUME NoneAssumption == None \notin Argument
ASSUME TimeAssumption == {LastStart, MaxTime} \subseteq Nat
(* parameters_ and kCertRenewWindow: a quarter of an hour against an hour. *)
ASSUME LifetimeAssumption ==
    /\ {Window, AppLifetime, InstLifetime, SelfLifetime} \subseteq Nat
    /\ Window < InstLifetime
VARIABLES
    now,              \* system_clock
    \* The default key chain.
    signingIds,       \* signing identities in it
    appCert,          \* signing identity -> the default certificate of its
                      \* application identity, or NoCert if it has none
    appIssued,        \* ... -> the certificate last issued for that, or NoCert
    interrupted,      \* history: those whose application identity was left
                      \* half made by a process that ended
    reliable,         \* no renewal fails in this behaviour
    \* The process.
    pc,               \* where configure() is, or "running", or "off"
    signingIdentity,  \* signingIdentity_
    appIdentity,      \* the signing identity that appIdentity_ is under
    instCert,         \* default certificate of instanceIdentity_, or NoCert
    instIssued,       \* the certificate issued for it, or NoCert
    appTimer,         \* when the application's renewal is due
    instTimer         \* when the instance's is

keyChain == <<signingIds, appCert, appIssued, interrupted>>
instance == <<instCert, instIssued>>
ids == <<signingIdentity, appIdentity, instance>>
vars == <<now, keyChain, reliable, pc, ids, appTimer, instTimer>>

Self == "self"  \* the issuer of a self-signed certificate
Never == -1     \* a timer that is not set
NoCert == [notBefore |-> Never]
(* createIdentityV2() and createSignedIdentity(): valid from now on.       *)
\* Mutant: the bounds of the validity period are not in their order.
BackdatedCert(issuer, lifetime) ==
    [issuer |-> issuer, notBefore |-> now - lifetime, notAfter |-> now]
Cert(issuer, lifetime) ==
    [issuer |-> issuer, notBefore |-> now, notAfter |-> now + lifetime]
IsValid(cert) == cert # NoCert /\ now <= cert.notAfter

-----------------------------------------------------------------------------
(* setup()                                                                 *)

(* loadSafeBag() returns null whatever the file holds: the variable it     *)
(* fills hides the one it returns.                                         *)
LoadSafeBag(path) == None

(* The signing identity: with no safe bag, a path too is taken for the     *)
(* name of an identity, which is created if it is not there.               *)
SetupSigningIdentity(arg) ==
    /\ pc = "off"
    /\ now <= LastStart
    /\ LoadSafeBag(arg) = None
    /\ signingIdentity' = arg
    /\ signingIds' = signingIds \cup {arg}
    /\ pc' = "app"
    /\ UNCHANGED <<now, appCert, appIssued, interrupted, reliable, appIdentity,
                   instance, appTimer, instTimer>>

(* getIdentity() for the application identity: its name is under that of   *)
(* the signing identity.  What it finds is taken as it is.                 *)
\* Mutant: any application identity in the key chain.
IsAnyAppIdentity(s) == s \in signingIds
IsAppIdentity(s) == s = signingIdentity

(* createNewAppIdentity() as far as createIdentityV2().                    *)
CreateAppIdentity(s) ==
    appCert' = [appCert EXCEPT ![s] = Cert(Self, SelfLifetime)] /\ pc' = "sign"

SetupAppIdentity ==
    /\ pc = "app"
    /\ \E s \in Argument :
         /\ IsAppIdentity(s)
         /\ appIdentity' = s
         /\ IF appCert[s] # NoCert
            THEN pc' = "instance" /\ UNCHANGED appCert
            ELSE CreateAppIdentity(s)
    /\ UNCHANGED <<now, signingIds, appIssued, interrupted, reliable,
                   signingIdentity, instance, appTimer, instTimer>>

(* createSignedIdentity() goes on: the certificate the signing identity    *)
(* issues is added to the key, which has its default one already.          *)
AddAppCertificate ==
    appIssued' = [appIssued EXCEPT ![appIdentity] =
                    Cert(signingIdentity, AppLifetime)]

SignAppIdentity ==
    /\ pc = "sign"
    /\ AddAppCertificate
    /\ pc' = "instance"
    /\ UNCHANGED <<now, signingIds, appCert, interrupted, reliable, ids,
                   appTimer, instTimer>>

(* createNewInstanceIdentity(): a new name, by its timestamp, and key.     *)
CreateNewInstanceIdentity ==
    /\ instCert' = Cert(Self, SelfLifetime)
    /\ instIssued' = Cert(appIdentity, InstLifetime)

(* setupCertificateAutoRenew(): callLater(now - renewT), where renewT is   *)
(* the window before the start of the certificate's validity.              *)
\* Mutant: the window after its end.
AfterExpiry(cert) == cert.notAfter + Window
RenewalTime(cert) ==
    LET renewT == cert.notBefore - Window IN now + (now - renewT)

(* The timers configure() sets for the certificates the getters return.    *)
SetupTimers ==
    /\ appTimer' = RenewalTime(appCert[appIdentity])
    /\ instTimer' = RenewalTime(instCert')

(* setupInstanceIdentity(), which never finds an instance identity of that *)
(* name in the fresh key chain.                                            *)
SetupInstanceIdentity ==
    /\ pc = "instance"
    /\ CreateNewInstanceIdentity
    /\ SetupTimers
    /\ pc' = "running"
    /\ UNCHANGED <<now, keyChain, reliable, signingIdentity, appIdentity>>

-----------------------------------------------------------------------------
(* Renewals, each called once.  One that throws in the key chain stops     *)
(* where it is.                                                            *)

(* The Face calls what is due in the order of the times, whenever it is    *)
(* processed.                                                              *)
IsDue(timer, other) ==
    /\ timer # Never
    /\ timer <= now
    /\ other = Never \/ timer <= other

\* Mutant: only the application's certificate.
RenewAppOnly == AddAppCertificate /\ UNCHANGED instance
RenewBoth == AddAppCertificate /\ CreateNewInstanceIdentity

RenewApp ==
    /\ pc = "running"
    /\ IsDue(appTimer, instTimer)
    /\ appTimer' = Never
    /\ \/ RenewBoth
       \/ ~reliable /\ AddAppCertificate /\ UNCHANGED instance
       \/ ~reliable /\ UNCHANGED <<appIssued, instance>>
    /\ UNCHANGED <<now, signingIds, appCert, interrupted, reliable, pc,
                   signingIdentity, appIdentity, instTimer>>

RenewInstance ==
    /\ pc = "running"
    /\ IsDue(instTimer, appTimer)
    /\ instTimer' = Never
    /\ \/ CreateNewInstanceIdentity
       \/ ~reliable /\ UNCHANGED instance
    /\ UNCHANGED <<now, keyChain, reliable, pc, signingIdentity, appIdentity,
                   appTimer>>

-----------------------------------------------------------------------------
(* The process ends: the user stops it, it crashes, or setup() throws.     *)
Stop ==
    /\ pc # "off"
    /\ pc' = "off"
    /\ signingIdentity' = None
    /\ appIdentity' = None
    /\ instCert' = NoCert
    /\ instIssued' = NoCert
    /\ appTimer' = Never
    /\ instTimer' = Never
    /\ interrupted' = IF pc = "sign" THEN interrupted \cup {appIdentity}
                                    ELSE interrupted
    /\ UNCHANGED <<now, signingIds, appCert, appIssued, reliable>>

(* Time passes, whether or not a renewal is due; setup() is fast against   *)
(* the lifetimes.                                                          *)
Tick ==
    /\ pc \in {"off", "running"}
    /\ now < MaxTime
    /\ now' = now + 1
    /\ UNCHANGED <<keyChain, reliable, pc, ids, appTimer, instTimer>>

(* The end of the time that is modelled.                                   *)
Finished == now = MaxTime /\ UNCHANGED vars

Init ==
    /\ now = 0
    /\ signingIds \in SUBSET Argument
    /\ appCert = [s \in Argument |-> NoCert]
    /\ appIssued = [s \in Argument |-> NoCert]
    /\ interrupted = {}
    /\ reliable \in BOOLEAN
    /\ pc = "off"
    /\ signingIdentity = None
    /\ appIdentity = None
    /\ instCert = NoCert
    /\ instIssued = NoCert
    /\ appTimer = Never
    /\ instTimer = Never

Next ==
    \/ \E arg \in Argument : SetupSigningIdentity(arg)
    \/ SetupAppIdentity
    \/ SignAppIdentity
    \/ SetupInstanceIdentity
    \/ RenewApp
    \/ RenewInstance
    \/ Stop
    \/ Tick
    \/ Finished

Spec == Init /\ [][Next]_vars

-----------------------------------------------------------------------------
Certificate ==
    [issuer : Argument \cup {Self}, notBefore : Nat, notAfter : Nat]

(* The variables have the types the code gives them.                       *)
TypeOK ==
    /\ now \in Nat
    /\ signingIds \subseteq Argument
    /\ appCert \in [Argument -> Certificate \cup {NoCert}]
    /\ appIssued \in [Argument -> Certificate \cup {NoCert}]
    /\ interrupted \subseteq Argument
    /\ reliable \in BOOLEAN
    /\ pc \in {"off", "app", "sign", "instance", "running"}
    /\ signingIdentity \in Argument \cup {None}
    /\ appIdentity \in Argument \cup {None}
    /\ instCert \in Certificate \cup {NoCert}
    /\ instIssued \in Certificate \cup {NoCert}
    /\ appTimer \in Nat \cup {Never}
    /\ instTimer \in Nat \cup {Never}

(* While the process runs, its application identity has a certificate of   *)
(* the signing identity that this start was given, whatever earlier starts *)
(* under this or another identity left in the key chain; the exception is  *)
(* an identity whose creation was interrupted, which setup() takes as it   *)
(* finds it.                                                               *)
AppIsSigned ==
    pc = "running" =>
      LET cert == appIssued[appIdentity]
      IN  IF cert = NoCert THEN appIdentity \in interrupted
                           ELSE cert.issuer = signingIdentity

(* The renewal of the instance's certificate is not set for a time after   *)
(* its end, also when the application's renewal, late or not, has replaced *)
(* the certificate the timer was set for: the instance's certificate is    *)
(* valid until its renewal is overdue.                                     *)
InstanceIsValidUntilRenewal ==
    instTimer # Never /\ now <= instTimer => IsValid(instIssued)

(* The certificate issued for the instance is never older than the one     *)
(* issued for the application, which it is to be verified with: a renewal  *)
(* of the application's replaces both, unless it fails.                    *)
InstanceFollowsApp ==
    pc = "running" /\ reliable /\ appIssued[appIdentity] # NoCert =>
      instIssued.notBefore >= appIssued[appIdentity].notBefore

-----------------------------------------------------------------------------
(* What the repository says of the program and the code does not do.       *)

(* "Certificate {} expires in {} seconds. Triggered renew...", with the    *)
(* window for the seconds (ndnapp.cpp:82): the renewal of the application's *)
(* certificate is set for the time when that is what it has left.          *)
RenewsBeforeExpiry ==
    pc = "running" /\ appTimer # Never =>
      appTimer + Window = appCert[appIdentity].notAfter

(* "setup cert auto-renew" (ndnapp.cpp:63): the certificate issued for the *)
(* application is valid until its renewal is overdue.                      *)
AppIsValidUntilRenewal ==
    pc = "running" /\ appTimer # Never /\ now <= appTimer =>
      LET cert == appIssued[appIdentity] IN cert = NoCert \/ IsValid(cert)

(* "Using app certificate {}", "Using instance certificate {}", after they *)
(* were created by createSignedIdentity() (identity-manager.cpp:138, 164). *)
CertificatesInUseAreIssued ==
    pc = "running" => Self \notin {appCert[appIdentity].issuer, instCert.issuer}

=============================================================================
