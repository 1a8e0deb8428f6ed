----------------------- MODULE IdentityManagerProofs -----------------------
(***************************************************************************)
(* What IdentityManager guarantees for every set of signing identities and *)
(* all lifetimes, however often and wherever the process ends, and however *)
(* late a renewal is called.                                               *)
(***************************************************************************)
EXTENDS IdentityManager, TLAPS

(* A certificate made now is a certificate, of its issuer, from now on.    *)
LEMMA NewCert ==
    ASSUME now \in Nat, NEW issuer \in Argument \cup {Self},
           NEW lifetime \in {AppLifetime, InstLifetime, SelfLifetime}
    PROVE  /\ Cert(issuer, lifetime) \in Certificate
           /\ Cert(issuer, lifetime).issuer = issuer
           /\ Cert(issuer, lifetime).notBefore = now
           /\ Cert(issuer, lifetime).notAfter = now + lifetime
BY LifetimeAssumption DEF Cert, Certificate

(* No certificate is no certificate.                                       *)
LEMMA NoCertIsNone ==
    ASSUME NEW cert \in Certificate PROVE cert # NoCert
BY DEF Certificate, NoCert, Never

(* The phases in which the application identity is known.                  *)
HasApp == pc \in {"sign", "instance", "running"}

(* What setup() has established so far.                                    *)
SetupInv ==
    /\ pc # "off" => signingIdentity \in Argument
    /\ HasApp => appIdentity = signingIdentity /\ appCert[appIdentity] # NoCert
    /\ pc = "running" => instCert # NoCert /\ instIssued # NoCert

(* No certificate in the key chain is from the future; the application's   *)
(* is issued by the identity it is under.                                  *)
CertInv ==
    \A s \in Argument :
        /\ appCert[s] # NoCert => appCert[s].notBefore <= now
        /\ appIssued[s] # NoCert => /\ appIssued[s].issuer = s
                                    /\ appIssued[s].notBefore <= now

(* An application identity that was made was also signed, unless that is   *)
(* still to come, or a process ended before it did.                        *)
SignedInv ==
    \A s \in Argument :
        appCert[s] # NoCert /\ ~(pc = "sign" /\ s = appIdentity) =>
          appIssued[s] # NoCert \/ s \in interrupted

(* A renewal of the instance is not set beyond the end of its certificate. *)
TimerInv ==
    /\ pc # "running" => instTimer = Never
    /\ instTimer # Never => instTimer <= instIssued.notAfter
    /\ pc = "running" => instIssued.notAfter <= now + InstLifetime

IInv == /\ TypeOK
        /\ SetupInv
        /\ CertInv
        /\ SignedInv
        /\ TimerInv
        /\ InstanceFollowsApp

LEMMA InitInv == Init => IInv
BY DEF Init, IInv, TypeOK, SetupInv, CertInv, SignedInv, TimerInv,
       InstanceFollowsApp, HasApp, NoCert, Never, Certificate

(* The key chain after the signing identity has issued a certificate.      *)
LEMMA AddAppCertificateKeeps ==
    ASSUME IInv, HasApp, AddAppCertificate, UNCHANGED <<now, appCert>>
    PROVE  /\ appIssued' \in [Argument -> Certificate \cup {NoCert}]
           /\ appIssued'[appIdentity] # NoCert
           /\ \A s \in Argument \ {appIdentity} : appIssued'[s] = appIssued[s]
           /\ CertInv'
<1> USE DEF IInv
<1> DEFINE cert == Cert(signingIdentity, AppLifetime)
<1>1. /\ appIdentity = signingIdentity /\ appIdentity \in Argument
      /\ appIssued' = [appIssued EXCEPT ![appIdentity] = cert]
  BY DEF SetupInv, AddAppCertificate, HasApp
<1>2. /\ cert \in Certificate
      /\ cert.issuer = appIdentity
      /\ cert.notBefore = now
  BY <1>1, NewCert DEF TypeOK
<1>3. cert # NoCert
  BY <1>2, NoCertIsNone
<1> HIDE DEF cert
<1>4. /\ appIssued'[appIdentity] = cert
      /\ \A s \in Argument \ {appIdentity} : appIssued'[s] = appIssued[s]
  BY <1>1 DEF TypeOK
<1>5. ASSUME NEW s \in Argument, appIssued'[s] # NoCert
      PROVE  appIssued'[s].issuer = s /\ appIssued'[s].notBefore <= now
  <2>1. CASE s = appIdentity
    BY <1>2, <1>4, <2>1 DEF TypeOK
  <2>2. CASE s # appIdentity
    BY <1>4, <1>5, <2>2 DEF CertInv
  <2> QED
    BY <2>1, <2>2
<1>6. CertInv'
  BY <1>5 DEF CertInv
<1> QED
  BY <1>1, <1>2, <1>3, <1>4, <1>6 DEF TypeOK

(* The instance's new certificates.                                        *)
LEMMA NewInstance ==
    ASSUME TypeOK, SetupInv, HasApp, CreateNewInstanceIdentity
    PROVE  /\ instCert' \in Certificate /\ instCert' # NoCert
           /\ instCert'.notBefore = now
           /\ instIssued' \in Certificate /\ instIssued' # NoCert
           /\ instIssued'.notBefore = now
           /\ instIssued'.notAfter = now + InstLifetime
<1>1. appIdentity \in Argument
  BY DEF SetupInv, HasApp
<1> QED
  BY <1>1, NewCert, NoCertIsNone DEF CreateNewInstanceIdentity, TypeOK

(* What is left of it when the instance is made while the process runs.    *)
LEMMA NewInstanceKeeps ==
    ASSUME IInv, pc = "running", pc' = "running", CreateNewInstanceIdentity,
           now' = now, instTimer' \in {instTimer, Never}
    PROVE  TimerInv'
<1>1. /\ instIssued \in Certificate
      /\ instIssued' \in Certificate
      /\ instIssued'.notAfter = now + InstLifetime
  BY NewInstance DEF IInv, HasApp, SetupInv, TypeOK
<1>2. instIssued.notAfter <= instIssued'.notAfter
  BY <1>1 DEF IInv, TimerInv
<1>3. instTimer # Never => instTimer <= instIssued'.notAfter
  BY <1>1, <1>2, LifetimeAssumption DEF IInv, TimerInv, TypeOK, Certificate
<1>4. instIssued'.notAfter <= now' + InstLifetime
  BY <1>1, LifetimeAssumption DEF IInv, TypeOK
<1> QED
  BY <1>3, <1>4 DEF TimerInv

(* One step per action.                                                    *)
LEMMA NextInv == IInv /\ [Next]_vars => IInv'
<1> SUFFICES ASSUME IInv, [Next]_vars PROVE IInv'
  OBVIOUS
<1> USE DEF IInv
<1>1. ASSUME NEW arg \in Argument, SetupSigningIdentity(arg) PROVE IInv'
  <2>1. /\ pc = "off" /\ pc' = "app"
        /\ signingIdentity' = arg
        /\ signingIds' = signingIds \cup {arg}
        /\ UNCHANGED <<now, appCert, appIssued, interrupted, reliable,
                       appIdentity, instCert, instIssued, appTimer, instTimer>>
    BY <1>1 DEF SetupSigningIdentity, instance
  <2> QED
    BY <2>1 DEF TypeOK, SetupInv, CertInv, SignedInv, TimerInv,
                InstanceFollowsApp, HasApp
<1>2. CASE SetupAppIdentity
  <2>1. /\ pc = "app"
        /\ UNCHANGED <<now, signingIds, appIssued, interrupted, reliable,
                       signingIdentity, instCert, instIssued, appTimer,
                       instTimer>>
    BY <1>2 DEF SetupAppIdentity, instance
  <2>2. /\ signingIdentity \in Argument
        /\ appIdentity' = signingIdentity
    BY <1>2, <2>1 DEF SetupAppIdentity, IsAppIdentity, SetupInv
  <2>3. CASE appCert[signingIdentity] # NoCert /\ pc' = "instance"
             /\ UNCHANGED appCert
    BY <2>1, <2>2, <2>3 DEF TypeOK, SetupInv, CertInv, SignedInv, TimerInv,
                            InstanceFollowsApp, HasApp
  <2>4. CASE CreateAppIdentity(signingIdentity)
    <3> DEFINE cert == Cert(Self, SelfLifetime)
    <3>1. /\ appCert' = [appCert EXCEPT ![signingIdentity] = cert]
          /\ pc' = "sign"
      BY <2>4 DEF CreateAppIdentity
    <3>2. cert \in Certificate /\ cert.notBefore = now /\ cert # NoCert
      BY NewCert, NoCertIsNone DEF TypeOK
    <3> HIDE DEF cert
    <3>3. TypeOK'
      BY <2>1, <2>2, <3>1, <3>2 DEF TypeOK
    <3>4. /\ appCert'[signingIdentity] = cert
          /\ \A s \in Argument \ {signingIdentity} : appCert'[s] = appCert[s]
      BY <2>2, <3>1 DEF TypeOK
    <3>5. CertInv'
      BY <2>1, <3>2, <3>4 DEF CertInv, TypeOK
    <3>6. SignedInv'
      BY <2>1, <2>2, <3>1, <3>4 DEF SignedInv
    <3> QED
      BY <2>1, <2>2, <3>1, <3>2, <3>3, <3>4, <3>5, <3>6
         DEF SetupInv, TimerInv, InstanceFollowsApp, HasApp
  <2> QED
    BY <1>2, <2>2, <2>3, <2>4 DEF SetupAppIdentity, IsAppIdentity
<1>3. CASE SignAppIdentity
  <2>1. /\ pc = "sign" /\ pc' = "instance" /\ HasApp /\ AddAppCertificate
        /\ UNCHANGED <<now, signingIds, appCert, interrupted, reliable,
                       signingIdentity, appIdentity, instCert, instIssued,
                       appTimer, instTimer>>
    BY <1>3 DEF SignAppIdentity, HasApp, ids, instance
  <2>2. /\ appIssued' \in [Argument -> Certificate \cup {NoCert}]
        /\ appIssued'[appIdentity] # NoCert
        /\ \A s \in Argument \ {appIdentity} : appIssued'[s] = appIssued[s]
        /\ CertInv'
    BY <2>1, AddAppCertificateKeeps
  <2>3. SignedInv'
    BY <2>1, <2>2 DEF SignedInv
  <2> QED
    BY <2>1, <2>2, <2>3 DEF TypeOK, SetupInv, TimerInv, InstanceFollowsApp,
                            HasApp
<1>4. CASE SetupInstanceIdentity
  <2>1. /\ pc = "instance" /\ pc' = "running" /\ HasApp
        /\ CreateNewInstanceIdentity
        /\ appTimer' = RenewalTime(appCert[appIdentity])
        /\ instTimer' = RenewalTime(instCert')
        /\ UNCHANGED <<now, signingIds, appCert, appIssued, interrupted,
                       reliable, signingIdentity, appIdentity>>
    BY <1>4 DEF SetupInstanceIdentity, SetupTimers, HasApp, keyChain
  <2>2. /\ instCert' \in Certificate /\ instCert' # NoCert
        /\ instCert'.notBefore = now
        /\ instIssued' \in Certificate /\ instIssued' # NoCert
        /\ instIssued'.notBefore = now
        /\ instIssued'.notAfter = now + InstLifetime
    BY <2>1, NewInstance
  <2>3. instTimer' = now + Window
    BY <2>1, <2>2, LifetimeAssumption DEF RenewalTime, TypeOK
  <2>4. /\ appIdentity \in Argument
        /\ appCert[appIdentity] \in Certificate
        /\ appCert[appIdentity].notBefore <= now
    BY <2>1 DEF SetupInv, CertInv, TypeOK, HasApp
  <2>5. appTimer' \in Nat
    BY <2>1, <2>4, LifetimeAssumption DEF RenewalTime, TypeOK, Certificate
  <2>6. TypeOK'
    BY <2>1, <2>2, <2>3, <2>5, LifetimeAssumption DEF TypeOK
  <2>7. SetupInv' /\ CertInv' /\ SignedInv'
    BY <2>1, <2>2 DEF SetupInv, CertInv, SignedInv, HasApp
  <2>8. TimerInv'
    BY <2>1, <2>2, <2>3, LifetimeAssumption DEF TimerInv, TypeOK
  <2>9. InstanceFollowsApp'
    BY <2>1, <2>2, <2>4 DEF InstanceFollowsApp, CertInv
  <2> QED
    BY <2>6, <2>7, <2>8, <2>9
<1>5. CASE RenewApp
  <2>1. /\ pc = "running" /\ pc' = "running" /\ HasApp /\ appTimer' = Never
        /\ UNCHANGED <<now, signingIds, appCert, interrupted, reliable,
                       signingIdentity, appIdentity, instTimer>>
    BY <1>5 DEF RenewApp, HasApp
  <2>2. CASE RenewBoth
    <3>1. AddAppCertificate /\ CreateNewInstanceIdentity
      BY <2>2 DEF RenewBoth
    <3>2. /\ appIssued' \in [Argument -> Certificate \cup {NoCert}]
          /\ appIssued'[appIdentity] # NoCert
          /\ \A s \in Argument \ {appIdentity} : appIssued'[s] = appIssued[s]
          /\ CertInv'
      BY <2>1, <3>1, AddAppCertificateKeeps
    <3>3. /\ instCert' \in Certificate /\ instCert' # NoCert
          /\ instIssued' \in Certificate /\ instIssued' # NoCert
          /\ instIssued'.notBefore = now
      BY <2>1, <3>1, NewInstance
    <3>4. TypeOK'
      BY <2>1, <3>2, <3>3 DEF TypeOK
    <3>5. SetupInv' /\ SignedInv'
      BY <2>1, <3>2, <3>3 DEF SetupInv, SignedInv, HasApp
    <3>6. TimerInv'
      BY <2>1, <3>1, NewInstanceKeeps
    <3>7. appIdentity \in Argument
      BY <2>1 DEF SetupInv
    <3>8. InstanceFollowsApp'
      BY <2>1, <3>2, <3>3, <3>7 DEF InstanceFollowsApp, CertInv, TypeOK
    <3> QED
      BY <3>2, <3>4, <3>5, <3>6, <3>8
  <2>3. CASE ~reliable /\ AddAppCertificate /\ UNCHANGED instance
    <3>1. UNCHANGED <<instCert, instIssued>>
      BY <2>3 DEF instance
    <3>2. /\ appIssued' \in [Argument -> Certificate \cup {NoCert}]
          /\ appIssued'[appIdentity] # NoCert
          /\ \A s \in Argument \ {appIdentity} : appIssued'[s] = appIssued[s]
          /\ CertInv'
      BY <2>1, <2>3, AddAppCertificateKeeps
    <3> QED
      BY <2>1, <2>3, <3>1, <3>2 DEF TypeOK, SetupInv, SignedInv, TimerInv,
                                    InstanceFollowsApp, HasApp
  <2>4. CASE ~reliable /\ UNCHANGED <<appIssued, instance>>
    BY <2>1, <2>4 DEF instance, TypeOK, SetupInv, CertInv, SignedInv,
                      TimerInv, InstanceFollowsApp, HasApp
  <2> QED
    BY <1>5, <2>2, <2>3, <2>4 DEF RenewApp
<1>6. CASE RenewInstance
  <2>1. /\ pc = "running" /\ pc' = "running" /\ HasApp /\ instTimer' = Never
        /\ UNCHANGED <<now, signingIds, appCert, appIssued, interrupted,
                       reliable, signingIdentity, appIdentity, appTimer>>
    BY <1>6 DEF RenewInstance, HasApp, keyChain
  <2>2. CASE CreateNewInstanceIdentity
    <3>1. /\ instCert' \in Certificate /\ instCert' # NoCert
          /\ instIssued' \in Certificate /\ instIssued' # NoCert
          /\ instIssued'.notBefore = now
      BY <2>1, <2>2, NewInstance
    <3>2. TimerInv'
      BY <2>1, <2>2, NewInstanceKeeps
    <3>3. appIdentity \in Argument
      BY <2>1 DEF SetupInv
    <3>4. InstanceFollowsApp'
      BY <2>1, <3>1, <3>3 DEF InstanceFollowsApp, CertInv
    <3> QED
      BY <2>1, <3>1, <3>2, <3>4 DEF TypeOK, SetupInv, CertInv, SignedInv,
                                    HasApp
  <2>3. CASE UNCHANGED instance
    BY <2>1, <2>3 DEF instance, TypeOK, SetupInv, CertInv, SignedInv,
                      TimerInv, InstanceFollowsApp, HasApp
  <2> QED
    BY <1>6, <2>2, <2>3 DEF RenewInstance
<1>7. CASE Stop
  <2>1. /\ pc # "off" /\ pc' = "off"
        /\ signingIdentity' = None /\ appIdentity' = None
        /\ instCert' = NoCert /\ instIssued' = NoCert
        /\ appTimer' = Never /\ instTimer' = Never
        /\ interrupted' = IF pc = "sign" THEN interrupted \cup {appIdentity}
                                         ELSE interrupted
        /\ UNCHANGED <<now, signingIds, appCert, appIssued, reliable>>
    BY <1>7 DEF Stop
  <2>2. pc = "sign" => appIdentity \in Argument
    BY DEF SetupInv, HasApp
  <2>3. SignedInv'
    BY <2>1 DEF SignedInv
  <2> QED
    BY <2>1, <2>2, <2>3 DEF TypeOK, SetupInv, CertInv, TimerInv,
                            InstanceFollowsApp, HasApp
<1>8. CASE Tick
  <2>1. /\ now' = now + 1
        /\ UNCHANGED <<signingIds, appCert, appIssued, interrupted, reliable,
                       pc, signingIdentity, appIdentity, instCert, instIssued,
                       appTimer, instTimer>>
    BY <1>8 DEF Tick, keyChain, ids, instance
  <2>2. TypeOK' /\ SetupInv' /\ SignedInv' /\ InstanceFollowsApp'
    BY <2>1 DEF TypeOK, SetupInv, SignedInv, InstanceFollowsApp, HasApp
  <2>3. ASSUME NEW cert \in Certificate \cup {NoCert}, cert # NoCert,
               cert.notBefore <= now
        PROVE  cert.notBefore <= now + 1
    BY <2>3 DEF TypeOK, Certificate
  <2>4. CertInv'
    BY <2>1, <2>3 DEF CertInv, TypeOK
  <2>5. pc = "running" => instIssued.notAfter <= now + 1 + InstLifetime
    BY LifetimeAssumption DEF TimerInv, SetupInv, TypeOK, Certificate
  <2>6. TimerInv'
    BY <2>1, <2>5 DEF TimerInv
  <2> QED
    BY <2>2, <2>4, <2>6
<1>9. CASE Finished \/ UNCHANGED vars
  BY <1>9 DEF Finished, vars, keyChain, ids, instance, TypeOK, SetupInv,
              CertInv, SignedInv, TimerInv, InstanceFollowsApp, HasApp
<1> QED
  BY <1>1, <1>2, <1>3, <1>4, <1>5, <1>6, <1>7, <1>8, <1>9 DEF Next

-----------------------------------------------------------------------------
(* Every variable keeps the type the code gives it.                        *)
THEOREM TypeCorrect == Spec => []TypeOK
<1>1. IInv => TypeOK
  BY DEF IInv
<1> QED
  BY <1>1, InitInv, NextInv, PTL DEF Spec

(* A running application was issued a certificate by the signing identity  *)
(* of this start, or its creation was interrupted.                         *)
THEOREM AppIsAlwaysSigned == Spec => []AppIsSigned
<1>1. IInv => AppIsSigned
  BY DEF IInv, SetupInv, CertInv, SignedInv, AppIsSigned, HasApp
<1> QED
  BY <1>1, InitInv, NextInv, PTL DEF Spec

(* The certificate issued for the instance is valid until its renewal is   *)
(* overdue.                                                                *)
THEOREM InstanceAlwaysValidUntilRenewal ==
    Spec => []InstanceIsValidUntilRenewal
<1>1. ASSUME IInv PROVE InstanceIsValidUntilRenewal
  <2> SUFFICES ASSUME instTimer # Never, now <= instTimer
               PROVE  IsValid(instIssued)
    BY DEF InstanceIsValidUntilRenewal
  <2>1. /\ instIssued # NoCert /\ instIssued \in Certificate
        /\ instTimer <= instIssued.notAfter
    BY <1>1 DEF IInv, TimerInv, SetupInv, TypeOK
  <2>2. now <= instIssued.notAfter
    BY <1>1, <2>1 DEF IInv, TypeOK, Certificate, Never
  <2> QED
    BY <2>1, <2>2 DEF IsValid
<1> QED
  BY <1>1, InitInv, NextInv, PTL DEF Spec

(* It is never older than the one issued for the application, unless a     *)
(* renewal fails.                                                          *)
THEOREM InstanceAlwaysFollowsApp == Spec => []InstanceFollowsApp
<1>1. IInv => InstanceFollowsApp
  BY DEF IInv
<1> QED
  BY <1>1, InitInv, NextInv, PTL DEF Spec

=============================================================================
