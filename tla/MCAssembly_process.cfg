CONSTANTS
  Deployments <- MCDeployments
  NoServer = NoServer
  MaxOutages = 1
SPECIFICATION FairSpec
INVARIANT LookupsFindWhatIsInstalled DependantsStopFirst ServesItsOwn ReadyIsServing
PROPERTY CompleteProcessServes
