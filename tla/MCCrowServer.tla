---------------------------- MODULE MCCrowServer ----------------------------
\* Instances of CrowServer for TLC: the bounds are numbers of the .cfg files.
EXTENDS CrowServer

=============================================================================
