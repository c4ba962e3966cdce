-------------------------- MODULE MCAutomationStore --------------------------
EXTENDS AutomationStore
=============================================================================
